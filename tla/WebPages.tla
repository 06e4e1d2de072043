------------------------------ MODULE WebPages ------------------------------
(***************************************************************************)
(* The pages in the browsers, together with the builds of WebBuild: how    *)
(* serveIndexHtml (server.ts) answers a request while builds come and go,  *)
(* the page that waits for a build (webBuild.html), and the app, which     *)
(* reloads itself when a build begins (Application.constructAsync).        *)
(*                                                                         *)
(* Lost connections, and users who reload or close a page, are left out.   *)
(***************************************************************************)
EXTENDS WebBuild

CONSTANT Page

VARIABLES
  page,   \* where each page is
  html    \* what it has been sent: for which build, from where, and made by whom

pageVars == <<page, html>>

PageState ==
  {"requested", "waiting", "reading", "filling", "transforming", "loading", "app", "error"}

Html == [id : 0..MaxBuilds, index : 0..MaxBuilds, bundled : BOOLEAN, dev : BOOLEAN]
NoHtml == [id |-> 0, index |-> 0, bundled |-> FALSE, dev |-> FALSE]

UseViteDevServer == ~buildOptions[builtWeb].static

InitPages ==
  /\ Init
  /\ page = [p \in Page |-> "requested"]
  /\ html = [p \in Page |-> NoHtml]

\* buildWeb calls the webBuildStartListeners.
Reloads(p) == builtWeb' # builtWeb /\ page[p] = "app"

BuildStep ==
  /\ Next
  /\ page' = [p \in Page |-> IF Reloads(p) THEN "requested" ELSE page[p]]
  /\ html' = [p \in Page |-> IF Reloads(p) THEN NoHtml ELSE html[p]]

\* The answer to whoever asks is made of what is there, whether the build is finished or not.
BugServe(p) ==
  /\ page[p] = "requested"
  /\ viteDevServer # "none"
  /\ page' = [page EXCEPT ![p] = "reading"]
  /\ html' = [html EXCEPT ![p].id = builtWeb, ![p].bundled = ~UseViteDevServer]
  /\ UNCHANGED vars

\* serveIndexHtml, up to its first await.  Requests are accepted when the constructor has
\* created the dev server.
Serve(p) ==
  /\ page[p] = "requested"
  /\ viteDevServer # "none"
  /\ IF phase[builtWeb] # "resolved"
       THEN /\ page' = [page EXCEPT ![p] = "waiting"]
            /\ UNCHANGED html
       ELSE /\ page' = [page EXCEPT ![p] = "reading"]
            /\ html' = [html EXCEPT ![p].id = builtWeb, ![p].bundled = ~UseViteDevServer]
  /\ UNCHANGED vars

\* readFile, which fails without a bundle; then other awaits.
ReadIndexHtml(p) ==
  /\ page[p] = "reading"
  /\ IF html[p].bundled /\ bundledWWWDir = NoBundle
       THEN /\ page' = [page EXCEPT ![p] = "error"]
            /\ html' = [html EXCEPT ![p] = NoHtml]
       ELSE /\ page' = [page EXCEPT ![p] = "filling"]
            /\ html' = [html EXCEPT ![p].index =
                          IF html[p].bundled THEN bundledWWWDir.by ELSE indexHtml]
  /\ UNCHANGED vars

\* useViteDevServer, asked again.
AskAgain(p) ==
  /\ page[p] = "filling"
  /\ page' = [page EXCEPT ![p] = IF UseViteDevServer THEN "transforming" ELSE "loading"]
  /\ UNCHANGED <<vars, html>>

\* transformIndexHtml has answered.  useViteDevServer is asked a third time, only to add
\* the mTime of scripts, which is left out.
Answer(p) ==
  /\ page[p] = "transforming"
  /\ page' = [page EXCEPT ![p] = "loading"]
  /\ html' = [html EXCEPT ![p].dev = TRUE]
  /\ UNCHANGED vars

\* The scripts are loaded, and subscribe to builds.
OnWebBuildStart(p) ==
  /\ page[p] = "loading"
  /\ page' = [page EXCEPT ![p] = "app"]
  /\ UNCHANGED <<vars, html>>

\* An error is caught and sent: by serveIndexHtml, whose awaits for files, for the state of
\* the original server and for transformIndexHtml may all throw, or instead of the waiting
\* page by serveWebBuildDiagnosisHtml.  Or the scripts cannot be loaded.
PageFails(p) ==
  /\ \/ page[p] \in {"reading", "filling", "transforming", "loading"}
     \/ page[p] = "requested" /\ viteDevServer # "none" /\ phase[builtWeb] # "resolved"
  /\ page' = [page EXCEPT ![p] = "error"]
  /\ html' = [html EXCEPT ![p] = NoHtml]
  /\ UNCHANGED vars

\* The dev server is expected to reload the page.
BugPoll(p) ==
  /\ page[p] = "waiting"
  /\ phase[builtWeb] = "resolved"
  /\ ~UseViteDevServer
  /\ page' = [page EXCEPT ![p] = "requested"]
  /\ UNCHANGED <<vars, html>>

\* fetchAndUpdateContent: twice a second the waiting page asks for the state of the build.
Poll(p) ==
  /\ page[p] = "waiting"
  /\ phase[builtWeb] = "resolved"
  /\ page' = [page EXCEPT ![p] = "requested"]
  /\ UNCHANGED <<vars, html>>

PageStep(p) ==
  \/ Serve(p) \/ ReadIndexHtml(p) \/ AskAgain(p) \/ Answer(p)
  \/ OnWebBuildStart(p) \/ PageFails(p) \/ Poll(p)

NextPages == BuildStep \/ \E p \in Page : PageStep(p)

\* Builds go on as in WebBuild; requests are answered, and what waits for a build polls.
PagesSpec ==
  /\ InitPages
  /\ [][NextPages]_<<vars, pageVars>>
  /\ Fairness
  /\ WF_vars(CreateDevServer)
  /\ \A p \in Page : WF_pageVars(PageStep(p))

-----------------------------------------------------------------------------
(***************************************************************************)
(* Properties.                                                             *)
(***************************************************************************)

\* A page for which no newer build was requested is made of one build: its index.html is
\* that build's own, from the directory that is served and made by the server that serves.
PagesAreOfOneBuild ==
  \A p \in Page :
    page[p] \in {"loading", "app"} /\ html[p].id = builtWeb =>
      /\ html[p].index = builtWeb
      /\ html[p].bundled = buildOptions[builtWeb].static
      /\ html[p].dev = ~buildOptions[builtWeb].static

\* Every page shows the app in the end, or an error, unless the newest build has failed:
\* none waits for a build that was canceled, or whose end it has missed.
PagesArrive ==
  \A p \in Page :
    page[p] # "app" ~> page[p] \in {"app", "error"} \/ phase[builtWeb] = "rejected"
=============================================================================
