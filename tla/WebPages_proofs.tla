--------------------------- MODULE WebPages_proofs ---------------------------
(***************************************************************************)
(* Pages and builds together, for any number of both: the builds keep the  *)
(* properties of WebBuild, and no page is made of parts of several builds. *)
(***************************************************************************)
EXTENDS WebPages, WebBuild_proofs

\* Made from the answer of serveIndexHtml.
Answered == {"reading", "filling", "transforming", "loading", "app"}

PagesTyped ==
  /\ page \in [Page -> PageState]
  /\ html \in [Page -> Html]
  /\ \A p \in Page : html[p].id <= builtWeb
  /\ \A p \in Page : page[p] \notin Answered => html[p] = NoHtml

\* What has been sent for the newest build fits it, and what is still to be sent will:
\* the build has resolved, and keeps its options.
SentFits(p) ==
  /\ phase[builtWeb] = "resolved"
  /\ html[p].bundled = buildOptions[builtWeb].static
  /\ page[p] # "reading" => html[p].index = builtWeb
  /\ page[p] \in {"reading", "filling"} => html[p].dev = FALSE
  /\ page[p] = "transforming" => html[p].bundled = FALSE
  /\ page[p] \in {"loading", "app"} => \/ html[p].bundled = TRUE /\ html[p].dev = FALSE
                                       \/ html[p].bundled = FALSE /\ html[p].dev = TRUE

PagesFit ==
  \A p \in Page : page[p] \in Answered /\ html[p].id = builtWeb => SentFits(p)

\* The pages do not touch the builds: what holds of WebBuild holds here.
LEMMA BuildsAreWebBuild == PagesSpec => Spec
<1>1. InitPages => Init
  BY DEF InitPages
<1>2. [NextPages]_<<vars, pageVars>> => [Next]_vars
  <2>1. ASSUME NEW p \in Page, PageStep(p) PROVE UNCHANGED vars
    BY <2>1
       DEF PageStep, Serve, ReadIndexHtml, AskAgain, Answer, OnWebBuildStart, PageFails, Poll
  <2>2. QED
    BY <2>1 DEF NextPages, BuildStep
<1>3. QED
  BY <1>1, <1>2, PTL DEF PagesSpec, Spec

\* A step of the builds requests a new one, or leaves a resolved newest build as it is.
LEMMA NewestStays ==
  ASSUME TypeOK, Next
  PROVE  \/ builtWeb' = builtWeb + 1
         \/ /\ UNCHANGED <<builtWeb, buildOptions>>
            /\ phase[builtWeb] = "resolved" => phase'[builtWeb] = "resolved"
<1>1. CASE Outside
  BY <1>1, OutsideSteps
<1>2. ASSUME NEW b \in Build, Run(b)
      PROVE  /\ UNCHANGED <<builtWeb, buildOptions>>
             /\ phase[builtWeb] = "resolved" => phase'[builtWeb] = "resolved"
  <2>1. Pending(b) /\ UNCHANGED <<builtWeb, buildOptions>>
    BY <1>2, RunSteps
  <2>2. PICK q : phase' = [phase EXCEPT ![b] = q]
    BY <1>2, RunSteps
  <2>3. phase[builtWeb] = "resolved" => b # builtWeb
    BY <2>1 DEF Pending, WorkPhase
  <2>4. QED
    BY <2>1, <2>2, <2>3 DEF TypeOK
<1>3. QED
  BY <1>1, <1>2 DEF Next

\* A build step reloads the pages of older builds, and leaves the rest alone.
LEMMA BuildStepKeepsPages ==
  ASSUME TypeOK, PagesTyped, PagesFit, BuildStep
  PROVE  PagesTyped' /\ PagesFit'
<1>1. /\ \A p \in Page : /\ page'[p] = IF Reloads(p) THEN "requested" ELSE page[p]
                         /\ html'[p] = IF Reloads(p) THEN NoHtml ELSE html[p]
      /\ page' = [p \in Page |-> page'[p]] /\ html' = [p \in Page |-> html'[p]]
  BY DEF BuildStep
<1>2. builtWeb \in Nat /\ builtWeb > 0
  BY BoundsAssumption DEF TypeOK, Build
<1>3. \/ builtWeb' = builtWeb + 1
      \/ /\ UNCHANGED <<builtWeb, buildOptions>>
         /\ phase[builtWeb] = "resolved" => phase'[builtWeb] = "resolved"
  BY NewestStays DEF BuildStep
<1>4. ASSUME NEW p \in Page
      PROVE  /\ page'[p] \in PageState /\ html'[p] \in Html
             /\ html'[p].id <= builtWeb'
             /\ page'[p] \notin Answered => html'[p] = NoHtml
             /\ html'[p].id = builtWeb' => /\ UNCHANGED <<builtWeb, buildOptions>>
                                           /\ page'[p] = page[p] /\ html'[p] = html[p]
  <2>1. html[p] \in Html /\ page[p] \in PageState /\ html[p].id \in Nat
    BY BoundsAssumption DEF PagesTyped, Html
  <2>2. NoHtml \in Html /\ NoHtml.id = 0 /\ "requested" \in PageState
    BY BoundsAssumption DEF NoHtml, Html, PageState
  <2>3. html[p].id <= builtWeb
    BY DEF PagesTyped
  <2>4. CASE Reloads(p)
    BY <1>1, <1>2, <1>3, <2>2, <2>4 DEF Answered
  <2>5. CASE ~Reloads(p)
    BY <1>1, <1>2, <1>3, <2>1, <2>3, <2>5 DEF PagesTyped
  <2>6. QED
    BY <2>4, <2>5
<1>5. PagesTyped'
  BY <1>1, <1>4 DEF PagesTyped
<1>6. ASSUME NEW p \in Page, page'[p] \in Answered, html'[p].id = builtWeb'
      PROVE  SentFits(p)'
  <2>1. UNCHANGED <<builtWeb, buildOptions>> /\ page'[p] = page[p] /\ html'[p] = html[p]
    BY <1>4, <1>6
  <2>2. SentFits(p)
    BY <1>6, <2>1 DEF PagesFit
  <2>3. phase'[builtWeb] = "resolved"
    BY <1>2, <1>3, <2>1, <2>2 DEF SentFits
  <2>4. QED
    BY <2>1, <2>2, <2>3 DEF SentFits
<1>7. QED
  BY <1>5, <1>6 DEF PagesFit

\* A step of a page, in which that page and what it has been sent become s and h.
LEMMA PageMoves ==
  ASSUME PagesTyped, PagesFit, UNCHANGED vars, NEW p \in Page,
         NEW s \in PageState, NEW h \in Html,
         page' = [page EXCEPT ![p] = s], html' = [html EXCEPT ![p] = h],
         h.id <= builtWeb, s \notin Answered => h = NoHtml,
         s \in Answered /\ h.id = builtWeb => SentFits(p)'
  PROVE  PagesTyped' /\ PagesFit'
<1> USE DEF vars, buildVars
<1>1. /\ page'[p] = s /\ html'[p] = h
      /\ \A q \in Page \ {p} : page'[q] = page[q] /\ html'[q] = html[q]
  BY DEF PagesTyped
<1>2. PagesTyped'
  BY <1>1 DEF PagesTyped
<1>3. ASSUME NEW q \in Page, page'[q] \in Answered, html'[q].id = builtWeb'
      PROVE  SentFits(q)'
  <2>1. CASE q = p
    BY <1>1, <1>3, <2>1
  <2>2. CASE q # p
    BY <1>1, <1>3, <2>2 DEF PagesFit, SentFits
  <2>3. QED
    BY <2>1, <2>2
<1>4. QED
  BY <1>2, <1>3 DEF PagesFit

\* The steps of a page.
LEMMA PageStepKeepsPages ==
  ASSUME TypeOK, ServedFilesAreOwn, PagesTyped, PagesFit, NEW p \in Page, PageStep(p)
  PROVE  PagesTyped' /\ PagesFit'
<1> USE DEF vars, buildVars
<1>0. /\ html[p] \in Html /\ page[p] \in PageState /\ html[p].id <= builtWeb
      /\ html[p].dev \in BOOLEAN /\ html[p].bundled \in BOOLEAN /\ NoHtml.id <= builtWeb
      /\ builtWeb \in Build /\ builtWeb > 0 /\ builtWeb \in 0..MaxBuilds
      /\ buildOptions[builtWeb].static \in BOOLEAN
      /\ NoHtml \in Html /\ NoHtml.id = 0 /\ NoHtml.dev = FALSE
      /\ html[p].id = builtWeb /\ page[p] \in Answered => SentFits(p)
  BY BoundsAssumption DEF PagesTyped, PagesFit, TypeOK, Build, Options, NoHtml, Html
<1>1. CASE Serve(p)
  <2>1. html[p] = NoHtml /\ UNCHANGED vars
    BY <1>1 DEF Serve, PagesTyped, Answered
  <2>2. CASE phase[builtWeb] # "resolved"
    <3>1. page' = [page EXCEPT ![p] = "waiting"] /\ html' = [html EXCEPT ![p] = NoHtml]
      BY <1>1, <2>1, <2>2 DEF Serve, PagesTyped
    <3>2. QED
      BY <1>0, <2>1, <3>1, PageMoves DEF PageState, Answered
  <2>3. CASE phase[builtWeb] = "resolved"
    <3> DEFINE h == [html[p] EXCEPT !.id = builtWeb, !.bundled = buildOptions[builtWeb].static]
    <3>1. page' = [page EXCEPT ![p] = "reading"] /\ html' = [html EXCEPT ![p] = h]
      BY <1>0, <1>1, <2>3 DEF Serve, UseViteDevServer
    <3>2. h \in Html /\ h.id = builtWeb /\ h.bundled = buildOptions[builtWeb].static /\ h.dev = FALSE
      BY <1>0, <2>1 DEF Html
    <3>3. page'[p] = "reading" /\ html'[p] = h
      BY <3>1 DEF PagesTyped
    <3> HIDE DEF h
    <3>4. SentFits(p)'
      BY <2>1, <2>3, <3>2, <3>3 DEF SentFits
    <3>5. h.id <= builtWeb
      BY <1>0, <3>2 DEF Build
    <3>6. QED
      BY <2>1, <3>1, <3>2, <3>4, <3>5, PageMoves DEF PageState, Answered
  <2>4. QED
    BY <2>2, <2>3
<1>2. CASE ReadIndexHtml(p)
  <2>1. page[p] = "reading" /\ UNCHANGED vars
    BY <1>2 DEF ReadIndexHtml
  <2>2. CASE html[p].bundled /\ bundledWWWDir = NoBundle
    <3>1. page' = [page EXCEPT ![p] = "error"] /\ html' = [html EXCEPT ![p] = NoHtml]
      BY <1>2, <2>2 DEF ReadIndexHtml
    <3>2. QED
      BY <1>0, <2>1, <3>1, PageMoves DEF PageState, Answered
  <2>3. CASE ~(html[p].bundled /\ bundledWWWDir = NoBundle)
    <3> DEFINE i == IF html[p].bundled THEN bundledWWWDir.by ELSE indexHtml
               h == [html[p] EXCEPT !.index = i]
    <3>1. page' = [page EXCEPT ![p] = "filling"] /\ html' = [html EXCEPT ![p] = h]
      BY <1>0, <1>2, <2>3 DEF ReadIndexHtml
    <3>2. i \in 0..MaxBuilds
      BY <2>3, BoundsAssumption DEF TypeOK, Bundle, Build
    <3>3. h \in Html /\ h.id = html[p].id /\ h.bundled = html[p].bundled /\ h.dev = html[p].dev
          /\ h.index = i
      BY <1>0, <3>2 DEF Html
    <3>4. page'[p] = "filling" /\ html'[p] = h
      BY <3>1 DEF PagesTyped
    <3>5. ASSUME html[p].id = builtWeb PROVE SentFits(p)'
      <4>1. SentFits(p)
        BY <1>0, <2>1, <3>5 DEF Answered
      <4>2. i = builtWeb
        BY <4>1 DEF SentFits, ServedFilesAreOwn
      <4> HIDE DEF h, i
      <4>3. QED
        BY <2>1, <3>3, <3>4, <4>1, <4>2 DEF SentFits
    <3> HIDE DEF h, i
    <3>6. QED
      BY <1>0, <2>1, <3>1, <3>3, <3>5, PageMoves DEF PageState, Answered
  <2>4. QED
    BY <2>2, <2>3
<1>3. CASE AskAgain(p)
  <2> DEFINE s == IF UseViteDevServer THEN "transforming" ELSE "loading"
  <2>1. page[p] = "filling" /\ UNCHANGED vars /\ page' = [page EXCEPT ![p] = s]
        /\ html' = [html EXCEPT ![p] = html[p]]
    BY <1>3 DEF AskAgain, PagesTyped
  <2>2. page'[p] = s /\ html'[p] = html[p]
    BY <2>1 DEF PagesTyped
  <2>3. ASSUME html[p].id = builtWeb PROVE SentFits(p)'
    <3>1. SentFits(p)
      BY <1>0, <2>1, <2>3 DEF Answered
    <3>2. phase[builtWeb] = "resolved" /\ html[p].index = builtWeb
          /\ html[p].bundled = buildOptions[builtWeb].static /\ html[p].dev = FALSE
      BY <1>0, <2>1, <3>1 DEF SentFits
    <3>3. CASE buildOptions[builtWeb].static = TRUE
      BY <2>1, <2>2, <3>2, <3>3 DEF SentFits, UseViteDevServer
    <3>4. CASE buildOptions[builtWeb].static = FALSE
      BY <2>1, <2>2, <3>2, <3>4 DEF SentFits, UseViteDevServer
    <3>5. QED
      BY <1>0, <3>3, <3>4
  <2>4. s \in PageState /\ s \in Answered
    BY DEF PageState, Answered
  <2> HIDE DEF s
  <2>5. QED
    BY <1>0, <2>1, <2>3, <2>4, PageMoves
<1>4. CASE Answer(p)
  <2> DEFINE h == [html[p] EXCEPT !.dev = TRUE]
  <2>1. page[p] = "transforming" /\ UNCHANGED vars
        /\ page' = [page EXCEPT ![p] = "loading"] /\ html' = [html EXCEPT ![p] = h]
    BY <1>0, <1>4 DEF Answer
  <2>2. h \in Html /\ h.id = html[p].id /\ h.index = html[p].index
        /\ h.bundled = html[p].bundled /\ h.dev = TRUE
    BY <1>0 DEF Html
  <2>3. page'[p] = "loading" /\ html'[p] = h
    BY <2>1 DEF PagesTyped
  <2> HIDE DEF h
  <2>4. ASSUME html[p].id = builtWeb PROVE SentFits(p)'
    <3>1. SentFits(p)
      BY <1>0, <2>1, <2>4 DEF Answered
    <3>2. phase[builtWeb] = "resolved" /\ h.index = builtWeb
          /\ h.bundled = buildOptions[builtWeb].static /\ h.bundled = FALSE
      BY <1>0, <2>1, <2>2, <3>1 DEF SentFits
    <3>3. QED
      BY <2>1, <2>2, <2>3, <3>2 DEF SentFits
  <2>5. QED
    BY <1>0, <2>1, <2>2, <2>4, PageMoves DEF PageState, Answered
<1>5. CASE OnWebBuildStart(p)
  <2>1. page[p] = "loading" /\ UNCHANGED vars /\ page' = [page EXCEPT ![p] = "app"]
        /\ html' = [html EXCEPT ![p] = html[p]]
    BY <1>5 DEF OnWebBuildStart, PagesTyped
  <2>2. page'[p] = "app" /\ html'[p] = html[p]
    BY <2>1 DEF PagesTyped
  <2>3. html[p].id = builtWeb => SentFits(p)'
    BY <1>0, <2>1, <2>2 DEF SentFits, Answered
  <2>4. QED
    BY <1>0, <2>1, <2>3, PageMoves DEF PageState, Answered
<1>6. CASE PageFails(p)
  <2>1. UNCHANGED vars /\ page' = [page EXCEPT ![p] = "error"]
        /\ html' = [html EXCEPT ![p] = NoHtml]
    BY <1>6 DEF PageFails
  <2>2. QED
    BY <1>0, <2>1, PageMoves DEF PageState, Answered
<1>7. CASE Poll(p)
  <2>1. page[p] = "waiting" /\ UNCHANGED vars /\ page' = [page EXCEPT ![p] = "requested"]
        /\ html' = [html EXCEPT ![p] = html[p]] /\ html[p] = NoHtml
    BY <1>7 DEF Poll, PagesTyped, Answered
  <2>2. QED
    BY <1>0, <2>1, PageMoves DEF PageState, Answered
<1>8. QED
  BY <1>1, <1>2, <1>3, <1>4, <1>5, <1>6, <1>7 DEF PageStep

\* A page for which no newer build was requested is made of one build, however many
\* builds are requested, canceled and fail, and wherever serveIndexHtml awaits.
THEOREM PagesFitTheirBuild == PagesSpec => []PagesAreOfOneBuild
<1>1. InitPages => PagesTyped /\ PagesFit
  <2> SUFFICES ASSUME InitPages PROVE PagesTyped /\ PagesFit
    OBVIOUS
  <2>1. NoHtml \in Html /\ NoHtml.id = 0 /\ builtWeb = 1
    BY BoundsAssumption DEF NoHtml, Html, InitPages, Init
  <2>2. QED
    BY <2>1 DEF InitPages, PagesTyped, PagesFit, PageState, Answered
<1>2. TypeOK /\ ServedFilesAreOwn /\ PagesTyped /\ PagesFit /\ [NextPages]_<<vars, pageVars>>
        => PagesTyped' /\ PagesFit'
  <2> SUFFICES ASSUME TypeOK, ServedFilesAreOwn, PagesTyped, PagesFit,
                      [NextPages]_<<vars, pageVars>>
               PROVE  PagesTyped' /\ PagesFit'
    OBVIOUS
  <2>1. CASE BuildStep
    BY <2>1, BuildStepKeepsPages
  <2>2. ASSUME NEW p \in Page, PageStep(p) PROVE PagesTyped' /\ PagesFit'
    BY <2>2, PageStepKeepsPages
  <2>3. CASE UNCHANGED <<vars, pageVars>>
    BY <2>3 DEF vars, buildVars, pageVars, PagesTyped, PagesFit, SentFits
  <2>4. QED
    BY <2>1, <2>2, <2>3 DEF NextPages
<1>3. PagesTyped /\ PagesFit => PagesAreOfOneBuild
  BY DEF PagesFit, SentFits, PagesAreOfOneBuild, Answered
<1>4. PagesSpec => InitPages /\ [][NextPages]_<<vars, pageVars>>
  BY PTL DEF PagesSpec
<1>5. PagesSpec => [](TypeOK /\ ServedFilesAreOwn)
  BY BuildsAreWebBuild, TypeCorrect, ServesOwnFiles, PTL
<1>6. QED
  BY <1>1, <1>2, <1>3, <1>4, <1>5, PTL
=============================================================================
