----------------------------- MODULE WebBuild -----------------------------
(***************************************************************************)
(* The web build of the nodejs server: AppServer.buildWeb (server.ts), the *)
(* phases of WebBuildProgress.run (WebBuilder.ts), the cancellation        *)
(* protocol of PromiseTask (util/PromiseTask.ts), the watchers that        *)
(* trigger rebuilds and the session methods that reach into a build.       *)
(*                                                                         *)
(* Node runs one callback at a time; every action below is the code        *)
(* between two awaits.  Builds are numbered in the order buildWeb creates  *)
(* them, and build b waits for build b - 1 (its oldBuild).  The files all  *)
(* builds share (index.html, the plugin list, node_modules, the bundled    *)
(* www dir) and process.env.NODE_ENV are variables of their own.           *)
(***************************************************************************)
EXTENDS Naturals

CONSTANTS
  MaxBuilds,        \* bound: the number of buildWeb calls
  MaxConfigWrites,  \* bound: the number of writes of electrified.json
  MaxSessionCalls,  \* bound: the number of setNodeEnv and resetNode_modules calls
  Plugin,           \* the npm plugins electrified.json may list
  Broken,           \* electrified.json while it is half written: does not parse
  Missing,          \* node_modules after resetNode_modules
  NoBundle,         \* a directory that does not exist
  AllowRevert       \* may electrified.json return to the content the watcher
                    \* knows before the watcher looks at it?

ASSUME BoundsAssumption ==
  /\ MaxBuilds \in Nat \ {0}
  /\ MaxConfigWrites \in Nat
  /\ MaxSessionCalls \in Nat
  /\ AllowRevert \in BOOLEAN

Build == 1..MaxBuilds
Options == [static : BOOLEAN, plugins : BOOLEAN]
NodeEnv == {"development", "production"}
Config == (SUBSET Plugin) \cup {Broken}
Bundle == [by : 0..MaxBuilds, list : SUBSET Plugin]

\* A local of run() is reset once nothing reads it any more (npmPlugins, outDir,
\* origNodeEnv): its last value shall not tell two states apart.

\* The places where WebBuildAndDeploy.run awaits, in the order it reaches them.
WorkPhase ==
  {"sleep", "closeDevServer", "createIndexHtml", "createPluginList",
   "readNpmPlugins", "npmInstall", "checkPlugins", "typeCheck", "bundleFiles",
   "deleteBundledDir", "moveBundle", "restartDevServer"}
SettledPhase == {"resolved", "rejected"}
Phase == {"none", "waitForOldBuild"} \cup WorkPhase \cup SettledPhase

VARIABLES
  builtWeb,         \* this.builtWeb: the newest build
  phase,            \* where the run() of each build is, or how it settled
  cancelRequested,  \* promiseState.cancelRequested
  buildOptions,     \* the options of each build
  delayed,          \* was the build requested with delayMs?
  npmPlugins,       \* the plugins each build hands to npm install
  outDir,           \* /var/tmp/<buildId>: what each build has bundled
  indexHtml,        \* the build whose id is in wwwSourceDir/index.html
  pluginList,       \* the content of _generated_pluginList.ts
  nodeModules,      \* the plugins in wwwSourceDir/node_modules
  bundledWWWDir,    \* the bundle that is served
  viteDevServer,    \* "none" until the constructor has created it
  nodeEnv,          \* process.env.NODE_ENV
  origNodeEnv,      \* orig_NODE_ENV of each build's bundleFiles
  startupNodeEnv,   \* startup_nodeEnv
  chosenNodeEnv,    \* history: the value last chosen by buildWeb or setNodeEnv
  config,           \* the plugins in electrified.json
  lastCfg,          \* lastCfg.plugins of the watcher of electrified.json
  watchDue,         \* a change event of electrified.json is not yet handled
  cleanRebuild,     \* disablePluginsAndRebuildClean awaits resetNode_modules
  resetAlone,       \* history: resetNode_modules was called by itself, and
                    \* nothing has been installed since
  configWrites,     \* number of writes of electrified.json
  sessionCalls      \* number of setNodeEnv and resetNode_modules calls

buildVars == <<builtWeb, phase, cancelRequested, buildOptions, delayed>>
fileVars == <<npmPlugins, outDir, indexHtml, pluginList, nodeModules, bundledWWWDir>>
envVars == <<nodeEnv, origNodeEnv, startupNodeEnv, chosenNodeEnv>>
watchVars == <<config, lastCfg, watchDue, configWrites>>
sessionVars == <<cleanRebuild, resetAlone, sessionCalls>>
vars == <<buildVars, fileVars, envVars, watchVars, sessionVars, viteDevServer>>

Pending(b) == phase[b] \in WorkPhase \cup {"waitForOldBuild"}
Working(b) == phase[b] \in WorkPhase
Settled(b) == phase[b] \in SettledPhase

\* The constructor has just called buildWeb for the first time and has started
\* the watchers; the vite dev server is created while that build is under way.
Init ==
  /\ startupNodeEnv \in NodeEnv
  /\ config \in SUBSET Plugin
  /\ builtWeb = 1
  /\ phase = [b \in Build |-> IF b = 1 THEN "closeDevServer" ELSE "none"]
  /\ cancelRequested = [b \in Build |-> FALSE]
  /\ buildOptions = [b \in Build |->
       [static |-> startupNodeEnv # "development", plugins |-> TRUE]]
  /\ delayed = [b \in Build |-> FALSE]
  /\ npmPlugins = [b \in Build |-> {}]
  /\ outDir = [b \in Build |-> NoBundle]
  /\ indexHtml = 0
  /\ pluginList = {}
  /\ nodeModules = {}
  /\ bundledWWWDir = NoBundle
  /\ viteDevServer = "none"
  /\ nodeEnv = startupNodeEnv
  /\ origNodeEnv = [b \in Build |-> startupNodeEnv]
  /\ chosenNodeEnv = startupNodeEnv
  /\ lastCfg = config
  /\ watchDue = FALSE
  /\ cleanRebuild = FALSE
  /\ resetAlone = FALSE
  /\ configWrites = 0
  /\ sessionCalls = 0

-----------------------------------------------------------------------------
(***************************************************************************)
(* PromiseTask: cancel and checkCanceled.                                  *)
(***************************************************************************)

\* cancel() only marks a pending task.  A task that sleeps also listens for it.
Cancel(b) == cancelRequested' = [cancelRequested EXCEPT ![b] = TRUE]

\* The task goes on to its next await, unless checkCanceled throws first.
BugUnknownState(b, next) ==
  phase' = [phase EXCEPT ![b] = IF cancelRequested[b] THEN "canceled" ELSE next]

BugContinueUnchecked(b, next) == phase' = [phase EXCEPT ![b] = next]

Continue(b, next) ==
  phase' = [phase EXCEPT ![b] = IF cancelRequested[b] THEN "rejected" ELSE next]

\* The parts of run() between which there is no checkCanceled.
GoOn(b, next) == phase' = [phase EXCEPT ![b] = next]

-----------------------------------------------------------------------------
(***************************************************************************)
(* buildWeb and its callers.                                               *)
(***************************************************************************)

\* Asks a pending old build to stop, and creates the new one.
BuildWeb(options, delay) ==
  LET new == builtWeb + 1 IN
  /\ builtWeb < MaxBuilds
  /\ builtWeb' = new
  /\ IF Pending(builtWeb) THEN Cancel(builtWeb) ELSE UNCHANGED cancelRequested
  /\ phase' = [phase EXCEPT ![new] = "waitForOldBuild"]
  /\ buildOptions' = [buildOptions EXCEPT ![new] = options]
  /\ delayed' = [delayed EXCEPT ![new] = delay]
  /\ nodeEnv' = IF options.static THEN startupNodeEnv ELSE nodeEnv
  /\ chosenNodeEnv' = IF options.static THEN startupNodeEnv ELSE chosenNodeEnv
  /\ UNCHANGED <<origNodeEnv, startupNodeEnv, fileVars, viteDevServer>>

\* A logged-on user: the control panel, the plugin manager.
RebuildWebAsync(options) ==
  /\ BuildWeb(options, FALSE)
  /\ UNCHANGED <<watchVars, sessionVars>>

\* A file changed in one of the directories with plugin packages.
PluginFilesChange ==
  /\ BuildWeb(buildOptions[builtWeb], TRUE)
  /\ UNCHANGED <<watchVars, sessionVars>>

\* Any process of the cluster writes electrified.json; the event comes later.
WriteConfig(c) ==
  /\ configWrites < MaxConfigWrites
  /\ c # config
  /\ AllowRevert \/ ~watchDue \/ c # lastCfg
  /\ config' = c
  /\ watchDue' = TRUE
  /\ configWrites' = configWrites + 1
  /\ UNCHANGED <<buildVars, fileVars, envVars, sessionVars, lastCfg, viteDevServer>>

\* 100 ms after the event the watcher compares what the file lists by then.
BugWatcherForgets ==
  /\ watchDue
  /\ watchDue' = FALSE
  /\ lastCfg' = config
  /\ UNCHANGED <<buildVars, fileVars, envVars, sessionVars, config, configWrites,
                 viteDevServer>>

ConfigWatcherFires ==
  /\ watchDue
  /\ watchDue' = FALSE
  /\ lastCfg' = config
  /\ IF config # lastCfg
       THEN BuildWeb(buildOptions[builtWeb], TRUE)
       ELSE UNCHANGED <<buildVars, fileVars, envVars, viteDevServer>>
  /\ UNCHANGED <<config, configWrites, sessionVars>>

\* resetNode_modules deletes the directory under whatever build is working;
\* disablePluginsAndRebuildClean goes on to build without plugins.
ResetNodeModules(andRebuild) ==
  /\ sessionCalls < MaxSessionCalls
  /\ ~cleanRebuild
  /\ sessionCalls' = sessionCalls + 1
  /\ nodeModules' = Missing
  /\ cleanRebuild' = andRebuild
  /\ resetAlone' = (resetAlone \/ ~andRebuild)
  /\ UNCHANGED <<buildVars, envVars, watchVars, viteDevServer,
                 npmPlugins, outDir, indexHtml, pluginList, bundledWWWDir>>

\* There seems to be nothing to rebuild.
BugRebuildWithoutPlugins ==
  /\ cleanRebuild
  /\ cleanRebuild' = FALSE
  /\ IF buildOptions[builtWeb].plugins
       THEN BuildWeb([buildOptions[builtWeb] EXCEPT !.plugins = FALSE], FALSE)
       ELSE UNCHANGED <<buildVars, fileVars, envVars, viteDevServer>>
  /\ UNCHANGED <<watchVars, resetAlone, sessionCalls>>

RebuildWithoutPlugins ==
  /\ cleanRebuild
  /\ cleanRebuild' = FALSE
  /\ BuildWeb([buildOptions[builtWeb] EXCEPT !.plugins = FALSE], FALSE)
  /\ UNCHANGED <<watchVars, resetAlone, sessionCalls>>

\* viteDevServer?.restart() opens the server again, closed or not.
Restarted == IF viteDevServer = "none" THEN "none" ELSE "open"

SetNodeEnv(value) ==
  /\ sessionCalls < MaxSessionCalls
  /\ sessionCalls' = sessionCalls + 1
  /\ nodeEnv' = value
  /\ chosenNodeEnv' = value
  /\ viteDevServer' = IF value # nodeEnv THEN Restarted ELSE viteDevServer
  /\ UNCHANGED <<buildVars, fileVars, watchVars, origNodeEnv, startupNodeEnv,
                 cleanRebuild, resetAlone>>

\* The rest of the constructor: it does not wait for the first build.
CreateDevServer ==
  /\ viteDevServer = "none"
  /\ viteDevServer' = "open"
  /\ UNCHANGED <<buildVars, fileVars, envVars, watchVars, sessionVars>>

-----------------------------------------------------------------------------
(***************************************************************************)
(* WebBuildAndDeploy.run: the steps of build b.                            *)
(***************************************************************************)
othersOfBuild == <<builtWeb, cancelRequested, buildOptions, delayed>>

\* Await oldBuild, whatever became of it, then checkCanceled.
BugDoNotWait(b) ==
  /\ phase[b] = "waitForOldBuild"
  /\ Continue(b, IF delayed[b] THEN "sleep" ELSE "closeDevServer")
  /\ UNCHANGED <<othersOfBuild, fileVars, envVars, watchVars, sessionVars, viteDevServer>>

BugWaitIsCancelable(b) ==
  /\ phase[b] = "waitForOldBuild"
  /\ Settled(b - 1) \/ cancelRequested[b]
  /\ Continue(b, IF delayed[b] THEN "sleep" ELSE "closeDevServer")
  /\ UNCHANGED <<othersOfBuild, fileVars, envVars, watchVars, sessionVars, viteDevServer>>

OldBuildSettled(b) ==
  /\ phase[b] = "waitForOldBuild"
  /\ Settled(b - 1)
  /\ Continue(b, IF delayed[b] THEN "sleep" ELSE "closeDevServer")
  /\ UNCHANGED <<othersOfBuild, fileVars, envVars, watchVars, sessionVars, viteDevServer>>

\* Either the cancel listener rejects the sleep or the timer ends it.
BugSleepOnlyTimer(b) ==
  /\ phase[b] = "sleep"
  /\ ~cancelRequested[b]
  /\ GoOn(b, "closeDevServer")
  /\ UNCHANGED <<othersOfBuild, fileVars, envVars, watchVars, sessionVars, viteDevServer>>

SleepEnds(b) ==
  /\ phase[b] = "sleep"
  /\ Continue(b, "closeDevServer")
  /\ UNCHANGED <<othersOfBuild, fileVars, envVars, watchVars, sessionVars, viteDevServer>>

\* The server may not run while everything is rebuilt under it.
CloseDevServer(b) ==
  /\ phase[b] = "closeDevServer"
  /\ viteDevServer' = IF viteDevServer = "open" THEN "closed" ELSE viteDevServer
  /\ Continue(b, "createIndexHtml")
  /\ UNCHANGED <<othersOfBuild, fileVars, envVars, watchVars, sessionVars>>

CreateIndexHtml(b) ==
  /\ phase[b] = "createIndexHtml"
  /\ indexHtml' = b
  /\ Continue(b, "createPluginList")
  /\ UNCHANGED <<othersOfBuild, envVars, watchVars, sessionVars, viteDevServer,
                 npmPlugins, outDir, pluginList, nodeModules, bundledWWWDir>>

\* electrifiedJsonConfig reads and parses the file, and throws if it cannot.
PluginsOf(b) == IF buildOptions[b].plugins THEN config ELSE {}

CreatePluginList(b) ==
  /\ phase[b] = "createPluginList"
  /\ PluginsOf(b) # Broken
  /\ pluginList' = PluginsOf(b)
  /\ GoOn(b, "readNpmPlugins")
  /\ UNCHANGED <<othersOfBuild, envVars, watchVars, sessionVars, viteDevServer,
                 npmPlugins, outDir, indexHtml, nodeModules, bundledWWWDir>>

\* npmInstall reads electrified.json for itself.
ReadNpmPlugins(b) ==
  /\ phase[b] = "readNpmPlugins"
  /\ PluginsOf(b) # Broken
  /\ npmPlugins' = [npmPlugins EXCEPT ![b] = PluginsOf(b)]
  /\ GoOn(b, "npmInstall")
  /\ UNCHANGED <<othersOfBuild, envVars, watchVars, sessionVars, viteDevServer,
                 outDir, indexHtml, pluginList, nodeModules, bundledWWWDir>>

NpmInstall(b) ==
  /\ phase[b] = "npmInstall"
  /\ nodeModules' = npmPlugins[b]
  /\ resetAlone' = FALSE
  /\ npmPlugins' = [npmPlugins EXCEPT ![b] = {}]
  /\ Continue(b, IF buildOptions[b].plugins THEN "checkPlugins" ELSE "typeCheck")
  /\ UNCHANGED <<othersOfBuild, envVars, watchVars, cleanRebuild, sessionCalls,
                 viteDevServer, outDir, indexHtml, pluginList, bundledWWWDir>>

\* checkAndFixPluginPackages opens the package.json of every configured plugin.
Installed(plugins) == nodeModules # Missing /\ plugins \subseteq nodeModules

CheckAndFixPluginPackages(b) ==
  /\ phase[b] = "checkPlugins"
  /\ config # Broken
  /\ Installed(config)
  /\ Continue(b, "typeCheck")
  /\ UNCHANGED <<othersOfBuild, fileVars, envVars, watchVars, sessionVars, viteDevServer>>

\* tsc resolves every import of the plugin list.  After it, a static build saves
\* NODE_ENV and starts vite's build, which sets it to production.
TypeCheck(b) ==
  /\ phase[b] = "typeCheck"
  /\ Installed(pluginList)
  /\ Continue(b, IF buildOptions[b].static THEN "bundleFiles" ELSE "deleteBundledDir")
  /\ IF buildOptions[b].static /\ ~cancelRequested[b]
       THEN /\ origNodeEnv' = [origNodeEnv EXCEPT ![b] = nodeEnv]
            /\ nodeEnv' = "production"
       ELSE UNCHANGED <<origNodeEnv, nodeEnv>>
  /\ UNCHANGED <<othersOfBuild, fileVars, watchVars, sessionVars, viteDevServer,
                 startupNodeEnv, chosenNodeEnv>>

RestoreNodeEnv(b) ==
  /\ nodeEnv' = origNodeEnv[b]
  /\ origNodeEnv' = [origNodeEnv EXCEPT ![b] = startupNodeEnv]

BundleFiles(b) ==
  /\ phase[b] = "bundleFiles"
  /\ Installed(pluginList)
  /\ outDir' = [outDir EXCEPT ![b] = [by |-> indexHtml, list |-> pluginList]]
  /\ RestoreNodeEnv(b)
  /\ GoOn(b, "deleteBundledDir")
  /\ UNCHANGED <<othersOfBuild, watchVars, sessionVars, viteDevServer,
                 startupNodeEnv, chosenNodeEnv,
                 npmPlugins, indexHtml, pluginList, nodeModules, bundledWWWDir>>

\* activateBuildResult: delete the old files, move the new ones, start the server.
DeleteBundledDir(b) ==
  /\ phase[b] = "deleteBundledDir"
  /\ bundledWWWDir' = NoBundle
  /\ GoOn(b, IF buildOptions[b].static THEN "moveBundle" ELSE "restartDevServer")
  /\ UNCHANGED <<othersOfBuild, envVars, watchVars, sessionVars, viteDevServer,
                 npmPlugins, outDir, indexHtml, pluginList, nodeModules>>

BugMoveForgotten(b) ==
  /\ phase[b] = "moveBundle"
  /\ GoOn(b, "restartDevServer")
  /\ UNCHANGED <<othersOfBuild, fileVars, envVars, watchVars, sessionVars, viteDevServer>>

MoveBundle(b) ==
  /\ phase[b] = "moveBundle"
  /\ bundledWWWDir' = outDir[b]
  /\ outDir' = [outDir EXCEPT ![b] = NoBundle]
  /\ GoOn(b, "restartDevServer")
  /\ UNCHANGED <<othersOfBuild, envVars, watchVars, sessionVars, viteDevServer,
                 npmPlugins, indexHtml, pluginList, nodeModules>>

\* The last step of run(), then the last checkCanceled, in PromiseTask.create.
BugNoRestart(b) ==
  /\ phase[b] = "restartDevServer"
  /\ Continue(b, "resolved")
  /\ UNCHANGED <<othersOfBuild, fileVars, envVars, watchVars, sessionVars, viteDevServer>>

RestartDevServer(b) ==
  /\ phase[b] = "restartDevServer"
  /\ viteDevServer' = Restarted
  /\ Continue(b, "resolved")
  /\ UNCHANGED <<othersOfBuild, fileVars, envVars, watchVars, sessionVars>>

\* Any of the steps that reach for files or processes may throw.  An aborted npm
\* install leaves node_modules as it was, complete, or unusable.
BuildThrows(b) ==
  /\ phase[b] \in WorkPhase \ {"sleep", "closeDevServer", "restartDevServer"}
  /\ GoOn(b, "rejected")
  /\ nodeModules' \in IF phase[b] = "npmInstall"
                        THEN {nodeModules, npmPlugins[b], Missing}
                        ELSE {nodeModules}
  /\ npmPlugins' = [npmPlugins EXCEPT ![b] = {}]
  /\ IF phase[b] = "bundleFiles" THEN RestoreNodeEnv(b) ELSE UNCHANGED <<nodeEnv, origNodeEnv>>
  /\ UNCHANGED <<othersOfBuild, watchVars, sessionVars, viteDevServer,
                 startupNodeEnv, chosenNodeEnv,
                 outDir, indexHtml, pluginList, bundledWWWDir>>

Run(b) ==
  \/ OldBuildSettled(b)
  \/ SleepEnds(b)
  \/ CloseDevServer(b)
  \/ CreateIndexHtml(b)
  \/ CreatePluginList(b)
  \/ ReadNpmPlugins(b)
  \/ NpmInstall(b)
  \/ CheckAndFixPluginPackages(b)
  \/ TypeCheck(b)
  \/ BundleFiles(b)
  \/ DeleteBundledDir(b)
  \/ MoveBundle(b)
  \/ RestartDevServer(b)
  \/ BuildThrows(b)

Outside ==
  \/ \E options \in Options : RebuildWebAsync(options)
  \/ PluginFilesChange
  \/ \E c \in Config : WriteConfig(c)
  \/ ConfigWatcherFires
  \/ \E andRebuild \in BOOLEAN : ResetNodeModules(andRebuild)
  \/ RebuildWithoutPlugins
  \/ \E value \in NodeEnv : SetNodeEnv(value)
  \/ CreateDevServer

Next == Outside \/ \E b \in Build : Run(b)

Spec == Init /\ [][Next]_vars

\* The child processes and file operations of a build end, and its timer fires.
Fairness == \A b \in Build : WF_vars(Run(b))

FairSpec == Spec /\ Fairness

-----------------------------------------------------------------------------
(***************************************************************************)
(* Properties.                                                             *)
(***************************************************************************)

\* Every variable stays in its domain.
TypeOK ==
  /\ builtWeb \in Build
  /\ phase \in [Build -> Phase]
  /\ cancelRequested \in [Build -> BOOLEAN]
  /\ buildOptions \in [Build -> Options]
  /\ delayed \in [Build -> BOOLEAN]
  /\ npmPlugins \in [Build -> SUBSET Plugin]
  /\ outDir \in [Build -> Bundle \cup {NoBundle}]
  /\ indexHtml \in Build \cup {0}
  /\ pluginList \in SUBSET Plugin
  /\ nodeModules \in (SUBSET Plugin) \cup {Missing}
  /\ bundledWWWDir \in Bundle \cup {NoBundle}
  /\ viteDevServer \in {"none", "open", "closed"}
  /\ nodeEnv \in NodeEnv
  /\ origNodeEnv \in [Build -> NodeEnv]
  /\ startupNodeEnv \in NodeEnv
  /\ chosenNodeEnv \in NodeEnv
  /\ config \in Config
  /\ lastCfg \in Config
  /\ watchDue \in BOOLEAN
  /\ cleanRebuild \in BOOLEAN
  /\ resetAlone \in BOOLEAN
  /\ configWrites \in 0..MaxConfigWrites
  /\ sessionCalls \in 0..MaxSessionCalls

\* At any time at most one build works on the shared files, however requests,
\* cancellations, failures and delays interleave (server.ts, "to not run builds
\* simultaneously").
BuildsDoNotOverlap ==
  \A a, b \in Build : Working(a) /\ Working(b) => a = b

\* A build whose cancellation was requested ends in a failure, even if the request
\* came after its last own check (PromiseTask.cancel, "resulting in a fail").
CanceledNeverResolves ==
  \A b \in Build : cancelRequested[b] => phase[b] # "resolved"

\* When serveIndexHtml serves the app and no longer the build diagnosis, all it
\* serves comes from the newest build: index.html carries the id of that build,
\* and a static build's bundle is its own, with the plugins of that build.
ServedFilesAreOwn ==
  phase[builtWeb] = "resolved" =>
    /\ indexHtml = builtWeb
    /\ buildOptions[builtWeb].static =>
         bundledWWWDir = [by |-> builtWeb, list |-> pluginList]
    /\ ~buildOptions[builtWeb].plugins => pluginList = {}

\* When the app is served from the sources, the dev server that every build closes
\* has been opened again (or is still to be created by the constructor).
DevServerReopened ==
  phase[builtWeb] = "resolved" => viteDevServer # "closed"

\* The app that is served lists exactly the plugins that electrified.json lists,
\* once the watcher has handled the last change of that file
\* (startListeningForChangedPluginSetup).
ServedPluginsAreConfigured ==
  (phase[builtWeb] = "resolved" /\ buildOptions[builtWeb].plugins /\ ~watchDue)
    => pluginList = config

\* When the newest build has resolved, node_modules has all plugins that it lists, whenever
\* disablePluginsAndRebuildClean deletes the directory: under which build's step, and however
\* many others are requested, canceled or fail before its own.  It may be missing only until
\* that one is requested, and after a lone resetNode_modules, until the next npm install.
NodeModulesAreInstalled ==
  phase[builtWeb] = "resolved" /\ ~Installed(pluginList) => cleanRebuild \/ resetAlone

\* No request is lost and nobody waits for ever on a chain of old builds: every
\* build that was requested settles.
EveryBuildSettles ==
  \A b \in Build : Pending(b) ~> Settled(b)

\* Violated.  A static build resets NODE_ENV to its value at startup "for safety, if the
\* user chosed to no more use the vite-devserver": outside of vite's bundling, which
\* overrides it, it keeps that value until someone chooses another one.
NodeEnvIsResetForStaticBuilds ==
  /\ buildOptions[builtWeb].static
  /\ chosenNodeEnv = startupNodeEnv
  /\ \A b \in Build : phase[b] # "bundleFiles"
  => nodeEnv = startupNodeEnv

\* Violated.  The dev server does not run while a build rebuilds everything under it
\* ("There was strange behaviour seen, whe it was running while everything is rebuilt").
DevServerClosedDuringBuild ==
  \A b \in Build :
    phase[b] \in WorkPhase \ {"sleep", "closeDevServer"} => viteDevServer # "open"

\* WebBuild implements SerialBuilds: what is published is what serveIndexHtml serves.
Serial == INSTANCE SerialBuilds WITH
  requested <- builtWeb,
  active <- {b \in Build : Working(b)},
  finished <- {b \in Build : Settled(b)},
  published <- IF phase[builtWeb] = "resolved" THEN builtWeb ELSE 0

\* Builds are served one at a time, in order, superseded ones are never published,
\* and every request is served in the end.
ImplementsSerialBuilds == Serial!FairSpec
=============================================================================
