-------------------------- MODULE WebBuild_proofs --------------------------
(***************************************************************************)
(* Safety of the web build, for any number of builds, any set of plugins   *)
(* and any number of config writes and session calls.                      *)
(***************************************************************************)
EXTENDS WebBuild, TLAPS

\* The options of a clean rebuild.
LEMMA PluginsOff == \A o \in Options : [o EXCEPT !.plugins = FALSE] \in Options
BY DEF Options

\* Every variable stays in its domain (all of nodejsserver's build state).
THEOREM TypeCorrect == Spec => []TypeOK
<1> USE BoundsAssumption
<1>1. Init => TypeOK
  <2> SUFFICES ASSUME Init PROVE TypeOK
    OBVIOUS
  <2>1. 1 \in Build
    BY DEF Build
  <2>2. [static |-> startupNodeEnv # "development", plugins |-> TRUE] \in Options
    BY DEF Options
  <2>3. buildOptions \in [Build -> Options]
    BY <2>2 DEF Init
  <2>4. phase \in [Build -> Phase]
    BY DEF Init, Phase, WorkPhase
  <2>5. config \in Config
    BY DEF Init, Config
  <2>6. /\ cancelRequested \in [Build -> BOOLEAN]
        /\ delayed \in [Build -> BOOLEAN]
        /\ cleanRebuild \in BOOLEAN
        /\ resetAlone \in BOOLEAN
        /\ watchDue \in BOOLEAN
    BY DEF Init
  <2>7. /\ outDir \in [Build -> Bundle \cup {NoBundle}]
        /\ origNodeEnv \in [Build -> NodeEnv]
        /\ npmPlugins \in [Build -> SUBSET Plugin]
    BY DEF Init
  <2>8. /\ builtWeb \in Build
        /\ indexHtml \in Build \cup {0}
        /\ bundledWWWDir \in Bundle \cup {NoBundle}
        /\ configWrites \in 0..MaxConfigWrites
        /\ sessionCalls \in 0..MaxSessionCalls
    BY <2>1 DEF Init
  <2>9. /\ pluginList \in SUBSET Plugin
        /\ nodeModules \in (SUBSET Plugin) \cup {Missing}
    BY DEF Init
  <2>10. QED
    BY <2>3, <2>4, <2>5, <2>6, <2>7, <2>8, <2>9 DEF Init, TypeOK
<1>2. TypeOK /\ [Next]_vars => TypeOK'
  <2> SUFFICES ASSUME TypeOK, [Next]_vars PROVE TypeOK'
    OBVIOUS
  <2> USE DEF TypeOK, Phase, WorkPhase, SettledPhase, buildVars, fileVars, envVars,
              watchVars, sessionVars, othersOfBuild, Continue, GoOn
  <2>1. ASSUME NEW o \in Options, NEW d \in BOOLEAN, BuildWeb(o, d)
        PROVE  /\ builtWeb' \in Build
               /\ phase' \in [Build -> Phase]
               /\ cancelRequested' \in [Build -> BOOLEAN]
               /\ buildOptions' \in [Build -> Options]
               /\ delayed' \in [Build -> BOOLEAN]
               /\ nodeEnv' \in NodeEnv
               /\ chosenNodeEnv' \in NodeEnv
               /\ UNCHANGED <<origNodeEnv, startupNodeEnv, fileVars, viteDevServer>>
    <3>1. builtWeb + 1 \in Build
      BY <2>1 DEF BuildWeb, Build
    <3>2. cancelRequested' \in [Build -> BOOLEAN]
      BY <2>1 DEF BuildWeb, Cancel
    <3>3. QED
      BY <2>1, <3>1, <3>2 DEF BuildWeb
  <2>2. ASSUME NEW o \in Options, RebuildWebAsync(o) PROVE TypeOK'
    BY <2>1, <2>2 DEF RebuildWebAsync
  <2>3. CASE PluginFilesChange
    <3>1. buildOptions[builtWeb] \in Options
      OBVIOUS
    <3>2. QED BY <2>1, <2>3, <3>1 DEF PluginFilesChange
  <2>4. ASSUME NEW c \in Config, WriteConfig(c) PROVE TypeOK'
    BY <2>4 DEF WriteConfig
  <2>5. CASE ConfigWatcherFires
    <3>1. buildOptions[builtWeb] \in Options
      OBVIOUS
    <3>2. QED BY <2>1, <2>5, <3>1 DEF ConfigWatcherFires
  <2>6. ASSUME NEW r \in BOOLEAN, ResetNodeModules(r) PROVE TypeOK'
    BY <2>6 DEF ResetNodeModules
  <2>7. CASE RebuildWithoutPlugins
    <3> DEFINE o == [buildOptions[builtWeb] EXCEPT !.plugins = FALSE]
    <3>1. o \in Options
      <4>1. buildOptions[builtWeb] \in Options
        OBVIOUS
      <4>2. QED BY <4>1, PluginsOff
    <3>2. /\ BuildWeb(o, FALSE) /\ cleanRebuild' = FALSE
          /\ UNCHANGED <<watchVars, resetAlone, sessionCalls>>
      BY <2>7 DEF RebuildWithoutPlugins
    <3> HIDE DEF o
    <3>3. QED BY <2>1, <3>1, <3>2
  <2>8. ASSUME NEW v \in NodeEnv, SetNodeEnv(v) PROVE TypeOK'
    BY <2>8 DEF SetNodeEnv, Restarted
  <2>9. CASE CreateDevServer
    BY <2>9 DEF CreateDevServer
  <2>10. ASSUME NEW b \in Build, Run(b) PROVE TypeOK'
    <3>1. CASE OldBuildSettled(b)
      BY <3>1 DEF OldBuildSettled
    <3>2. CASE SleepEnds(b)
      BY <3>2 DEF SleepEnds
    <3>3. CASE CloseDevServer(b)
      BY <3>3 DEF CloseDevServer
    <3>4. CASE CreateIndexHtml(b)
      BY <3>4 DEF CreateIndexHtml
    <3>5. CASE CreatePluginList(b)
      <4>1. pluginList' \in SUBSET Plugin
        BY <3>5 DEF CreatePluginList, PluginsOf, Config
      <4>2. QED BY <3>5, <4>1 DEF CreatePluginList
    <3>6. CASE ReadNpmPlugins(b)
      <4>1. PluginsOf(b) \in SUBSET Plugin
        BY <3>6 DEF ReadNpmPlugins, PluginsOf, Config
      <4>2. QED BY <3>6, <4>1 DEF ReadNpmPlugins
    <3>7. CASE NpmInstall(b)
      BY <3>7 DEF NpmInstall
    <3>8. CASE CheckAndFixPluginPackages(b)
      BY <3>8 DEF CheckAndFixPluginPackages
    <3>9. CASE TypeCheck(b)
      BY <3>9 DEF TypeCheck, NodeEnv
    <3>10. CASE BundleFiles(b)
      BY <3>10 DEF BundleFiles, RestoreNodeEnv, Bundle, Build
    <3>11. CASE DeleteBundledDir(b)
      BY <3>11 DEF DeleteBundledDir
    <3>12. CASE MoveBundle(b)
      BY <3>12 DEF MoveBundle
    <3>13. CASE RestartDevServer(b)
      BY <3>13 DEF RestartDevServer, Restarted
    <3>14. CASE BuildThrows(b)
      <4>1. nodeModules' \in (SUBSET Plugin) \cup {Missing}
        BY <3>14 DEF BuildThrows
      <4>2. nodeEnv' \in NodeEnv /\ origNodeEnv' \in [Build -> NodeEnv]
        BY <3>14 DEF BuildThrows, RestoreNodeEnv
      <4>3. phase' \in [Build -> Phase]
        BY <3>14 DEF BuildThrows
      <4>4. npmPlugins' \in [Build -> SUBSET Plugin]
        BY <3>14 DEF BuildThrows
      <4>5. QED
        BY <3>14, <4>1, <4>2, <4>3, <4>4 DEF BuildThrows
    <3>15. QED
      BY <2>10, <3>1, <3>2, <3>3, <3>4, <3>5, <3>6, <3>7, <3>8, <3>9, <3>10, <3>11,
         <3>12, <3>13, <3>14 DEF Run
  <2>11. CASE UNCHANGED vars
    BY <2>11 DEF vars
  <2>12. QED
    BY <2>2, <2>3, <2>4, <2>5, <2>6, <2>7, <2>8, <2>9, <2>10, <2>11 DEF Next, Outside
<1>3. QED
  BY <1>1, <1>2, PTL DEF Spec

-----------------------------------------------------------------------------
(***************************************************************************)
(* The inductive invariant.                                                *)
(***************************************************************************)

\* Builds up to builtWeb exist.  Build b leaves its wait only when every older
\* build has settled: that is more than "its old build has settled", because that
\* one may itself have been canceled while waiting.
InOrder ==
  /\ \A b \in Build : phase[b] = "none" <=> b > builtWeb
  /\ \A a, b \in Build :
       a < b /\ (Working(b) \/ Settled(b)) => Settled(a)

\* Only superseded builds are canceled, and every superseded one that is pending is.
Superseded ==
  /\ \A b \in Build : cancelRequested[b] => b < builtWeb
  /\ \A b \in Build : b < builtWeb /\ Pending(b) => cancelRequested[b]
  /\ CanceledNeverResolves

\* The phases after a build has written index.html, and after its plugin list.
AfterIndexHtml ==
  {"createPluginList", "readNpmPlugins", "npmInstall", "checkPlugins", "typeCheck",
   "bundleFiles", "deleteBundledDir", "moveBundle", "restartDevServer", "resolved"}
AfterPluginList == AfterIndexHtml \ {"createPluginList"}

\* What the newest build has written so far, and nobody has overwritten since.
OwnFiles ==
  LET b == builtWeb IN
  /\ phase[b] \in AfterIndexHtml => indexHtml = b
  /\ phase[b] \in AfterPluginList /\ ~buildOptions[b].plugins => pluginList = {}
  /\ phase[b] \in {"bundleFiles", "moveBundle"} => buildOptions[b].static
  /\ phase[b] \in {"deleteBundledDir", "moveBundle"} /\ buildOptions[b].static =>
       outDir[b] = [by |-> b, list |-> pluginList]
  /\ phase[b] \in {"restartDevServer", "resolved"} /\ buildOptions[b].static =>
       bundledWWWDir = [by |-> b, list |-> pluginList]

\* The watcher has seen the configuration, or has a difference to find.
WatcherKnows ==
  /\ ~watchDue => config = lastCfg
  /\ watchDue /\ ~AllowRevert => config # lastCfg

\* What the newest build lists has been installed before it passes the type check, or
\* somebody has deleted it.
AfterTypeCheck ==
  {"bundleFiles", "deleteBundledDir", "moveBundle", "restartDevServer", "resolved"}

ModulesKnown ==
  phase[builtWeb] \in AfterTypeCheck => Installed(pluginList) \/ cleanRebuild \/ resetAlone

\* The newest build lists what is configured, or the watcher is about to rebuild.
ListKnown ==
  (phase[builtWeb] \in AfterPluginList /\ buildOptions[builtWeb].plugins /\ ~watchDue)
    => pluginList = config

-----------------------------------------------------------------------------
(***************************************************************************)
(* What the steps do to the order of the builds.                           *)
(***************************************************************************)

\* What happens outside of a build touches no file that a build writes, except
\* node_modules; it may only request a new build.
LEMMA OutsideSteps ==
  ASSUME TypeOK, Outside
  PROVE  /\ UNCHANGED <<indexHtml, pluginList, outDir, bundledWWWDir>>
         /\ viteDevServer' = "closed" => viteDevServer = "closed"
         /\ \/ UNCHANGED <<builtWeb, phase, cancelRequested, buildOptions>>
            \/ /\ builtWeb < MaxBuilds
               /\ builtWeb' = builtWeb + 1
               /\ phase' = [phase EXCEPT ![builtWeb + 1] = "waitForOldBuild"]
               /\ cancelRequested' = IF Pending(builtWeb)
                                       THEN [cancelRequested EXCEPT ![builtWeb] = TRUE]
                                       ELSE cancelRequested
<1> USE DEF buildVars, fileVars
<1>1. ASSUME NEW o, NEW d, BuildWeb(o, d)
      PROVE  /\ UNCHANGED <<indexHtml, pluginList, outDir, bundledWWWDir, viteDevServer>>
             /\ builtWeb < MaxBuilds
             /\ builtWeb' = builtWeb + 1
             /\ phase' = [phase EXCEPT ![builtWeb + 1] = "waitForOldBuild"]
             /\ cancelRequested' = IF Pending(builtWeb)
                                     THEN [cancelRequested EXCEPT ![builtWeb] = TRUE]
                                     ELSE cancelRequested
  BY <1>1 DEF BuildWeb, Cancel
<1>2. ASSUME NEW o, RebuildWebAsync(o) PROVE BuildWeb(o, FALSE)
  BY <1>2 DEF RebuildWebAsync
<1>3. CASE PluginFilesChange
  BY <1>1, <1>3 DEF PluginFilesChange
<1>4. ASSUME NEW c, WriteConfig(c)
      PROVE  UNCHANGED <<buildVars, fileVars, viteDevServer>>
  BY <1>4 DEF WriteConfig
<1>5. CASE ConfigWatcherFires
  BY <1>1, <1>5 DEF ConfigWatcherFires
<1>6. ASSUME NEW r, ResetNodeModules(r)
      PROVE  UNCHANGED <<buildVars, indexHtml, pluginList, outDir, bundledWWWDir, viteDevServer>>
  BY <1>6 DEF ResetNodeModules
<1>7. CASE RebuildWithoutPlugins
  BY <1>1, <1>7 DEF RebuildWithoutPlugins
<1>8. ASSUME NEW v, SetNodeEnv(v)
      PROVE  /\ UNCHANGED <<buildVars, fileVars>>
             /\ viteDevServer' = "closed" => viteDevServer = "closed"
  BY <1>8 DEF SetNodeEnv, Restarted
<1>9. CASE CreateDevServer
  BY <1>9 DEF CreateDevServer
<1>10. QED
  BY <1>1, <1>2, <1>3, <1>4, <1>5, <1>6, <1>7, <1>8, <1>9 DEF Outside

\* A step of build b takes b from one pending phase to a later one or to its end;
\* out of its wait only after its old build, and to success only if not canceled.
LEMMA RunSteps ==
  ASSUME TypeOK, NEW b \in Build, Run(b)
  PROVE  /\ Pending(b)
         /\ UNCHANGED <<builtWeb, cancelRequested, buildOptions>>
         /\ phase[b] = "waitForOldBuild" => Settled(b - 1)
         /\ \E q \in WorkPhase \cup SettledPhase :
              /\ phase' = [phase EXCEPT ![b] = q]
              /\ q = "resolved" => ~cancelRequested[b]
              /\ phase[b] = "waitForOldBuild" /\ q \in SettledPhase =>
                   q = "rejected" /\ cancelRequested[b]
<1> DEFINE Moves == \E q \in WorkPhase \cup SettledPhase :
                      /\ phase' = [phase EXCEPT ![b] = q]
                      /\ q = "resolved" => ~cancelRequested[b]
                      /\ phase[b] = "waitForOldBuild" /\ q \in SettledPhase =>
                           q = "rejected" /\ cancelRequested[b]
<1>c. ASSUME NEW n \in WorkPhase \cup SettledPhase, Continue(b, n),
             phase[b] = "waitForOldBuild" => n \in WorkPhase
      PROVE  Moves
  <2>1. CASE cancelRequested[b]
    <3>1. phase' = [phase EXCEPT ![b] = "rejected"]
      BY <1>c, <2>1 DEF Continue
    <3>2. "rejected" \in WorkPhase \cup SettledPhase /\ "rejected" # "resolved"
      BY DEF SettledPhase
    <3>3. QED BY <2>1, <3>1, <3>2, Zenon
  <2>2. CASE ~cancelRequested[b]
    <3>1. phase' = [phase EXCEPT ![b] = n]
      BY <1>c, <2>2 DEF Continue
    <3>2. phase[b] = "waitForOldBuild" => n \notin SettledPhase
      BY <1>c DEF WorkPhase, SettledPhase
    <3>3. QED BY <3>1, <3>2, <2>2, Zenon
  <2>3. QED BY <2>1, <2>2
<1>g. ASSUME NEW n \in (WorkPhase \cup SettledPhase) \ {"resolved"}, GoOn(b, n),
             phase[b] # "waitForOldBuild"
      PROVE  Moves
  BY <1>g, Zenon DEF GoOn
<1> HIDE DEF Moves
<1> SUFFICES /\ Pending(b)
             /\ UNCHANGED <<builtWeb, cancelRequested, buildOptions>>
             /\ phase[b] = "waitForOldBuild" => Settled(b - 1)
             /\ Moves
  BY DEF Moves
<1> USE DEF Pending, WorkPhase, SettledPhase, othersOfBuild
<1>1. CASE OldBuildSettled(b)
  BY <1>c, <1>1 DEF OldBuildSettled
<1>2. CASE SleepEnds(b)
  BY <1>c, <1>2 DEF SleepEnds
<1>3. CASE CloseDevServer(b)
  BY <1>c, <1>3 DEF CloseDevServer
<1>4. CASE CreateIndexHtml(b)
  BY <1>c, <1>4 DEF CreateIndexHtml
<1>5. CASE CreatePluginList(b)
  BY <1>g, <1>5 DEF CreatePluginList
<1>6. CASE ReadNpmPlugins(b)
  BY <1>g, <1>6 DEF ReadNpmPlugins
<1>7. CASE NpmInstall(b)
  BY <1>c, <1>7 DEF NpmInstall
<1>8. CASE CheckAndFixPluginPackages(b)
  BY <1>c, <1>8 DEF CheckAndFixPluginPackages
<1>9. CASE TypeCheck(b)
  BY <1>c, <1>9 DEF TypeCheck
<1>10. CASE BundleFiles(b)
  BY <1>g, <1>10 DEF BundleFiles
<1>11. CASE DeleteBundledDir(b)
  BY <1>g, <1>11 DEF DeleteBundledDir
<1>12. CASE MoveBundle(b)
  BY <1>g, <1>12 DEF MoveBundle
<1>13. CASE RestartDevServer(b)
  BY <1>c, <1>13 DEF RestartDevServer
<1>14. CASE BuildThrows(b)
  BY <1>g, <1>14 DEF BuildThrows
<1>15. QED
  BY <1>1, <1>2, <1>3, <1>4, <1>5, <1>6, <1>7, <1>8, <1>9, <1>10, <1>11, <1>12, <1>13,
     <1>14 DEF Run

\* A new build joins the end of the queue, and the others keep their order.
LEMMA OrderStep ==
  ASSUME TypeOK, InOrder, Superseded, [Next]_vars
  PROVE  InOrder' /\ Superseded'
<1> USE BoundsAssumption
<1> USE DEF InOrder, Superseded, CanceledNeverResolves, Pending, Working, Settled
<1>1. CASE UNCHANGED <<builtWeb, phase, cancelRequested, buildOptions>>
  BY <1>1
<1>2. CASE /\ builtWeb < MaxBuilds
           /\ builtWeb' = builtWeb + 1
           /\ phase' = [phase EXCEPT ![builtWeb + 1] = "waitForOldBuild"]
           /\ cancelRequested' = IF Pending(builtWeb)
                                   THEN [cancelRequested EXCEPT ![builtWeb] = TRUE]
                                   ELSE cancelRequested
  <2>1. builtWeb + 1 \in Build /\ phase[builtWeb + 1] = "none"
    BY <1>2 DEF TypeOK, Build
  <2>2. \A b \in Build : b # builtWeb + 1 => phase'[b] = phase[b]
    BY <1>2 DEF TypeOK
  <2>3. phase'[builtWeb + 1] = "waitForOldBuild"
    BY <1>2, <2>1 DEF TypeOK
  <2>4. InOrder'
    BY <1>2, <2>1, <2>2, <2>3 DEF Build, TypeOK, WorkPhase, SettledPhase
  <2>5. \A b \in Build : cancelRequested'[b] <=> cancelRequested[b] \/ (b = builtWeb /\ Pending(b))
    BY <1>2 DEF TypeOK
  <2>6. Superseded'
    BY <1>2, <2>1, <2>2, <2>3, <2>5 DEF Build, TypeOK, WorkPhase, SettledPhase
  <2>7. QED BY <2>4, <2>6
<1>3. ASSUME NEW b \in Build, Run(b) PROVE InOrder' /\ Superseded'
  <2>1. Pending(b) /\ UNCHANGED <<builtWeb, cancelRequested>>
    BY <1>3, RunSteps
  <2>2. PICK q \in WorkPhase \cup SettledPhase :
          /\ phase' = [phase EXCEPT ![b] = q]
          /\ q = "resolved" => ~cancelRequested[b]
    BY <1>3, RunSteps
  <2>3. \A a \in Build : a < b => Settled(a)
    <3>1. CASE phase[b] = "waitForOldBuild"
      <4>1. Settled(b - 1)
        BY <1>3, <3>1, RunSteps
      <4>2. ASSUME NEW a \in Build, a < b PROVE Settled(a)
        <5>1. b - 1 \in Build /\ (a = b - 1 \/ a < b - 1)
          BY <4>2 DEF Build
        <5>2. QED BY <4>1, <5>1
      <4>3. QED BY <4>2
    <3>2. CASE Working(b)
      BY <3>2
    <3>3. QED BY <2>1, <3>1, <3>2
  <2>4. \A a \in Build : a # b => phase'[a] = phase[a]
    BY <2>2 DEF TypeOK
  <2>5. phase'[b] = q
    BY <2>2 DEF TypeOK
  <2>6. InOrder'
    BY <2>1, <2>3, <2>4, <2>5 DEF TypeOK, Build, WorkPhase, SettledPhase
  <2>7. Superseded'
    BY <2>1, <2>2, <2>4, <2>5 DEF TypeOK, Build, WorkPhase, SettledPhase
  <2>8. QED BY <2>6, <2>7
<1>4. CASE Outside
  BY <1>1, <1>2, <1>4, OutsideSteps
<1>5. CASE UNCHANGED vars
  BY <1>1, <1>5 DEF vars, buildVars
<1>6. QED
  BY <1>3, <1>4, <1>5 DEF Next

\* The queue of builds is in order, and the superseded ones are asked to stop
\* (server.ts, buildWeb).
LEMMA OrderInvariant == Spec => [](InOrder /\ Superseded)
<1>1. Init => InOrder /\ Superseded
  BY BoundsAssumption DEF Init, InOrder, Superseded, CanceledNeverResolves, Build, Pending,
     Working, Settled, WorkPhase, SettledPhase
<1>2. TypeOK /\ InOrder /\ Superseded /\ [Next]_vars => InOrder' /\ Superseded'
  BY OrderStep
<1>3. QED
  BY <1>1, <1>2, TypeCorrect, PTL DEF Spec

\* However many builds are requested, canceled and delayed: at most one at a time is
\* past its wait for its predecessor (WebBuildAndDeploy.run).
THEOREM BuildsNeverOverlap == Spec => []BuildsDoNotOverlap
<1>1. InOrder => BuildsDoNotOverlap
  BY DEF InOrder, BuildsDoNotOverlap, Build, Working, Settled, WorkPhase, SettledPhase
<1>2. QED
  BY <1>1, OrderInvariant, PTL

\* A build that was asked to cancel never resolves (PromiseTask.cancel).
THEOREM CanceledFails == Spec => []CanceledNeverResolves
<1>1. Superseded => CanceledNeverResolves
  BY DEF Superseded
<1>2. QED
  BY <1>1, OrderInvariant, PTL

-----------------------------------------------------------------------------
(***************************************************************************)
(* What is served belongs to the newest build.                             *)
(***************************************************************************)

\* When the newest build is past its wait, no other build takes a step.
LEMMA OnlyNewestRuns ==
  ASSUME TypeOK, InOrder, NEW b \in Build, Run(b),
         Working(builtWeb) \/ Settled(builtWeb)
  PROVE  b = builtWeb /\ Working(b)
<1>1. Pending(b)
  BY RunSteps
<1>2. ~(b > builtWeb)
  BY <1>1 DEF InOrder, Pending, WorkPhase
<1>3. ~(b < builtWeb)
  BY <1>1 DEF InOrder, Pending, Settled, WorkPhase, SettledPhase, TypeOK
<1>4. b = builtWeb
  BY <1>2, <1>3 DEF TypeOK, Build
<1>5. QED
  BY <1>1, <1>4 DEF Pending, Working, Settled, WorkPhase, SettledPhase

\* What the newest build writes stays as it has written it, and the dev server it
\* closes is open again when it resolves.
LEMMA FilesStep ==
  ASSUME TypeOK, InOrder, OwnFiles, DevServerReopened, [Next]_vars
  PROVE  OwnFiles' /\ DevServerReopened'
<1> USE DEF OwnFiles, DevServerReopened, AfterIndexHtml, AfterPluginList, WorkPhase,
            SettledPhase
<1>1. CASE UNCHANGED <<builtWeb, phase, buildOptions, indexHtml, pluginList, outDir,
                       bundledWWWDir>> /\ (viteDevServer' = "closed" => viteDevServer = "closed")
  BY <1>1
<1>2. ASSUME builtWeb' \in Build,
             phase'[builtWeb'] \in {"waitForOldBuild", "sleep", "closeDevServer", "rejected"}
      PROVE  OwnFiles' /\ DevServerReopened'
  BY <1>2
<1>3. CASE Outside
  <2>1. CASE /\ builtWeb < MaxBuilds
             /\ builtWeb' = builtWeb + 1
             /\ phase' = [phase EXCEPT ![builtWeb + 1] = "waitForOldBuild"]
    <3>1. builtWeb' \in Build /\ phase'[builtWeb'] = "waitForOldBuild"
      BY <2>1, BoundsAssumption DEF TypeOK, Build
    <3>2. QED BY <1>2, <3>1
  <2>2. QED BY <1>1, <1>3, <2>1, OutsideSteps
<1>4. ASSUME NEW b \in Build, Run(b) PROVE OwnFiles' /\ DevServerReopened'
  <2>1. UNCHANGED <<builtWeb, buildOptions>> /\ builtWeb \in Build
    BY <1>4, RunSteps DEF TypeOK
  <2>2. CASE ~(Working(builtWeb) \/ Settled(builtWeb))
    <3>1. phase[builtWeb] = "waitForOldBuild"
      BY <2>1, <2>2 DEF InOrder, TypeOK, Build, Phase, Working, Settled
    <3>2. CASE b # builtWeb
      <4>1. phase'[builtWeb] = phase[builtWeb]
        BY <1>4, <2>1, <3>2, RunSteps DEF TypeOK
      <4>2. QED BY <1>2, <2>1, <3>1, <4>1
    <3>3. CASE b = builtWeb
      <4>1. OldBuildSettled(b)
        BY <1>4, <3>1, <3>3 DEF Run, SleepEnds, CloseDevServer, CreateIndexHtml,
           CreatePluginList, ReadNpmPlugins, NpmInstall, CheckAndFixPluginPackages,
           TypeCheck, BundleFiles, DeleteBundledDir, MoveBundle, RestartDevServer,
           BuildThrows
      <4>2. phase'[b] \in {"sleep", "closeDevServer", "rejected"}
        BY <4>1 DEF OldBuildSettled, Continue, TypeOK
      <4>3. QED BY <1>2, <2>1, <3>3, <4>2
    <3>4. QED BY <3>2, <3>3
  <2>3. CASE Working(builtWeb) \/ Settled(builtWeb)
    <3>1. b = builtWeb /\ Working(b)
      BY <1>4, <2>3, OnlyNewestRuns
    <3> USE <2>1, <3>1 DEF Continue, GoOn, TypeOK, Working
    <3>2. CASE SleepEnds(b) \/ CloseDevServer(b)
      <4>1. phase'[b] \in {"closeDevServer", "createIndexHtml", "rejected"}
        BY <3>2 DEF SleepEnds, CloseDevServer
      <4>2. QED BY <1>2, <4>1
    <3>3. CASE CreateIndexHtml(b)
      BY <3>3 DEF CreateIndexHtml
    <3>4. CASE CreatePluginList(b)
      BY <3>4 DEF CreatePluginList, PluginsOf
    <3>5. CASE ReadNpmPlugins(b)
      BY <3>5 DEF ReadNpmPlugins
    <3>6. CASE NpmInstall(b)
      BY <3>6 DEF NpmInstall
    <3>7. CASE CheckAndFixPluginPackages(b)
      BY <3>7 DEF CheckAndFixPluginPackages, fileVars
    <3>8. CASE TypeCheck(b)
      BY <3>8 DEF TypeCheck, fileVars
    <3>9. CASE BundleFiles(b)
      BY <3>9 DEF BundleFiles
    <3>10. CASE DeleteBundledDir(b)
      BY <3>10 DEF DeleteBundledDir
    <3>11. CASE MoveBundle(b)
      BY <3>11 DEF MoveBundle
    <3>12. CASE RestartDevServer(b)
      BY <3>12 DEF RestartDevServer, Restarted, fileVars
    <3>13. CASE BuildThrows(b)
      <4>1. phase'[b] = "rejected"
        BY <3>13 DEF BuildThrows
      <4>2. QED BY <1>2, <4>1
    <3>14. CASE OldBuildSettled(b)
      BY <3>14 DEF OldBuildSettled
    <3>15. QED
      BY <1>4, <3>2, <3>3, <3>4, <3>5, <3>6, <3>7, <3>8, <3>9, <3>10, <3>11, <3>12,
         <3>13, <3>14 DEF Run
  <2>4. QED BY <2>2, <2>3
<1>5. CASE UNCHANGED vars
  BY <1>1, <1>5 DEF vars, buildVars, fileVars
<1>6. QED
  BY <1>3, <1>4, <1>5 DEF Next

\* Both hold in every reachable state.
LEMMA FilesInvariant == Spec => [](OwnFiles /\ DevServerReopened)
<1>1. Init => OwnFiles /\ DevServerReopened
  BY BoundsAssumption DEF Init, OwnFiles, DevServerReopened, AfterIndexHtml, AfterPluginList,
     Build
<1>2. TypeOK /\ InOrder /\ OwnFiles /\ DevServerReopened /\ [Next]_vars
        => OwnFiles' /\ DevServerReopened'
  BY FilesStep
<1>3. QED
  BY <1>1, <1>2, TypeCorrect, OrderInvariant, PTL DEF Spec

\* Whatever older builds were doing when they were superseded: once the newest build
\* has resolved, index.html, the plugin list and the bundle that are served are its own
\* (serveIndexHtml and activateBuildResult).
THEOREM ServesOwnFiles == Spec => []ServedFilesAreOwn
<1>1. OwnFiles => ServedFilesAreOwn
  BY DEF OwnFiles, ServedFilesAreOwn, AfterIndexHtml, AfterPluginList
<1>2. QED
  BY <1>1, FilesInvariant, PTL

\* A resolved newest build never leaves the dev server closed (activateBuildResult).
THEOREM ReopensDevServer == Spec => []DevServerReopened
BY FilesInvariant, PTL

-----------------------------------------------------------------------------
(***************************************************************************)
(* The watcher of electrified.json.                                        *)
(***************************************************************************)

\* No step lets the plugin list and electrified.json differ without a pending look of
\* the watcher, if the file never returns to what the watcher knows in the meantime.
LEMMA WatcherStep ==
  ASSUME ~AllowRevert, TypeOK, InOrder, WatcherKnows, ListKnown, [Next]_vars
  PROVE  WatcherKnows' /\ ListKnown'
<1> USE DEF WatcherKnows, ListKnown, AfterPluginList, AfterIndexHtml
<1>1. CASE UNCHANGED <<builtWeb, phase, buildOptions, pluginList, watchVars>>
  BY <1>1 DEF watchVars
<1>2. ASSUME NEW o, NEW d, BuildWeb(o, d)
      PROVE  ListKnown'
  <2>1. builtWeb' \in Build /\ phase'[builtWeb'] = "waitForOldBuild"
    BY <1>2, BoundsAssumption DEF BuildWeb, TypeOK, Build
  <2>2. QED BY <2>1
<1>3. ASSUME NEW o, RebuildWebAsync(o) PROVE WatcherKnows' /\ ListKnown'
  BY <1>2, <1>3 DEF RebuildWebAsync, watchVars
<1>4. CASE PluginFilesChange
  BY <1>2, <1>4 DEF PluginFilesChange, watchVars
<1>5. ASSUME NEW c \in Config, WriteConfig(c) PROVE WatcherKnows' /\ ListKnown'
  BY <1>5 DEF WriteConfig
<1>6. CASE ConfigWatcherFires
  <2>1. config # lastCfg
    BY <1>6 DEF ConfigWatcherFires
  <2>2. BuildWeb(buildOptions[builtWeb], TRUE) /\ ~watchDue' /\ lastCfg' = config /\ config' = config
    BY <1>6, <2>1 DEF ConfigWatcherFires
  <2>3. QED BY <1>2, <2>2
<1>7. ASSUME NEW r \in BOOLEAN, ResetNodeModules(r) PROVE WatcherKnows' /\ ListKnown'
  BY <1>1, <1>7 DEF ResetNodeModules, buildVars
<1>8. CASE RebuildWithoutPlugins
  BY <1>2, <1>8 DEF RebuildWithoutPlugins, watchVars
<1>9. ASSUME NEW v \in NodeEnv, SetNodeEnv(v) PROVE WatcherKnows' /\ ListKnown'
  BY <1>1, <1>9 DEF SetNodeEnv, buildVars, fileVars
<1>10. CASE CreateDevServer
  BY <1>1, <1>10 DEF CreateDevServer, buildVars, fileVars
<1>11. ASSUME NEW b \in Build, Run(b) PROVE WatcherKnows' /\ ListKnown'
  <2>1. UNCHANGED <<builtWeb, buildOptions>> /\ builtWeb \in Build
    BY <1>11, RunSteps DEF TypeOK
  <2>2. UNCHANGED watchVars
    BY <1>11 DEF Run, OldBuildSettled, SleepEnds, CloseDevServer, CreateIndexHtml,
       CreatePluginList, ReadNpmPlugins, NpmInstall, CheckAndFixPluginPackages, TypeCheck,
       BundleFiles, DeleteBundledDir, MoveBundle, RestartDevServer, BuildThrows
  <2>3. WatcherKnows'
    BY <2>2 DEF watchVars
  <2>4. CASE CreatePluginList(b)
    <3>1. phase[b] = "createPluginList"
      BY <2>4 DEF CreatePluginList
    <3>2. CASE b = builtWeb
      BY <2>1, <2>2, <2>4, <3>2 DEF CreatePluginList, PluginsOf, watchVars
    <3>3. CASE b # builtWeb
      <4>1. ~(Working(builtWeb) \/ Settled(builtWeb))
        BY <1>11, <3>3, OnlyNewestRuns
      <4>2. phase'[builtWeb] = phase[builtWeb]
        BY <2>1, <2>4, <3>3 DEF CreatePluginList, GoOn, TypeOK
      <4>3. phase'[builtWeb] \notin AfterPluginList
        BY <4>1, <4>2 DEF Working, Settled, WorkPhase, SettledPhase
      <4>4. QED BY <2>1, <2>3, <4>3
    <3>4. QED BY <3>2, <3>3
  <2>5. CASE ~CreatePluginList(b)
    <3>1. pluginList' = pluginList
      BY <1>11, <2>5 DEF Run, OldBuildSettled, SleepEnds, CloseDevServer, CreateIndexHtml,
         ReadNpmPlugins, NpmInstall, CheckAndFixPluginPackages, TypeCheck, BundleFiles,
         DeleteBundledDir, MoveBundle, RestartDevServer, BuildThrows, fileVars
    <3>2. phase'[builtWeb] \in AfterPluginList => phase[builtWeb] \in AfterPluginList
      <4>1. CASE b # builtWeb
        BY <1>11, <2>1, <4>1, RunSteps DEF TypeOK
      <4>2. CASE b = builtWeb
        BY <1>11, <2>1, <2>5, <4>2 DEF Run, OldBuildSettled, SleepEnds, CloseDevServer,
           CreateIndexHtml, ReadNpmPlugins, NpmInstall, CheckAndFixPluginPackages, TypeCheck,
           BundleFiles, DeleteBundledDir, MoveBundle, RestartDevServer, BuildThrows,
           Continue, GoOn, TypeOK, WorkPhase
      <4>3. QED BY <4>1, <4>2
    <3>3. QED BY <2>1, <2>2, <2>3, <3>1, <3>2 DEF watchVars
  <2>6. QED BY <2>4, <2>5
<1>12. CASE UNCHANGED vars
  BY <1>1, <1>12 DEF vars, buildVars, fileVars
<1>13. QED
  BY <1>3, <1>4, <1>5, <1>6, <1>7, <1>8, <1>9, <1>10, <1>11, <1>12 DEF Next, Outside

\* If electrified.json does not return to its old content within the 100 ms in which the
\* watcher waits, the served app lists exactly what that file lists
\* (startListeningForChangedPluginSetup).
THEOREM ServesConfiguredPlugins ==
  ASSUME ~AllowRevert
  PROVE  Spec => []ServedPluginsAreConfigured
<1>1. Init => WatcherKnows /\ ListKnown
  BY BoundsAssumption DEF Init, WatcherKnows, ListKnown, AfterPluginList, AfterIndexHtml, Build
<1>2. TypeOK /\ InOrder /\ WatcherKnows /\ ListKnown /\ [Next]_vars
        => WatcherKnows' /\ ListKnown'
  BY WatcherStep
<1>3. ListKnown => ServedPluginsAreConfigured
  BY DEF ListKnown, ServedPluginsAreConfigured, AfterPluginList, AfterIndexHtml
<1>4. QED
  BY <1>1, <1>2, <1>3, TypeCorrect, OrderInvariant, PTL DEF Spec

-----------------------------------------------------------------------------
(***************************************************************************)
(* The deletion of node_modules under a build.                             *)
(***************************************************************************)

\* No step uninstalls what the newest build has been checked with, except those that say so.
LEMMA ModulesStep ==
  ASSUME TypeOK, InOrder, ModulesKnown, [Next]_vars
  PROVE  ModulesKnown'
<1> USE DEF ModulesKnown, AfterTypeCheck, Installed
<1>1. CASE UNCHANGED <<builtWeb, phase, pluginList, nodeModules, cleanRebuild, resetAlone>>
  BY <1>1
<1>2. ASSUME NEW o, NEW d, BuildWeb(o, d) PROVE ModulesKnown'
  <2>1. builtWeb' \in Build /\ phase'[builtWeb'] = "waitForOldBuild"
    BY <1>2, BoundsAssumption DEF BuildWeb, TypeOK, Build
  <2>2. QED BY <2>1
<1>3. ASSUME NEW b \in Build, Run(b) PROVE ModulesKnown'
  <2>1. UNCHANGED builtWeb /\ builtWeb \in Build
    BY <1>3, RunSteps DEF TypeOK
  <2>2. CASE ~(Working(builtWeb) \/ Settled(builtWeb))
    <3>1. phase[builtWeb] = "waitForOldBuild"
      BY <2>1, <2>2 DEF InOrder, TypeOK, Build, Phase, Working, Settled
    <3>2. CASE b # builtWeb
      BY <1>3, <2>1, <3>1, <3>2, RunSteps DEF TypeOK
    <3>3. CASE b = builtWeb
      <4>1. OldBuildSettled(b)
        BY <1>3, <3>1, <3>3 DEF Run, SleepEnds, CloseDevServer, CreateIndexHtml,
           CreatePluginList, ReadNpmPlugins, NpmInstall, CheckAndFixPluginPackages,
           TypeCheck, BundleFiles, DeleteBundledDir, MoveBundle, RestartDevServer,
           BuildThrows, WorkPhase
      <4>2. phase'[b] \in {"sleep", "closeDevServer", "rejected"}
        BY <4>1 DEF OldBuildSettled, Continue, TypeOK
      <4>3. QED BY <2>1, <3>3, <4>2
    <3>4. QED BY <3>2, <3>3
  <2>3. CASE Working(builtWeb) \/ Settled(builtWeb)
    <3>1. b = builtWeb /\ Working(b)
      BY <1>3, <2>3, OnlyNewestRuns
    <3> USE <2>1, <3>1 DEF Continue, GoOn, TypeOK
    <3>2. CASE TypeCheck(b)
      BY <3>2 DEF TypeCheck, fileVars, sessionVars
    <3>3. ASSUME phase'[b] \in AfterTypeCheck, ~TypeCheck(b)
          PROVE  /\ phase[b] \in AfterTypeCheck
                 /\ UNCHANGED <<pluginList, nodeModules, sessionVars>>
      BY <1>3, <3>3 DEF Run, OldBuildSettled, SleepEnds, CloseDevServer, CreateIndexHtml,
         CreatePluginList, ReadNpmPlugins, NpmInstall, CheckAndFixPluginPackages,
         BundleFiles, DeleteBundledDir, MoveBundle, RestartDevServer, BuildThrows, fileVars
    <3>4. QED BY <3>2, <3>3 DEF sessionVars
  <2>4. QED BY <2>2, <2>3
<1>4. CASE Outside
  <2> USE DEF buildVars, fileVars, sessionVars
  <2>1. ASSUME NEW o, RebuildWebAsync(o) PROVE ModulesKnown'
    BY <1>2, <2>1 DEF RebuildWebAsync
  <2>2. CASE PluginFilesChange
    BY <1>2, <2>2 DEF PluginFilesChange
  <2>3. ASSUME NEW c, WriteConfig(c) PROVE ModulesKnown'
    BY <1>1, <2>3 DEF WriteConfig
  <2>4. CASE ConfigWatcherFires
    BY <1>1, <1>2, <2>4 DEF ConfigWatcherFires
  <2>5. ASSUME NEW r \in BOOLEAN, ResetNodeModules(r) PROVE ModulesKnown'
    BY <2>5 DEF ResetNodeModules
  <2>6. CASE RebuildWithoutPlugins
    BY <1>2, <2>6 DEF RebuildWithoutPlugins
  <2>7. ASSUME NEW v, SetNodeEnv(v) PROVE ModulesKnown'
    BY <1>1, <2>7 DEF SetNodeEnv
  <2>8. CASE CreateDevServer
    BY <1>1, <2>8 DEF CreateDevServer
  <2>9. QED
    BY <1>4, <2>1, <2>2, <2>3, <2>4, <2>5, <2>6, <2>7, <2>8 DEF Outside
<1>5. CASE UNCHANGED vars
  BY <1>1, <1>5 DEF vars, buildVars, fileVars, sessionVars
<1>6. QED
  BY <1>3, <1>4, <1>5 DEF Next

\* A newest build that has resolved has all plugins that it lists, under whatever step of
\* whatever build node_modules was deleted for a clean rebuild
\* (disablePluginsAndRebuildClean).
THEOREM InstallsNodeModules == Spec => []NodeModulesAreInstalled
<1>1. Init => ModulesKnown
  BY BoundsAssumption DEF Init, ModulesKnown, AfterTypeCheck, Build
<1>2. TypeOK /\ InOrder /\ ModulesKnown /\ [Next]_vars => ModulesKnown'
  BY ModulesStep
<1>3. ModulesKnown => NodeModulesAreInstalled
  BY DEF ModulesKnown, NodeModulesAreInstalled, AfterTypeCheck
<1>4. QED
  BY <1>1, <1>2, <1>3, TypeCorrect, OrderInvariant, PTL DEF Spec

-----------------------------------------------------------------------------
(***************************************************************************)
(* WebBuild implements SerialBuilds.                                       *)
(***************************************************************************)

\* Seen from its callers, buildWeb serves builds one at a time and in order, and never
\* publishes a superseded one (the safety part of SerialBuilds).
THEOREM Refinement == Spec => Serial!Spec
<1> DEFINE act == {b \in Build : Working(b)}
           fin == {b \in Build : Settled(b)}
           pub == IF phase[builtWeb] = "resolved" THEN builtWeb ELSE 0
<1>1. Init => Serial!Init
  <2> SUFFICES ASSUME Init PROVE Serial!Init
    OBVIOUS
  <2>1. 1 \in Build
    BY BoundsAssumption DEF Build
  <2>2. act = {1}
    BY <2>1 DEF Init, Working, WorkPhase
  <2>3. fin = {}
    BY DEF Init, Settled, SettledPhase
  <2>4. pub = 0
    BY <2>1 DEF Init
  <2>5. QED
    BY <2>2, <2>3, <2>4 DEF Serial!Init, Init
<1>2. TypeOK /\ InOrder /\ Superseded /\ TypeOK' /\ InOrder' /\ Superseded' /\ [Next]_vars
        => [Serial!Next]_(Serial!vars)
  <2> SUFFICES ASSUME TypeOK, InOrder, Superseded, TypeOK', InOrder', Superseded', [Next]_vars
               PROVE  [Serial!Next]_(Serial!vars)
    OBVIOUS
  <2> HIDE DEF act, fin, pub
  <2>1. CASE UNCHANGED <<builtWeb, phase>>
    <3>1. act' = act /\ fin' = fin /\ pub' = pub
      BY <2>1 DEF act, fin, pub, Working, Settled
    <3>2. QED BY <2>1, <3>1 DEF Serial!vars, act, fin, pub
  <2>2. CASE /\ builtWeb' = builtWeb + 1
             /\ phase' = [phase EXCEPT ![builtWeb + 1] = "waitForOldBuild"]
    <3>1. \A b \in Build : phase'[b] # phase[b] =>
            phase[b] = "none" /\ phase'[b] = "waitForOldBuild"
      BY <2>2 DEF TypeOK, InOrder, Build
    <3>2. act' = act /\ fin' = fin
      BY <3>1 DEF act, fin, Working, Settled, WorkPhase, SettledPhase
    <3>3. pub' = 0
      <4>1. phase'[builtWeb'] = "waitForOldBuild"
        BY <2>2 DEF TypeOK
      <4>2. QED BY <4>1 DEF pub
    <3>4. Serial!Request
      BY <2>2, <3>2, <3>3 DEF Serial!Request, act, fin, pub
    <3>5. QED BY <3>4 DEF Serial!Next
  <2>3. ASSUME NEW b \in Build, Run(b) PROVE [Serial!Next]_(Serial!vars)
    <3>1. Pending(b) /\ builtWeb' = builtWeb
      BY <2>3, RunSteps
    <3>2. PICK q \in WorkPhase \cup SettledPhase :
            /\ phase' = [phase EXCEPT ![b] = q]
            /\ q = "resolved" => ~cancelRequested[b]
            /\ phase[b] = "waitForOldBuild" /\ q \in SettledPhase =>
                 q = "rejected" /\ cancelRequested[b]
      BY <2>3, RunSteps
    <3>3. phase'[b] = q /\ \A a \in Build : a # b => phase'[a] = phase[a]
      BY <3>2 DEF TypeOK
    <3>4. b \in (1..builtWeb) \ fin
      BY <3>1 DEF InOrder, Pending, fin, Settled, WorkPhase, SettledPhase, TypeOK, Build
    <3>5. 1..(b - 1) \subseteq fin
      <4>1. Working(b)' \/ Settled(b)'
        BY <3>2, <3>3 DEF Working, Settled
      <4>2. ASSUME NEW a \in 1..(b - 1) PROVE a \in Build /\ a < b
        BY <4>2, BoundsAssumption DEF Build
      <4>3. ASSUME NEW a \in 1..(b - 1) PROVE Settled(a)
        <5>1. Settled(a)'
          BY <4>1, <4>2 DEF InOrder
        <5>2. phase'[a] = phase[a]
          BY <3>3, <4>2 DEF Build
        <5>3. QED BY <5>1, <5>2 DEF Settled
      <4>4. QED BY <4>2, <4>3 DEF fin
    <3>6. \A a \in Build : Working(a) => a = b
      BY <3>3, <3>1, <3>2 DEF InOrder, Pending, Working, Settled, WorkPhase, SettledPhase,
         TypeOK, Build
    <3>7. b # builtWeb => pub' = pub
      BY <3>1, <3>3 DEF pub, TypeOK
    <3>8. b = builtWeb => pub = 0 /\ (q # "resolved" => pub' = 0)
      BY <3>1, <3>3 DEF pub, Pending, WorkPhase
    <3>9. CASE phase[b] = "waitForOldBuild"
      <4>1. act = {}
        BY <3>6, <3>9 DEF act, Working, WorkPhase
      <4>2. CASE q \in WorkPhase
        <5>1. act' = {b} /\ fin' = fin
          BY <3>3, <3>6, <3>9, <4>2 DEF act, fin, Working, Settled, WorkPhase, SettledPhase
        <5>2. pub' = pub
          BY <3>7, <3>8, <4>2 DEF WorkPhase
        <5>3. Serial!Begin(b)
          BY <3>1, <3>4, <3>5, <4>1, <5>1, <5>2 DEF Serial!Begin, Serial!Turn, act, fin, pub
        <5>4. QED BY <3>4, <5>3 DEF Serial!Next, Serial!Serve
      <4>3. CASE q \in SettledPhase
        <5>1. b < builtWeb
          BY <3>2, <3>9, <4>3 DEF Superseded
        <5>2. act' = act /\ fin' = fin \cup {b}
          BY <3>3, <3>9, <4>3 DEF act, fin, Working, Settled, WorkPhase, SettledPhase
        <5>3. pub' = pub
          BY <3>7, <5>1 DEF TypeOK, Build
        <5>4. Serial!Skip(b)
          BY <3>1, <3>4, <3>5, <4>1, <5>1, <5>2, <5>3 DEF Serial!Skip, Serial!Turn, act, fin, pub
        <5>5. QED BY <3>4, <5>4 DEF Serial!Next, Serial!Serve
      <4>4. QED BY <4>2, <4>3
    <3>10. CASE Working(b)
      <4>1. act = {b}
        BY <3>6, <3>10 DEF act
      <4>2. CASE q \in WorkPhase
        <5>1. act' = act /\ fin' = fin
          BY <3>3, <3>10, <4>2 DEF act, fin, Working, Settled, WorkPhase, SettledPhase
        <5>2. pub' = pub
          BY <3>7, <3>8, <4>2 DEF WorkPhase
        <5>3. QED BY <3>1, <5>1, <5>2 DEF Serial!vars, act, fin, pub
      <4>3. CASE q \in SettledPhase
        <5>1. act' = {} /\ fin' = fin \cup {b}
          BY <3>3, <3>6, <3>10, <4>3 DEF act, fin, Working, Settled, WorkPhase, SettledPhase
        <5>2. CASE q = "resolved"
          <6>1. b = builtWeb
            BY <3>1, <3>2, <3>4, <5>2 DEF Superseded, TypeOK, Build
          <6>2. pub' = b
            BY <3>1, <3>3, <5>2, <6>1 DEF pub
          <6>3. Serial!Publish(b)
            BY <3>1, <4>1, <5>1, <6>1, <6>2 DEF Serial!Publish, act, fin, pub
          <6>4. QED BY <3>4, <6>3 DEF Serial!Next, Serial!Serve
        <5>3. CASE q = "rejected"
          <6>1. pub' = pub
            BY <3>7, <3>8, <5>3
          <6>2. Serial!Fail(b)
            BY <3>1, <4>1, <5>1, <6>1 DEF Serial!Fail, act, fin, pub
          <6>3. QED BY <3>4, <6>2 DEF Serial!Next, Serial!Serve
        <5>4. QED BY <4>3, <5>2, <5>3 DEF SettledPhase
      <4>4. QED BY <4>2, <4>3
    <3>11. QED
      BY <3>1, <3>9, <3>10 DEF Pending, Working
  <2>4. CASE Outside
    BY <2>1, <2>2, <2>4, OutsideSteps
  <2>5. CASE UNCHANGED vars
    BY <2>1, <2>5 DEF vars, buildVars
  <2>6. QED BY <2>3, <2>4, <2>5 DEF Next
<1>3. QED
  BY <1>1, <1>2, TypeCorrect, OrderInvariant, PTL DEF Spec, Serial!Spec
=============================================================================
