# Verification of pve-manager-electrified

TLA+ models of the parts of *pve-manager-electrified* whose behaviour depends on
concurrency, cancellation, failure and time, with TLC runs that check them on small
instances and proofs (TLAPS) of what matters most, for every value of the constants.

## 1. The system

pve-manager-electrified is a fork of Proxmox' `pve-manager`. A nodejs server
(`nodejsserver/`) sits in front of the perl API server, builds the web client with its
plugins and serves it; the client (`www/electrified/`) keeps a live model of the cluster.
The perl part (`PVE/`) is mostly upstream. Node and the browser run one callback at a
time: everything that is concurrent interleaves at an `await`, a timer or an event. The
perl daemons are processes that share files and locks.

| Component | State | Operations | Talks to |
|---|---|---|---|
| **Web build** (`server.ts`, `WebBuilder.ts`, `PromiseTask.ts`, `ElectrifiedSession.ts`) | `builtWeb`, each build's promise state, index.html, plugin list, `node_modules`, bundled dir, vite dev server, `NODE_ENV`, `lastCfg` | `buildWeb`, the steps of `run`, `cancel`, `activateBuildResult`, watchers, `rebuildWebAsync`, `setNodeEnv`, `resetNode_modules`, `disablePluginsAndRebuildClean` | npm, tsc and vite as child processes; `serveIndexHtml`; the control panel |
| **Diagnosis tasks** (`Datacenter.ts`) | per task: current run, listeners; scheduler: tree, `task2schedule`, timer | `scheduleTask`, `processNext`, `_runOnce`, `_handleModelChanged`, `scheduleForNow`, `scheduleRegularly` | the model objects that a run reads; the application's login |
| **Web serving** (`server.ts`, `webBuild.html`, `Application.tsx`) | the pages in the browsers | `serveIndexHtml`, `fetchAndUpdateContent`, `onWebBuildStart`, access check of the dev server | reads `builtWeb` and the served directories between awaits |
| **File synchronisation** (`File.ts`, `SaferFileWatcher.ts`, session) | cached and uncommitted contents, watchers | `setStringContent`, `changeOnDiskHandler`, polling | disk, remote calls, listeners |
| **Datacenter model** (`Datacenter.ts`) | nodes, guests, quorum, tasks | polls and event handlers | perl API, session |
| **Application start** (`Application.tsx`) | init promises, plugins | `init`, `_registerPlugin`, login | everything in the client |
| **Guest power** (session) | guests' status | `powerOffConflictingGuests` | `qm`, `pct` |
| **CPU meters** (`GuestCpuMeters.ts`) | samples, budget | measuring rounds | `/proc` |
| **Websocket forwarding** (`util.ts`) | buffered frames | open, message, close | perl server |
| **Scheduled jobs** (`Jobs.pm`, `API2/Backup.pm`, `pvescheduler.pm`) | jobs.cfg, a state and a lock file per job, the daemon's worker and `$first_run` | `run_jobs` and what it calls, `create_job`, `remove_job`, `detect_changed_runtime_props`, reload and restart | vzdump tasks; the API on all nodes |
| **Bulk actions** (`BulkAction/Guest.pm`, `Nodes.pm`) | worker table, list of failed guests | start, shutdown, suspend and migrate in the cluster; startall, stopall, suspendall, migrateall of a node | tasks of the guests, through the API or as processes |
| Auto ballooning, certificate cache, status daemon, backup, REST API, Ceph, CLI, ExtJS UI | | | |

`PROJECT.json` lists every component with its status and the reason.

### What is hard here, and what makes each part correct

* **Web build.** Requests come from users, from file watchers and from session calls, at
  any time, also while a build runs. An old build cannot be stopped, only asked to, and it
  shares all its files with the next one. Correct means: one build at a time, in order; a
  superseded build never counts as a success; what is served after a success is that
  build's own, with the plugins that are configured; every request ends.
* **Diagnosis tasks.** A change may come before, during or just after a run; an immediate
  and a regular schedule compete for one place; a timer is set for one of many tasks.
  Correct means: no wake-up is lost, every watched change is diagnosed by a later run,
  frequent changes do not postpone a run for ever, destroyed items are let go.
* **Web serving.** A request is answered in several awaits while builds replace the files
  and the options it reads. A page is made of one build, and none waits for ever.
* **File synchronisation.** Optimistic local values, answers out of order, missed events:
  readers converge to the disk, no write is lost, no uncommitted value stays.
* **Scheduled jobs.** A worker checks without a lock what it then does under it, while the
  API, here and on other nodes, changes and removes jobs; it may die anywhere. Every due
  job runs, once, and never next to itself; a removed job's state does not come back.
* **Bulk actions.** Several tasks at a time, each of which may fail, in an order that
  matters: the limit and the order are kept, every failure is reported, every run ends.
* **Guest power.** Several remote steps one of which fails: what depends on it does not
  begin, what was switched off comes back.

The list of hazards, each at its line, is in `PROJECT.json`.

## 2. Modules

| Module | Contents |
|---|---|
| `SerialBuilds` | what `buildWeb` promises: a queue of builds, served one at a time |
| `WebBuild` | the web build in detail; implements `SerialBuilds` |
| `WebBuild_proofs` | its theorems |
| `WebPages` | the pages in the browsers, composed with `WebBuild`; `WebPages_proofs` its theorem |
| `DiagnosisTasks` | diagnosis tasks and their scheduler |
| `DiagnosisTasks_proofs` | its theorems |
| `JobRuns` | what the scheduler promises: one run per event of a job's schedule, never next to a task of its own |
| `Jobs` | scheduled jobs: the worker of the scheduler daemon, the API, the state files; implements `JobRuns` |
| `Jobs_proofs` | its theorems |
| `FileSync` | a file: the client's `File` object, the server's watcher, other writers; `FileSync_proofs`, `FileFreshness_proofs` and `FileListeners_proofs` its theorems |
| `GuestBatches` | what bulk actions promise: one start order after the other, a limited number of tasks |
| `BulkActions` | bulk actions on guests in detail; implements `GuestBatches`; `BulkActions_proofs` its theorems |
| `MCWebBuild`, `MCWebPages`, `MCDiagnosisTasks`, `MCJobs`, `MCFileSync`, `MCBulkActions` | the roots of the TLC runs |

### WebBuild

One action is the code between two awaits. Builds are numbered in the order `buildWeb`
creates them; build `b` closes over `b - 1` as its `oldBuild`.

| Code | Model |
|---|---|
| `builtWeb`, `promiseState` | `builtWeb`, `phase[b]` (where `run` awaits, or how it settled), `cancelRequested[b]` |
| `buildWeb` | `BuildWeb`, called by `RebuildWebAsync`, `PluginFilesChange`, `ConfigWatcherFires`, `RebuildWithoutPlugins` |
| `WebBuildAndDeploy.run` and `WebBuildProgress.run` | `OldBuildSettled`, `SleepEnds`, `CloseDevServer`, `CreateIndexHtml`, ..., `RestartDevServer`, in the code's order, with `Continue` where it calls `checkCanceled` and `GoOn` where it does not |
| an exception in a step | `BuildThrows`; an aborted npm install leaves the old, the new or an unusable `node_modules`, and `bundleFiles` restores `NODE_ENV` in its `finally` |
| `PromiseTask.create` | the last `Continue`, in `RestartDevServer` |
| `process.env.NODE_ENV`, `orig_NODE_ENV` | `nodeEnv`, `origNodeEnv[b]`; vite's build sets production |
| `electrified.json`, its watcher | `config`, `lastCfg`, `watchDue`; writes come from anywhere |
| `setNodeEnv`, `resetNode_modules`, `disablePluginsAndRebuildClean` | `SetNodeEnv`, `ResetNodeModules`, `RebuildWithoutPlugins` |
| `constructor` | `Init` (the first build has been requested) and `CreateDevServer` |

Abstractions: a plugin is a model value; index.html is the id of the build that wrote it;
a bundle is the id and the plugin list it was made from; npm plugins stand for all three
sources of plugins, changes of the other two are `PluginFilesChange`. Vite's own errors
while it closes or restarts (it logs and swallows them) are left out. A missing
`electrified.json` is created by the getter that reads it (`server.ts:568`): that is a file
without plugins, and an exception of its mount check is one of `BuildThrows`. A
`node_modules` that is deleted while npm writes it is either complete or `Missing`.

`resetAlone` is a history variable: `resetNode_modules` was called from its own button, and
no npm install has completed since. `NodeModulesAreInstalled` excepts that, because nothing
in the code rebuilds after it; after `disablePluginsAndRebuildClean` it has to hold.

`AllowRevert` says whether `electrified.json` may return to the content the watcher knows
before the watcher looks at it, 100 ms after the first event. The watcher compares
contents, so it cannot see such a change; a build that read the file in that window would
list plugins that are no longer configured. The runs and the theorem about the plugin
list assume that this does not happen (`AllowRevert = FALSE`).

### WebPages

| Code | Model |
|---|---|
| a page in a browser | `page[p]` (where it is), `html[p]` (what it was sent: for which build, from which directory, whose index.html, by the dev server or not) |
| `serveIndexHtml` | `Serve` (up to `readFile`), `ReadIndexHtml` (to the second look at `useViteDevServer`), `AskAgain`, `Answer`; its `catch` is `PageFails`, from any of its awaits |
| `serveWebBuildDiagnosisHtml` | the other branch of `Serve`; its `catch` is `PageFails` as well |
| `webBuild.html`, which is sent while a build runs | `"waiting"`; `fetchAndUpdateContent` is `Poll` |
| `onWebBuildStart` and the reload of the app | `OnWebBuildStart`; `BuildStep` sends the apps back to `"requested"` when it requests a build |

`BuildStep` is any step of `WebBuild`; pages only read its state. The third look at
`useViteDevServer` (`server.ts:455`) only adds the mTime of scripts and is left out. The model shows one gap
that no comment rules out: a build that is requested after a page was answered and before
its scripts have subscribed is missed, and the page of the older build stays. That is why
`PagesAreOfOneBuild` speaks of pages for which no newer build was requested.

### FileSync

| Code | Model |
|---|---|
| the file, and whoever else writes it | `disk` (content and version), `OtherChanges` |
| chokidar's two watchers in `SaferFileWatcher` | `dirty`: those that have still to fire; `ChangeDisk` lets the direct one miss a change, the polling one never does |
| the event handler | `Fire` up to its `stat`, `HandlerReads` for the rest; `reading`, `lastState` |
| `onFileChanged`, `offFileChanged`, the listener's calls | `subscribed`, `events` |
| `cache_stat`, `cache_stringContent`, `..._unCommitted`, `watchesForChanges` | `stat`, `cache`, `uncommitted`, `watching` |
| `setStringContent` | `SetAndAwait`, `SetLazily` |
| `setStringContent_writeOperation` and its `onFinishedFn` | `op`: `CalmDown`, `Subscribe`, `WriteBegins`, `WriteEnds`, `WriteAnswered`, then confirmed in `Flip` or `ConfirmTimeout`; `WriteFails`; all end in `FinishOp` |
| `getStats`, `getStringContent` | `BeginQuery`, `Subscribe`, `ServerAnswers`, `TakeAnswer` |
| `changeOnDiskHandler` | `HandleChange`, `ServerAnswers`, `RefreshEnds`; several may run; `Flip` is what it does at once |
| `remove`, `cleanup` | `Remove`, `Cleanup`, `Unsubscribe`, `CleanupEnds` |

A remote call is two steps, the server's and the client's, and calls overtake each other
and the events. `writeFile` truncates first, so a write makes two changes. Abstractions:
one encoding, no directories and no `jsonObject`; of a stat only whether the file exists;
one query in flight; a watcher has at most one handler at a time, and its `readFile` and
the comparison are one step; `remove` up to the deletion is one step; chokidar's watchers
are effective at once; no reconnects. `HandleChange` fetches a cached content once, while
the loop of the code runs over the live map (`File.ts:284`) and may fetch a content again
that was removed and set meanwhile. A caller that retsync runs again is another call.

`races`, `newest`, `informed` and `assigned` are history variables. `races` names the ways
in which the client may stay behind, each of which TLC shows to be possible in the code
(at the bounds below or, `early` and the existence in `masked`, with three calls):

* `overtaken`: an older answer is applied after a newer one (`File.ts:286`, `268`, `85`);
* `masked`: the content changes and changes back before a watcher looks, which compares
  contents only (`SaferFileWatcher.ts:65`): a client that has cached what was in between,
  be it a content or that the file exists, is not told;
* `halfSeen`: the file is removed between `stat` and `readFile` of the handler
  (`SaferFileWatcher.ts:47-62`), which then reports the old `stat`, records that there is no
  file, and drops the event of the removal;
* `unsubscribed`: something is read or cached while the client is not subscribed, because
  `watchesForChanges` is set before `onFileChanged` is awaited (`File.ts:327`), or during
  `cleanup` (`File.ts:526-528`); or an event of an earlier subscription arrives in the next;
* `early`: a write is confirmed by an older version with the same content
  (`File.ts:205`): it then ends although the listeners were skipped for its own event, and
  they are not called. The cache is right nevertheless.

Two more observations, which are behaviour of the model and no property: the `finally` of
the first of two writes removes the uncommitted value of the second (`File.ts:140`), so
that `getStringContent` briefly does not "return the latest content" (`File.ts:115`); and a
write that does not change the disk gets no event and fails after `WRITE_CONFIRM_TIMEOUT`.

### BulkActions

| Code | Model |
|---|---|
| a bulk action | `r \in Run` with its `kind[r]` |
| `get_start_stop_list`, the `sort`s of the loops | `OrderOf`, `Before`, `Upcoming` |
| `$workers` and the loops that wait for a slot or for the end of an order | `Workers`, `Room`, `Draining`; `Look` starts a round over the workers, `Busy`, `Reap` and `Lose` look at one |
| `wait_for_task_finished` | `LookedAt` without a round |
| `$start_task`, `$create_stop_worker`, ... | `Ask` (the status is read), then `Skip`, `Post` or `PostFails`, by what was read (`Skips`, `Resumes`) |
| `$failed` | `failed[r]`, a sequence |
| "abort when we loose quorum" in startall | `Abort` |
| the tasks, other users | `TaskSucceeds`, `TaskFails`, `OthersChange` |

`Ask` only reads; what it has read (`seen[r]`) decides one or more steps later whether the
guest is skipped and whether the task starts or resumes it (`resumes`), when others may have
changed the guest. A task then does what the state it finds allows (`Outcomes`): a start
fails on a guest that is on, a resume on one that is off. Migrations do not look at the
status, and what the model reads for them is not used. The success of a task of an
HA-managed guest (`HaManaged`; such guests are not filtered out when vmids are given,
`Nodes.pm:2000`) only says that the request was accepted: the guest may stay as it is.
`reached` (history) are the guests that have been in a state which the run accepts at some
time since it came to them. `ReportIsHonest` asks that of every guest that is not reported,
or, of an HA-managed one, that its task succeeded.

The retries of a query are one query, which may fail; where a guest is, startup delays,
the wait for quorum at boot and permissions are left out; migrateall of a node sorts vmids
as strings, which its single order makes irrelevant. `unknown` (history) are the guests
for which a request failed: when the answer to a POST is lost, or the status of a task
cannot be queried four times, the code gives the worker up although its task may still run.
Then more than "max-workers" tasks may run and the next order may begin; `RunsInBatches`
excepts exactly those. The node's runs ask whether a pid is alive; if another process has
got that pid (`Nodes.pm:2706` has a FIXME), they wait for it, which is `Busy` for a task
that has ended.

### DiagnosisTasks

| Code | Model |
|---|---|
| `DiagnosisTaskScheduler.tasks`, `task2schedule` | `schedule[t]`, `NotScheduled` when `t` is not in the tree |
| `processNextTimer` | `timer`, in ticks, `None` when there is none |
| `initializedAndLoggedOnPromise.then(processNext)` | `calls`, `ProcessQueuedCall`, `AppIsInitialized` (it may never come) |
| `processNext` | `ProcessNext`: nothing to do, `RetryLater`, or `RunOnce` |
| `_runOnce` | `RunOnce` up to its await, `Watch` for reads in `run`, `RunSettles` for its `finally` |
| the rest of `processNext` after the await | `RunReturned`: `scheduleRegularly`, then `processNext` again |
| `_handleModelChanged` | `HandleModelChanged` |
| garbage collected or destroyed items | `ItemDestroyed` |

Time is relative: a schedule holds the ticks left to `idealStartTime` (`ideal`) and to
`idealStartTime + priorityDelay` (`urgency`), so that time needs no bound. `Tick` waits for
callbacks that are due, because the event loop serves them first, and for runs that have
lasted `MaxRunTime`. It begins with the login: nothing runs before that, and schedules that
were made earlier would only be more overdue. The estimated duration, the nice factor and the random part of the
delay are a choice of any delay up to `TriggerDelay`; the nice factor is 1, as in every
task of the repository, and `minDelayWhenTriggered` 0. `stale` is a history variable: the
tasks whose model has changed since their last run began. `triggered` is one as well: it
tells an immediate from a regular schedule.

### Jobs

| Code | Model |
|---|---|
| jobs.cfg; the `config` in a state file | `configured`; `unsaved`, the jobs whose config differs from it |
| `$type-$id.json` | `file[j]`, `NoFile` without one; `State` |
| `$default_state`, which the functions write into | `leaked` for the API server; free choices in `CheckDue` and `Unsaved` for the worker |
| `pvescheduler`'s loop, `$fork`, `$first_run` | `Iterate`, `firstRun`; `DaemonReloads` (HUP), `DaemonStarts` |
| the daemon's `$jobs->{jobs}`, `finish_jobs`, SIGCHLD | `table`: `"late"` between fork and `ListWorker`; `Exit` empties it only if the worker is listed, otherwise the entry stays until `ReplicationEnds` |
| `run_jobs` in the worker | `pc`, `todo`, `cur`: `Synchronize`, `ReadConfig`, `NextJob`, ..., in the code's order |
| `lock_job_state` | a section is two steps, `LockAndRead` and one that ends in `Leave` |
| `update_job_stopped`, `update_last_runtime`, `starting_job`, `started_job` | `UpdateJobStopped`, `UpdateLastRuntime`, `CheckStarting` and `StartingJob`, `StartedJob` and `StartedJobDies` |
| `create_job`, `update_job`, `delete_job` of the API | `CreateJob`, `UpdateJob`, `RemoveJob`; on another node `ChangedElsewhere` |
| lost workers, lock timeouts, no quorum | `WorkerDies`, `SkipJob`, `SynchronizeFails` |

The API's sections are one step: they only touch a state file while nobody else holds its
lock, and they hold the lock of jobs.cfg. `remove_job` takes no lock, which is why the
worker's sections are two steps. All that counts of a time stamp is whether the job's
schedule has had an event since; `ScheduledTime` makes a job's stamps old. A disabled job,
or one of another node, is one without events. The worker of replications appears only as far as its end makes the daemon
look at its table again. Assumed: of the two workers at most one ends before the daemon
has listed it; if both did, no SIGCHLD would follow and nothing would be forked again. A task log that is missing (`no such task`, `Jobs.pm:112`) makes the code skip the job in every
round until its configuration is removed; `SkipJob` does it only as often as the disturbances
allow, so `DueJobsAreServed` speaks of tasks whose logs exist. Left
out: that; a HUP between the loop's check and the fork, after which the new daemon does not
know the worker; shutdown; a crash of the daemon that leaves its worker behind. History variables: `disturbed`
(jobs that were removed, or whose worker was lost after the plugin had returned and before
that was recorded: the code makes no promise for them), `ran`, `missed`, `marked`.

`Jobs` implements `JobRuns` with `served <- ran` and `excused <- disturbed`: `RunPlugin` is
`Start` or `RunWithoutTask`, the end of a task `End`, a start of the daemon after a boot
`Reboot`, `ScheduledTime` is `Event`; all that the worker does with the state files is
invisible there. A run of `JobRuns` begins only for an event that no run has served.

## 3. Runs

| Run | Instance | Shows |
|---|---|---|
| `web_build` | 3 builds, 1 config write, 1 session call, 1 plugin; 5.8 million states | type, no overlap, a canceled build never resolves, served files are the newest build's, the dev server is open again, served plugins are the configured ones and are installed |
| `web_build_serial` | 3 builds, no writes or session calls, 1 page; 590 000 states; fairness | every build settles; `WebBuild` implements `SerialBuilds` with its fairness; the page is made of one build; it arrives |
| `web_build_node_env` | 2 builds, 1 session call | **violated**: `NODE_ENV` is reset for static builds |
| `web_build_dev_server` | 2 builds, 1 session call | **violated**: the dev server is closed during a build |
| `diagnosis_tasks` | 1 watching and 1 regular task, delays up to 2, interval 3; fairness | type, no lost wake-up, no task is delayed past its priority delay while the scheduler only waits, watched changes are scheduled for soon, scheduled tasks run, changes are diagnosed, destroyed items leave |
| `diagnosis_rerun` | the same with smaller delays | **violated**: a change during the run of a task with an interval is scheduled for soon |
| `jobs` | 2 jobs, one with repeat-missed, 2 tasks, 3 disturbances; 600 000 states; fairness | type, no parallel runs of a job, one run per event, only disturbed jobs run unmarked, refinement of `JobRuns`, due jobs are served, state files follow jobs.cfg |
| `jobs_starting` | 1 job, 2 disturbances | **violated**: only jobs that were marked as starting run |
| `jobs_missed` | 1 job, 3 disturbances | **violated**: missed jobs do not start right after boot |
| `jobs_created` | 2 jobs, 3 disturbances | **violated**: a new job is not due |
| `file_sync` | 2 contents, 2 calls or changes, 2 refreshes; up to the first race; 3.3 million states | type, what the client shows in the end is on disk, no write is lost, no uncommitted value stays or is an abandoned one, listeners are called |
| `bulk_actions` | 1 run of any kind, 3 guests (1 container) in 2 orders, 2 slots, 1 change by others; 1 HA-managed guest; 700 000 states; fairness | type and slots, exact and honest reports, refinement of `GuestBatches`, every run ends |

*Bounds.* Three builds are the least with a build that is both waiting and canceled: the
case in which the third must not start although its predecessor settles without having
worked. One config write can fall before, between and after the three reads of a build; a
second one, which makes the first an intermediate content, is covered by the theorem only;
one session call can hit any step. More of either only repeats what the proofs cover for
any number. Two tasks, one of each kind, are enough for both to compete for the timer;
`TriggerDelay` below and above what is left of `Interval` gives every order of the two
schedules. A disturbance of `jobs` is a change of the configuration, a failure, or a start
or reload of the daemon. Three are enough to create a job, remove it and create it again
within one round of the worker, or to create it and lose two workers; schedules and tasks
go on without bound. Pages do not influence builds or each other, so one page has all the
races with builds. In `file_sync`, two calls or changes give a write after a write, a write
against a change by others, a removal against either, each with events of all
intermediate contents; `CONSTRAINT NoRaceYet` ends a behaviour at its first race, after
which not everything is promised. The proofs cover what follows: those of the writes'
properties after any race, those of freshness after the races that do not concern it.
Two contents are interchangeable (`SYMMETRY`, no liveness in that run). In `bulk_actions`,
two guests of one order fill the slots, the third has to wait for both the slot and the
barrier, and one change by others is enough to make every read stale. `CHECK_DEADLOCK
FALSE`: a bounded number of builds ends, a client whose tasks all wait for model changes
may rest, and so may a scheduler without jobs, a file that nobody touches, and a finished run.

*Fairness.* In `WebBuild`, weak fairness of each build's next step: file operations and
child processes end, and timers fire. Nothing is assumed of requests. The code has no
timeout for npm, tsc and vite, so this is an assumption on them, listed as a hazard. In
`DiagnosisTasks`, weak fairness of the event loop (`ProcessQueuedCall`, `TimerFires`,
`RunReturned`), of time, and of the end of runs; none of model changes, of new or
destroyed items, or of the login. In `Jobs`, weak fairness of the daemon's loop, of the
worker's next step and of the end of tasks; none of events, changes and failures. `ListWorker`
is the daemon's next statement after the fork, and the worker of replications ends. In
`WebPages`, in addition, weak fairness of each page's next step: requests are answered and
the waiting page polls twice a second. In `BulkActions`, weak fairness of each run and of
the end of tasks, and strong fairness of the node's `Reap`: a process that has got the pid
of an ended task ends as well, at some time when the run looks.

*Findings.* Six runs show disagreements between the code and what its comments say;
`PROJECT.json` quotes the lines.

1. `bundleFiles` saves `NODE_ENV`, bundles, and restores the saved value; a `buildWeb`
   that resets it in between is undone.
2. The dev server is closed once, at the beginning of a build; `setNodeEnv` and the
   constructor open it in the middle.
3. The immediate re-run that a diagnosis task requests for a change during its run is
   replaced by the regular schedule, when the task has an interval.
4. `starting_job` returns 1 whatever its locked section returns, so that a job removed
   just before runs once more. `UnmarkedRunsWereDisturbed` shows that it concerns no others.
5. `$first_run` is taken back when the worker is forked, not when it has done its work.
6. `$default_state` is shared and written into: a new job takes over the time at which the
   API server has changed another one, and is due at once.

Every property of a passing run has a mutant: an operator `Bug...` next to the definition
it would replace, which is that code with a plausible mistake and makes the run fail.

## 4. Proofs

All theorems hold for any number of builds, plugins, config writes and session calls, and
for any set of tasks and any delays, any jobs and any number of disturbances, any contents,
calls and refreshes of a file, any finite set of guests, any orders, slots and runs. The
assumptions are those of the modules: `BoundsAssumption`, `TimesAssumption` (delays
positive), `NotScheduledAssumption`, `JobAssumption`, `NoFileAssumption`,
`FileSyncAssumption` (contents and markers differ), `BulkAssumption` (vmids and orders are
naturals, finitely many guests, at least one slot).

**WebBuild_proofs.** `TypeCorrect` first. The rest rests on five inductive parts:

* `InOrder`: all builds before one that works or has settled have settled themselves.
  "Its predecessor has settled" would not be inductive: a predecessor that is canceled
  while it waits settles without ever having had its turn.
* `Superseded`: exactly the builds before the newest may be marked as canceled, all
  pending ones are, and none of them resolves.
* `OwnFiles`: what the newest build has written so far, step by step, is still there.
* `ModulesKnown`: what a build lists has been installed before it passes the type check, or
  a deletion says so.
* `WatcherKnows`, `ListKnown`: the plugin list is what is configured, or a difference is
  known to the watcher, or it is going to look.

`LEMMA OnlyNewestRuns` connects them: once the newest build is past its wait no other
build takes a step, so nobody else writes the shared files. From these follow
`BuildsNeverOverlap`, `CanceledFails`, `ServesOwnFiles`, `ReopensDevServer`,
`InstallsNodeModules`, `ServesConfiguredPlugins` (for `~AllowRevert`) and `Refinement`, the safety part of
`ImplementsSerialBuilds`: every step of a build maps to `Begin`, `Skip`, `Publish`, `Fail`
or a stutter of `SerialBuilds`.

**DiagnosisTasks_proofs.** `NoLostWakeup` is inductive together with the types:
`LEMMA ProcessNextKeeps` shows that whatever branch `processNext` takes, it leaves a
timer, a run or a returned call behind. `WatchersAreScheduledSoon` is not inductive: its
exception for runs that have just returned would let a schedule get lost there. The
invariant drops that exception (`WatchersScheduled`) and adds that a run under which the
model changed knows it (`ChangesRemembered`). `NoTaskIsLate` shows that setting one timer,
for the ideal start of the most urgent task, is enough for all: an ideal start is never
after the moment by which its task must run (`Fitting`), and nothing in the tree is more
urgent (`LEMMA ProcessNextIsInTime`). It relies on timers that fire on time.

**Jobs_proofs.** That no job has two tasks is not inductive; the invariant `IInv` says why.
`ReadIsCurrent`: under the lock the worker knows the file of a job that is not disturbed.
`HandledJobsAreKnown`: what it handles is configured or was removed. `ChecksStillHold`:
what it has found without the lock holds until the section ends, which is what
`starting_job` relies on when it ignores the section's answer. `RunningTasksAreRecorded`:
a task that runs is in its job's file, or the worker is about to write it there; a file
has room for one, which gives `NeverTwoTasks`. `RunsAreRecorded` is the same of events and
gives `OncePerEvent`. `OnlyDisturbedRunUnmarked`: if the section refuses a job, what the
check found no longer holds, and only a removal can have changed it. `ImplementsJobRuns`
maps every step: when the worker is about to run a job that is not disturbed, the file says
"starting", so that neither a running task nor a run for this event is recorded, and by the
two invariants above there is none (`LEMMA WorkerMayRun`).

**WebPages_proofs.** `PagesFitTheirBuild`. A page's steps leave the builds alone
(`BuildsAreWebBuild`), so every theorem of `WebBuild_proofs` holds here; `ServesOwnFiles`
says whose index.html is read. The invariant `PagesFit` follows a page of the newest build
from await to await, and `NewestStays` is why it can: a build step requests a newer build,
or leaves a resolved newest one and its options as they are. The second look at
`useViteDevServer` is harmless for such a page, and only for such a page.

**FileSync_proofs.** `UncommittedIsWrittenLast` needs the state of the write operation
before it: `WritesOK` relates `uncommitted`, `op.value` and `op.next`, and says that the
last operation in line is one whose `doWrite` will delete the value, and that `assigned`,
while it is set, is what `onFinishedFn` will write. `FinishKeepsWrites`,
`MovingOnKeepsWrites` and `FlipKeeps` are the ways in which an operation goes on.

**FileFreshness_proofs.** `ContentStaysFresh` and `ExistenceStaysFresh`. Both follow from
one idea, for everything that is in the cache, in an answer, in a write that is done, in a
fetch or in an event (`Holds`, `Claims`): it is of some version of the file. If that is the
latest, it is what is on disk. If not, then the polling watcher or a handler has still to
look, and once the watcher knows the latest version, an event or a fetch that brings it is
on its way, or the client has heard of it already and will never hold anything older
(`ContentFresh`, `StatFresh`). The races are exactly the steps that break this: `masked`
and `halfSeen` in `ReportKeepsFresh`, `overtaken` where an answer is taken, `unsubscribed`
where something is acquired or the subscription changes. `VersionsOK` says that nothing is
ahead of the disk and no fetch older than its event. When everything has settled nothing
is on its way, so what is held is of the latest version.

**FileListeners_proofs.** `ListenersGetInformed`. Listeners are skipped only while a write
waits for a content other than the one that has come in. `InformedOK` says what makes up
for it: as long as the write is not confirmed, its end (a failure, the timeout or the flip
that confirms it) informs them; once it is, it is written, and the version it has written
is not later than what the client has heard of. Then either the latest version is still on
its way, and informs them when it comes, or the answer that hides it is a race; or `cleanup`
has emptied the cache meanwhile and is about to unsubscribe, which is a race while the write
goes on. `WatchOK` relates the flag, the subscription and the stages of a removal,
`ConfirmedOK` is what a confirmed write knows.

**BulkActions_proofs.** The invariant says what a run knows: waiting guests have no task, a
task that runs belongs to a worker or to a guest that is `unknown` (`Tasks`), workers fit
into the slots (`Slots`), exactly the guests whose task has failed or got lost and was
dealt with are reported (`Reports`), and a guest that was skipped, is about to be skipped for
what was read of it, or whose task succeeded has been in an accepted state, or is left to
the HA manager (`Honest`). What was read is of one guest, because only one has its turn
(`LEMMA OneTurn`). `KeepToBatches` then maps every step: `TurnComes` shows that when a task is
posted all earlier orders are over and a slot is free, `SkipOrEnd` that a guest leaves its
run as `Skip`, as `End`, or without a visible change.

Only model-checked: liveness (`EveryBuildSettles`, `PagesArrive`, `ScheduledTasksRun`,
`ChangesAreDiagnosed`, `DestroyedTasksLeave`, `DueJobsAreServed`, `StatesFollowConfig`,
`RunsEnd`), which is out of the prover's reach, and so is the fairness part of the
refinement of `SerialBuilds`. Every invariant that a passing run checks is also a theorem,
and so are the refinements of `GuestBatches` and `JobRuns`.

## 5. Plan

What is next, in this order.

1. `GuestPower` (session): conflicting guests under partial failure. All shutdowns begin
   at once and `Promise.all` gives up at the first that fails, and so does the poll for the
   end of the session: the guests that were shut down are then not powered on again,
   contrary to what the dialog promises (`Guest.tsx:1275`).
2. `Datacenter`: overlapping polls of `/cluster/status`, of which the older may be applied last.
3. A crash of the scheduler daemon that leaves its worker behind, and its shutdown.
4. `FileSync` with two clients of one server, and with a reconnect of the websocket.
5. `AutoBalloon`: the distribution of memory against a reference, over bounded inputs.
6. Theorems about the modules above, once they exist.

## 6. Not modelled, and why

Most of the repository's lines, more than nine tenths, have no state of their own to
model: the ExtJS and React user interfaces (panels, forms, grids, columns, texts), REST
handlers and CLI tools that check parameters and call libraries or external programs that
are not in this repository (Ceph, apt, corosync, qemu-server, pve-container), templates and
packaging. The models cover the places where actors share state; the rest is presentation,
formatting and input and output. In particular:

* the access check of the dev server, and the permission cache of a session, each a pure
  decision over an answer of the perl server;
* auto ballooning and the CPU meters: sequential computations over numbers, the latter
  over floating point;
* backup, metrics and the certificate cache: one sequential process each, upstream code;
* the html and the wording of progress reports, plugin compatibility checks and package
  names, which are data the properties do not tell apart;
* the clean-up of a hung installation, which runs once before anything else is started;
* of the modelled components, what the sections above name as left out.
