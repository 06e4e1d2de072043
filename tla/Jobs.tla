-------------------------------- MODULE Jobs --------------------------------
(***************************************************************************)
(* The scheduled jobs of a node: the state files of PVE::Jobs (Jobs.pm),   *)
(* the worker that the scheduler daemon forks every minute to run them     *)
(* (run_jobs; Service/pvescheduler.pm), and the API that creates, changes  *)
(* and removes jobs (API2/Backup.pm), here and on other nodes.             *)
(*                                                                         *)
(* The daemon does not fork a worker while its table lists one; the table  *)
(* may be late.  A section under a job's lock is two steps, its read and   *)
(* its write: remove_job unlinks without the lock.  Time is relative: all  *)
(* that counts of a time stamp is whether the job's schedule has had an    *)
(* event since ("new").  A disabled job, or one of another node, is one    *)
(* without such events.                                                    *)
(***************************************************************************)
EXTENDS Naturals

CONSTANTS
  Job,              \* job ids, in the order of sort
  RepeatMissed,     \* the jobs with repeat-missed
  Task,             \* bound: upids of tasks that run, or that a state file names
  NoTask, NoFile,
  MaxDisturbances   \* bound: config changes, lost workers and starts of the daemon

ASSUME JobAssumption ==
  /\ Job \subseteq Nat \ {0}
  /\ RepeatMissed \subseteq Job
  /\ NoTask \notin Task
  /\ MaxDisturbances \in Nat

NoJob == 0
Stamp == {"old", "new"}
MaybeStamp == Stamp \cup {"none"}

\* A state file.  time is the field time or the start time in the upid; the upid of a
\* stopped task says no more than that.
State == [state : {"created", "starting", "started", "stopped"},
          upid : Task \cup {NoTask}, time : Stamp, updated : MaybeStamp]

ASSUME NoFileAssumption == NoFile \notin State

VARIABLES
  configured,   \* the jobs in jobs.cfg
  unsaved,      \* those whose enabled or schedule differs from that in the state file
  file,         \* the state file of each job
  leaked,       \* updated in the API server's $default_state, as each job's stamp
  running,      \* the job that each running task belongs to
  firstRun,     \* the daemon's $first_run
  table,        \* its table of workers: "late" until it lists the one just forked
  pc,           \* where the worker is in run_jobs, "none" without a worker
  first,        \* its argument
  todo, cur,    \* the jobs it has still to look at, and the one it looks at
  locked, read, \* does it hold the lock of cur, and what has it read under it?
  upid, startTime, \* what the plugin has returned, and when that was
  \* History:
  disturbed,    \* jobs that were removed, or lost the worker that had just run them
  ran,          \* jobs whose plugin ran since the last event of their schedule
  missed,       \* jobs that had an event while the scheduler was not running
  marked,       \* did starting_job write the state that the plugin now runs with?
  disturbances

apiVars == <<configured, unsaved, leaked>>
sectionVars == <<locked, read>>
pluginVars == <<upid, startTime>>
workerVars == <<pc, first, todo, cur, sectionVars, pluginVars>>
historyVars == <<disturbed, ran, missed, marked, disturbances>>
daemonVars == <<firstRun, table>>
vars == <<apiVars, file, running, daemonVars, workerVars, historyVars>>

Section == {"updateStopped", "updateLastRuntime", "starting", "started"}
PC == Section \cup {"none", "sync", "readConfig", "nextJob", "due", "checkStarting", "run"}

Default == [state |-> "created", upid |-> NoTask, time |-> "old", updated |-> "none"]

\* get_last_runtime
LastRun(s) == IF s.updated # "none" THEN s.updated ELSE s.time

Due(j) == file[j] # NoFile /\ LastRun(file[j]) = "old"

Init ==
  /\ configured = {}
  /\ unsaved = {}
  /\ file = [j \in Job |-> NoFile]
  /\ leaked = [j \in Job |-> "none"]
  /\ running = [k \in Task |-> NoJob]
  /\ firstRun = TRUE
  /\ table = "empty"
  /\ pc = "none"
  /\ first = FALSE
  /\ todo = {}
  /\ cur = NoJob
  /\ locked = FALSE
  /\ read = NoFile
  /\ upid = NoTask
  /\ startTime = "old"
  /\ disturbed = {}
  /\ ran = {}
  /\ missed = {}
  /\ marked = FALSE
  /\ disturbances = 0

-----------------------------------------------------------------------------
(***************************************************************************)
(* What the functions of Jobs.pm write.                                    *)
(***************************************************************************)
OrDefault(s) == IF s = NoFile THEN Default ELSE s

\* create_job.  It writes into the state it has read, which is $default_state itself
\* without a file.
Created(s) == [OrDefault(s) EXCEPT !.time = "new"]

\* update_last_runtime, and detect_changed_runtime_props if something has changed.
Updated(s) == [OrDefault(s) EXCEPT !.updated = "new"]

\* update_job_stopped: a finished task.
BugStillStarted(s) == s

BugForgetRun(s) == [s EXCEPT !.state = "stopped", !.upid = NoTask, !.time = "old"]

BugKeepUpid(s) == [s EXCEPT !.state = "stopped"]

Stopped(s) == [s EXCEPT !.state = "stopped", !.upid = NoTask]

\* starting_job: not a removed and not a started job.
BugCanStart(s) == s # NoFile

CanStart(s) == s # NoFile /\ s.state # "started"

Starting == [state |-> "starting", upid |-> NoTask, time |-> "new", updated |-> "none"]

\* started_job: the task that runs, or the end of a job that had none or failed.
BugStartedWithoutTime(s) ==
  IF upid = NoTask
    THEN [state |-> "stopped", upid |-> NoTask, time |-> s.time, updated |-> "none"]
    ELSE [state |-> "started", upid |-> upid, time |-> startTime, updated |-> "none"]

Started(s) ==
  IF upid = NoTask
    THEN [state |-> "stopped", upid |-> NoTask, time |-> "new", updated |-> "none"]
    ELSE [state |-> "started", upid |-> upid, time |-> startTime, updated |-> "none"]

\* synchronize_job_states_with_config, for one job.
BugOnlyCreates(j) ==
  IF file[j] = NoFile /\ j \in configured THEN Created(NoFile) ELSE file[j]

Synchronized(j) ==
  IF j \notin configured THEN NoFile
  ELSE IF file[j] = NoFile THEN Created(NoFile)
  ELSE IF j \in unsaved THEN Updated(file[j])
  ELSE file[j]

\* ... and for those in part.  $default_state brings the enabled and schedule of a job
\* that create_job has seen before into the state files of later ones.
Unsaved(part) ==
  LET created == {j \in part \cap configured : file[j] = NoFile}
  IN  {(unsaved \ part) \cup c : c \in {d \in SUBSET created : d = {} \/ d # created}}

-----------------------------------------------------------------------------
(***************************************************************************)
(* The daemon and its worker.                                              *)
(***************************************************************************)

\* One round of the daemon's loop.
Iterate ==
  /\ table # "late"
  /\ firstRun' = FALSE
  /\ IF table = "empty" THEN /\ pc' = "sync"
                             /\ first' = firstRun
                             /\ table' = "late"
                        ELSE UNCHANGED <<pc, first, table>>
  /\ UNCHANGED <<apiVars, file, running, todo, cur, sectionVars, pluginVars, historyVars>>

ListWorker ==
  /\ table = "late"
  /\ table' = "listed"
  /\ UNCHANGED <<apiVars, file, running, firstRun, workerVars, historyVars>>

\* The end of the worker, and of its entry in the table if there is one yet (finish_jobs,
\* on SIGCHLD).
Exit ==
  /\ table' = IF table = "listed" THEN "empty" ELSE table
  /\ pc' = "none"
  /\ first' = FALSE
  /\ todo' = {}
  /\ cur' = NoJob
  /\ locked' = FALSE
  /\ read' = NoFile
  /\ upid' = NoTask
  /\ startTime' = "old"
  /\ marked' = FALSE

Synchronize ==
  /\ pc = "sync"
  /\ pc' = "readConfig"
  /\ file' = [j \in Job |-> Synchronized(j)]
  /\ unsaved' \in Unsaved(Job)
  /\ UNCHANGED <<configured, leaked, running, daemonVars, first, todo, cur, sectionVars,
                 pluginVars, historyVars>>

ReadConfig ==
  /\ pc = "readConfig"
  /\ pc' = "nextJob"
  /\ todo' = configured
  /\ UNCHANGED <<apiVars, file, running, daemonVars, first, cur, sectionVars, pluginVars,
                 historyVars>>

AfterStopped(j) == IF first /\ j \notin RepeatMissed THEN "updateLastRuntime" ELSE "due"

\* The next job, and update_job_stopped's look at it without the lock.
NextJob ==
  \E j \in todo :
    /\ pc = "nextJob"
    /\ \A i \in todo : j <= i
    /\ todo' = todo \ {j}
    /\ cur' = j
    /\ pc' = IF file[j] # NoFile /\ file[j].state = "started" /\ running[file[j].upid] = NoJob
               THEN "updateStopped"
               ELSE AfterStopped(j)
    /\ UNCHANGED <<apiVars, file, running, daemonVars, first, sectionVars, pluginVars,
                   historyVars>>

AllJobsDone ==
  /\ pc = "nextJob"
  /\ todo = {}
  /\ Exit
  /\ UNCHANGED <<apiVars, file, running, firstRun, disturbed, ran, missed, disturbances>>

GoTo(place) ==
  /\ pc' = place
  /\ UNCHANGED <<apiVars, file, running, daemonVars, first, todo, cur, sectionVars,
                 pluginVars, historyVars>>

\* Without a file its time is 0, if the worker has not written into $default_state.
CheckDue ==
  /\ pc = "due"
  /\ \E due \in IF file[cur] = NoFile THEN BOOLEAN ELSE {Due(cur)} :
       GoTo(IF due THEN "checkStarting" ELSE "nextJob")

\* starting_job's look without the lock.
BugNoFirstCheck ==
  /\ pc = "checkStarting"
  /\ GoTo("starting")

CheckStarting ==
  /\ pc = "checkStarting"
  /\ GoTo(IF CanStart(file[cur]) THEN "starting" ELSE "nextJob")

\* lock_job_state and the read under the lock.
LockAndRead ==
  /\ pc \in Section
  /\ ~locked
  /\ locked' = TRUE
  /\ read' = file[cur]
  /\ UNCHANGED <<apiVars, file, running, daemonVars, pc, first, todo, cur, pluginVars,
                 historyVars>>

\* The end of a section: write new (or nothing, if it is not to write) and go on.
Leave(writes, new, next) ==
  /\ locked
  /\ locked' = FALSE
  /\ read' = NoFile
  /\ file' = IF writes THEN [file EXCEPT ![cur] = new] ELSE file
  /\ pc' = next
  /\ UNCHANGED <<apiVars, running, daemonVars, first, todo, cur>>

UpdateJobStopped ==
  /\ pc = "updateStopped"
  /\ Leave(read # NoFile /\ read.state = "started", Stopped(read), AfterStopped(cur))
  /\ UNCHANGED <<pluginVars, historyVars>>

UpdateLastRuntime ==
  /\ pc = "updateLastRuntime"
  /\ Leave(TRUE, Updated(read), "due")
  /\ UNCHANGED <<pluginVars, historyVars>>

\* starting_job returns 1, whatever the section has returned.
StartingJob ==
  /\ pc = "starting"
  /\ Leave(CanStart(read), Starting, "run")
  /\ marked' = CanStart(read)
  /\ UNCHANGED <<pluginVars, disturbed, ran, missed, disturbances>>

\* The plugin starts a task; or it fails, or has nothing more to do.
RunPlugin ==
  /\ pc = "run"
  /\ pc' = "started"
  /\ ran' = ran \cup {cur}
  /\ marked' = FALSE
  /\ \/ \E k \in Task :
          /\ running[k] = NoJob
          /\ \A j \in Job : file[j] # NoFile => file[j].upid # k
          /\ running' = [running EXCEPT ![k] = cur]
          /\ upid' = k
          /\ startTime' = "new"
     \/ UNCHANGED <<running, pluginVars>>
  /\ UNCHANGED <<apiVars, file, daemonVars, first, todo, cur, sectionVars, disturbed,
                 missed, disturbances>>

\* started_job; in a state it does not expect it dies, and the worker with it.
StartedJob ==
  /\ pc = "started"
  /\ read # NoFile => read.state = "starting"
  /\ Leave(read # NoFile, Started(read), "nextJob")
  /\ upid' = NoTask
  /\ startTime' = "old"
  /\ UNCHANGED historyVars

StartedJobDies ==
  /\ pc = "started"
  /\ locked
  /\ read # NoFile
  /\ read.state # "starting"
  /\ Exit
  /\ UNCHANGED <<apiVars, file, running, firstRun, disturbed, ran, missed, disturbances>>

Worker ==
  \/ Synchronize \/ ReadConfig \/ NextJob \/ AllJobsDone \/ CheckDue \/ CheckStarting
  \/ LockAndRead \/ UpdateJobStopped \/ UpdateLastRuntime \/ StartingJob \/ RunPlugin
  \/ StartedJob \/ StartedJobDies

-----------------------------------------------------------------------------
(***************************************************************************)
(* The API and the rest of the world.                                      *)
(***************************************************************************)
Disturb ==
  /\ disturbances < MaxDisturbances
  /\ disturbances' = disturbances + 1

Unlocked(j) == ~(locked /\ cur = j)

CreateJob(j) ==
  /\ j \notin configured
  /\ file[j] # NoFile => file[j].state = "created"
  /\ Unlocked(j)
  /\ Disturb
  /\ configured' = configured \cup {j}
  /\ unsaved' \in {unsaved, unsaved \cup {j}}
  /\ LET new == [Default EXCEPT !.updated = leaked[j]]
     IN  file' = [file EXCEPT ![j] = Created(IF @ = NoFile THEN new ELSE @)]
  /\ UNCHANGED <<leaked, running, daemonVars, workerVars, disturbed, ran, missed, marked>>

\* The file is written if enabled or the schedule has changed.
UpdateJob(j) ==
  /\ j \in configured
  /\ Unlocked(j)
  /\ Disturb
  /\ unsaved' = unsaved \ {j}
  /\ \/ /\ file' = [file EXCEPT ![j] = Updated(@)]
        /\ leaked' = IF file[j] = NoFile THEN [i \in Job |-> "new"] ELSE leaked
     \/ UNCHANGED <<file, leaked>>
  /\ UNCHANGED <<configured, running, daemonVars, workerVars, disturbed, ran, missed, marked>>

\* remove_job takes no lock.
RemoveJob(j) ==
  /\ j \in configured
  /\ Disturb
  /\ configured' = configured \ {j}
  /\ unsaved' = unsaved \ {j}
  /\ file' = [file EXCEPT ![j] = NoFile]
  /\ disturbed' = disturbed \cup {j}
  /\ missed' = missed \ {j}
  /\ UNCHANGED <<leaked, running, daemonVars, workerVars, ran, marked>>

\* The same on another node: only jobs.cfg changes here.
ChangedElsewhere(j) ==
  /\ Disturb
  /\ \/ /\ j \notin configured
        /\ configured' = configured \cup {j}
        /\ unsaved' \in {unsaved, unsaved \cup {j}}
        /\ UNCHANGED <<disturbed, missed>>
     \/ /\ j \in configured
        /\ configured' = configured \ {j}
        /\ unsaved' = unsaved \ {j}
        /\ disturbed' = disturbed \cup {j}
        /\ missed' = missed \ {j}
     \/ /\ j \in configured
        /\ unsaved' = unsaved \cup {j}
        /\ UNCHANGED <<configured, disturbed, missed>>
  /\ UNCHANGED <<leaked, file, running, daemonVars, workerVars, ran, marked>>

\* Without a quorum jobs.cfg cannot be locked; or the worker ends in the middle.
SynchronizeFails ==
  /\ pc = "sync"
  /\ Disturb
  /\ \E part \in SUBSET Job :
       /\ file' = [j \in Job |-> IF j \in part THEN Synchronized(j) ELSE file[j]]
       /\ unsaved' \in Unsaved(part)
  /\ Exit
  /\ UNCHANGED <<configured, leaked, running, firstRun, disturbed, ran, missed>>

\* update_job_stopped dies: no task log, or no lock.
SkipJob ==
  /\ pc = "updateStopped"
  /\ ~locked
  /\ Disturb
  /\ pc' = "nextJob"
  /\ UNCHANGED <<apiVars, file, running, daemonVars, first, todo, cur, sectionVars,
                 pluginVars, disturbed, ran, missed, marked>>

\* The worker is killed, or cannot lock the state file in time.
WorkerDies ==
  /\ pc \notin {"none", "sync"}
  /\ Disturb
  /\ disturbed' = IF pc = "started" THEN disturbed \cup {cur} ELSE disturbed
  /\ Exit
  /\ UNCHANGED <<apiVars, file, running, firstRun, ran, missed>>

\* The worker of the replications, which the daemon forks as well, ends: finish_jobs looks
\* at all that the table lists.
ReplicationEnds ==
  /\ pc = "none"
  /\ table = "listed"
  /\ table' = "empty"
  /\ UNCHANGED <<apiVars, file, running, firstRun, workerVars, historyVars>>

\* The scheduler starts, after a reboot or not; or it is told to reload.
DaemonStarts ==
  /\ pc = "none"
  /\ Disturb
  /\ firstRun' = TRUE
  /\ table' = "empty"
  /\ running' \in {running, [k \in Task |-> NoJob]}
  /\ missed' = {j \in configured \ RepeatMissed : Due(j)}
  /\ UNCHANGED <<apiVars, file, workerVars, disturbed, ran, marked>>

\* It gets the table from before, as of the signal.
DaemonReloads ==
  /\ table # "late"
  /\ Disturb
  /\ firstRun' = TRUE
  /\ table' \in {table, "listed"}
  /\ UNCHANGED <<apiVars, file, running, workerVars, disturbed, ran, missed, marked>>

TaskEnds(k) ==
  /\ running[k] # NoJob
  /\ running' = [running EXCEPT ![k] = NoJob]
  /\ UNCHANGED <<apiVars, file, daemonVars, workerVars, historyVars>>

AgedStamp(t) == IF t = "none" THEN "none" ELSE "old"

Aged(s) ==
  IF s = NoFile THEN NoFile ELSE [s EXCEPT !.time = "old", !.updated = AgedStamp(@)]

\* The schedule of j has an event.
ScheduledTime(j) ==
  /\ file' = [file EXCEPT ![j] = Aged(@)]
  /\ leaked' = [leaked EXCEPT ![j] = AgedStamp(@)]
  /\ read' = IF cur = j THEN Aged(read) ELSE read
  /\ startTime' = IF cur = j THEN "old" ELSE startTime
  /\ ran' = ran \ {j}
  /\ missed' = missed \ {j}
  /\ UNCHANGED <<configured, unsaved, running, daemonVars, pc, first, todo, cur, locked,
                 upid, disturbed, marked, disturbances>>

Next ==
  \/ Iterate \/ ListWorker \/ ReplicationEnds
  \/ Worker \/ SynchronizeFails \/ SkipJob \/ WorkerDies
  \/ DaemonStarts \/ DaemonReloads
  \/ \E j \in Job :
       CreateJob(j) \/ UpdateJob(j) \/ RemoveJob(j) \/ ChangedElsewhere(j) \/ ScheduledTime(j)
  \/ \E k \in Task : TaskEnds(k)

Spec == Init /\ [][Next]_vars

\* The daemon's loop and its workers go on, and tasks end.
Fairness ==
  /\ WF_vars(Iterate)
  /\ WF_vars(ListWorker)
  /\ WF_vars(ReplicationEnds)
  /\ WF_vars(Worker)
  /\ \A k \in Task : WF_vars(TaskEnds(k))

FairSpec == Spec /\ Fairness

-----------------------------------------------------------------------------
(***************************************************************************)
(* Properties.                                                             *)
(***************************************************************************)

\* Every variable stays in its domain.
TypeOK ==
  /\ configured \subseteq Job
  /\ unsaved \subseteq configured
  /\ leaked \in [Job -> MaybeStamp]
  /\ file \in [Job -> State \cup {NoFile}]
  /\ running \in [Task -> Job \cup {NoJob}]
  /\ firstRun \in BOOLEAN
  /\ table \in {"empty", "late", "listed"}
  /\ table = "empty" => pc = "none"
  /\ pc \in PC
  /\ first \in BOOLEAN
  /\ todo \subseteq Job
  /\ cur \in Job \cup {NoJob}
  /\ pc \in Section \cup {"due", "checkStarting", "run"} => cur \in Job
  /\ locked \in BOOLEAN
  /\ read \in State \cup {NoFile}
  /\ upid \in Task \cup {NoTask}
  /\ upid # NoTask => pc = "started"
  /\ startTime \in Stamp
  /\ \A j \in Job : file[j] # NoFile => (file[j].state = "started" <=> file[j].upid # NoTask)
  /\ read # NoFile => (read.state = "started" <=> read.upid # NoTask)
  /\ disturbed \subseteq Job
  /\ ran \subseteq Job
  /\ missed \subseteq Job
  /\ marked \in BOOLEAN
  /\ disturbances \in 0..MaxDisturbances

\* A job never has two tasks at a time, however long one lasts and whoever changes the
\* job meanwhile; if it was not removed, and its worker not lost just when it ran.
NoParallelRuns ==
  \A j \in Job \ disturbed : \A k, l \in Task :
    running[k] = j /\ running[l] = j => k = l

\* A job runs at most once for an event of its schedule, failed or not.
RunsOncePerEvent ==
  pc = "run" /\ cur \notin disturbed => cur \notin ran

\* That starting_job returns 1 whatever its locked section returns concerns no jobs but
\* those that were removed, now or before (or lost their worker just when they ran): any
\* other job that runs was marked as starting, and the next worker will see that.
UnmarkedRunsWereDisturbed == pc = "run" /\ ~marked => cur \in disturbed

\* Jobs implements JobRuns: of a job that is not disturbed a run begins only after an
\* event of its schedule, which no run has served, and while none of its tasks runs; so
\* no step in between (lock, read, write, plugin) can let two runs begin.
Runs == INSTANCE JobRuns WITH served <- ran, excused <- disturbed

RunsFollowEvents == Runs!Spec

\* No job that is due is overlooked: it runs, or its schedule is counted anew.
DueJobsAreServed ==
  \A j \in Job : (j \in configured /\ Due(j)) ~> ~(j \in configured /\ Due(j))

\* State files follow jobs.cfg: that of a job which is removed, here or on another node,
\* goes away, even if a worker writes it back.
StatesFollowConfig ==
  \A j \in Job : (j \notin configured) ~> (j \in configured \/ file[j] = NoFile)

\* Violated.  starting_job "returns 1 if the job can be started, 0 otherwise" (Jobs.pm):
\* only a job that it has marked as starting runs.
RunsOnlyMarkedJobs == pc = "run" => marked

\* Violated.  "A missed job will not start immediately after boot" if its repeat-missed
\* is 0 (Jobs.pm).
MissedJobsWait == pc = "run" => cur \notin missed

\* Violated.  A job's state has its enabled and schedule, to "update the last runtime when
\* they change" (Jobs.pm): one that is just created has not changed, and is not due.
NewJobsAreNotDue == [][\A j \in Job : CreateJob(j) => ~Due(j)']_vars
=============================================================================
