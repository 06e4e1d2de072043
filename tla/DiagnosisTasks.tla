-------------------------- MODULE DiagnosisTasks --------------------------
(***************************************************************************)
(* The client's diagnosis tasks: DiagnosisTask and DiagnosisTaskScheduler  *)
(* (www/electrified/model/Datacenter.ts).  A task runs when the scheduler  *)
(* picks it; while it runs it watches what it reads of the model, and a    *)
(* later change of that makes it run again, soon.  Some tasks run in a     *)
(* regular interval as well.                                               *)
(*                                                                         *)
(* One action is the code between two awaits.  Time is relative: a         *)
(* schedule and the timer hold the ticks that are left.                    *)
(***************************************************************************)
EXTENDS Integers

CONSTANTS
  Task,          \* the tasks, one per watched item
  RegularTask,   \* those whose class has a runInRegularInterval
  TriggerDelay,  \* longest delay of scheduleForNow, in ticks
  Interval,      \* delay of scheduleRegularly, in ticks
  MaxRunTime,    \* a run takes at most so many ticks
  NotScheduled   \* a task that is not in the scheduler's tree

ASSUME TimesAssumption ==
  /\ RegularTask \subseteq Task
  /\ TriggerDelay \in Nat \ {0}
  /\ Interval \in Nat \ {0}
  /\ MaxRunTime \in Nat

\* A schedule: ideal is the time left to idealStartTime, urgency the time left to
\* idealStartTime + priorityDelay; triggered is history, it tells scheduleForNow from
\* scheduleRegularly.
Schedule == [ideal : Nat, urgency : Int, triggered : BOOLEAN]

ASSUME NotScheduledAssumption == NotScheduled \notin Schedule

None == -1         \* no timer

VARIABLES
  created,     \* the tasks whose constructor has run
  destroyed,   \* the tasks whose item is destroyed
  initialized, \* has initializedAndLoggedOnPromise resolved?
  schedule,    \* the scheduler's tree: the schedule of each task that is in it
  calls,       \* the calls of processNext that wait for initializedAndLoggedOnPromise
  timer,       \* processNextTimer
  running,     \* the tasks with a _currentRun
  needsRerun,  \* the runs whose model has changed meanwhile
  watching,    \* the tasks that listen to changes of what they have read
  runTime,     \* how long each run has lasted
  returned,    \* how many calls of each task's _runOnce have returned to processNext
  stale        \* history: the tasks whose model changed since their last run began

runVars == <<running, needsRerun, runTime, stale>>
taskVars == <<watching, runVars>>
schedulerVars == <<schedule, calls, timer, returned>>
vars == <<created, destroyed, initialized, taskVars, schedulerVars>>

InTree(s) == {t \in Task : s[t] # NotScheduled}

Init ==
  /\ created = {}
  /\ destroyed = {}
  /\ initialized = FALSE
  /\ schedule = [t \in Task |-> NotScheduled]
  /\ calls = 0
  /\ timer = None
  /\ running = {}
  /\ needsRerun = {}
  /\ watching = {}
  /\ runTime = [t \in Task |-> 0]
  /\ returned = [t \in Task |-> 0]
  /\ stale = {}

-----------------------------------------------------------------------------
(***************************************************************************)
(* DiagnosisTaskScheduler.                                                 *)
(***************************************************************************)

\* The priority delay equals the delay, with a nice factor of 1.
ScheduleIn(delay, triggered) ==
  [ideal |-> delay, urgency |-> 2 * delay, triggered |-> triggered]

\* scheduleTask replaces the schedule of t and lets processNext look at the tree.
ScheduleTask(t, delay, triggered) ==
  /\ schedule' = [schedule EXCEPT ![t] = ScheduleIn(delay, triggered)]
  /\ calls' = calls + 1

\* _runOnce up to its first await, after a cleanup that has left w watching and with
\* r calls that have returned before.
RunOnce(t, r, w) ==
  IF t \in running \/ t \in destroyed
    THEN /\ returned' = [r EXCEPT ![t] = @ + 1]
         /\ watching' = IF t \in running THEN w ELSE w \ {t}
         /\ UNCHANGED runVars
    ELSE /\ returned' = r
         /\ running' = running \cup {t}
         /\ needsRerun' = needsRerun
         /\ watching' = w \ {t}
         /\ runTime' = [runTime EXCEPT ![t] = 0]
         /\ stale' = stale \ {t}

\* Compares the wrong way round.
BugLeastUrgent(s) ==
  {t \in InTree(s) : \A u \in InTree(s) : s[t].urgency >= s[u].urgency}

\* The first of the tree.  (Equal urgency: the older schedule, here either.)
MostUrgent(s) ==
  {t \in InTree(s) : \A u \in InTree(s) : s[t].urgency <= s[u].urgency}

\* retryLater replaces the timer.
BugKeepTimer(s, t, m) == IF m = None THEN s[t].ideal ELSE m

RetryLater(s, t, m) == s[t].ideal

\* processNext on tree s and timer m: wait for the most urgent schedule or run its task.
ProcessNext(s, m, r, w) ==
  \/ /\ InTree(s) = {}
     /\ schedule' = s
     /\ timer' = m
     /\ returned' = r
     /\ watching' = w
     /\ UNCHANGED runVars
  \/ \E t \in MostUrgent(s) :
       /\ s[t].ideal > 0
       /\ timer' = RetryLater(s, t, m)
       /\ schedule' = s
       /\ returned' = r
       /\ watching' = w
       /\ UNCHANGED runVars
  \/ \E t \in MostUrgent(s) :
       /\ s[t].ideal = 0
       /\ schedule' = [s EXCEPT ![t] = NotScheduled]
       /\ timer' = m
       /\ RunOnce(t, r, w)

\* The callback that scheduleTask has hung on initializedAndLoggedOnPromise.
ProcessQueuedCall ==
  /\ initialized
  /\ calls > 0
  /\ calls' = calls - 1
  /\ ProcessNext(schedule, timer, returned, watching)
  /\ UNCHANGED <<created, destroyed, initialized>>

TimerFires ==
  /\ timer = 0
  /\ ProcessNext(schedule, None, returned, watching)
  /\ UNCHANGED <<created, destroyed, initialized, calls>>

\* _runOnce has returned to processNext: scheduleRegularly, then the next task.
BugEveryTaskIsRegular(t) ==
  /\ returned[t] > 0
  /\ calls' = calls + 1
  /\ ProcessNext([schedule EXCEPT ![t] = ScheduleIn(Interval, FALSE)], timer,
                 [returned EXCEPT ![t] = @ - 1], watching)
  /\ UNCHANGED <<created, destroyed, initialized>>

BugDestroyedIsRegular(t) ==
  /\ returned[t] > 0
  /\ calls' = calls + 1
  /\ ProcessNext(IF t \in RegularTask
                   THEN [schedule EXCEPT ![t] = ScheduleIn(Interval, FALSE)]
                   ELSE schedule,
                 timer, [returned EXCEPT ![t] = @ - 1], watching)
  /\ UNCHANGED <<created, destroyed, initialized>>

RunReturned(t) ==
  LET again == t \in RegularTask \ destroyed IN
  /\ returned[t] > 0
  /\ calls' = IF again THEN calls + 1 ELSE calls
  /\ ProcessNext(IF again
                   THEN [schedule EXCEPT ![t] = ScheduleIn(Interval, FALSE)]
                   ELSE schedule,
                 timer,
                 [returned EXCEPT ![t] = @ - 1],
                 IF t \in destroyed THEN watching \ {t} ELSE watching)
  /\ UNCHANGED <<created, destroyed, initialized>>

-----------------------------------------------------------------------------
(***************************************************************************)
(* DiagnosisTask.                                                          *)
(***************************************************************************)

\* The constructor schedules the first run, after a random part of the delay.
CreateTask(t) ==
  /\ t \notin created
  /\ created' = created \cup {t}
  /\ \E delay \in 0..TriggerDelay : ScheduleTask(t, delay, TRUE)
  /\ UNCHANGED <<destroyed, initialized, taskVars, timer, returned>>

\* scheduleForNow, once a run has been measured: the delay is not zero.
ScheduleForNow(t) ==
  \E delay \in 1..TriggerDelay : ScheduleTask(t, delay, TRUE)

\* run() reads an object through watched(): later changes of it are reported.
Watch(t) ==
  /\ t \in running \ watching
  /\ watching' = watching \cup {t}
  /\ UNCHANGED <<created, destroyed, initialized, schedulerVars, running, needsRerun,
                 runTime, stale>>

\* run() settles, well or not.
BugKeepNeedsRerun(t) ==
  /\ t \in running
  /\ running' = running \ {t}
  /\ needsRerun' = needsRerun
  /\ IF t \in needsRerun THEN ScheduleForNow(t) ELSE UNCHANGED <<schedule, calls>>
  /\ returned' = [returned EXCEPT ![t] = @ + 1]
  /\ UNCHANGED <<created, destroyed, initialized, watching, runTime, stale, timer>>

BugForgetRerun(t) ==
  /\ t \in running
  /\ running' = running \ {t}
  /\ needsRerun' = needsRerun \ {t}
  /\ returned' = [returned EXCEPT ![t] = @ + 1]
  /\ UNCHANGED <<created, destroyed, initialized, watching, runTime, stale, timer,
                 schedule, calls>>

RunSettles(t) ==
  /\ t \in running
  /\ running' = running \ {t}
  /\ needsRerun' = needsRerun \ {t}
  /\ IF t \in needsRerun THEN ScheduleForNow(t) ELSE UNCHANGED <<schedule, calls>>
  /\ returned' = [returned EXCEPT ![t] = @ + 1]
  /\ UNCHANGED <<created, destroyed, initialized, watching, runTime, stale, timer>>

\* _handleModelChanged: during a run remember it, otherwise stop watching and
\* schedule the next run.
BugKeepWatching(t) ==
  /\ t \in watching
  /\ stale' = stale \cup {t}
  /\ IF t \in running
       THEN /\ needsRerun' = needsRerun \cup {t}
            /\ UNCHANGED <<schedule, calls>>
       ELSE /\ ScheduleForNow(t)
            /\ UNCHANGED needsRerun
  /\ UNCHANGED <<created, destroyed, initialized, running, watching, runTime, timer, returned>>

HandleModelChanged(t) ==
  /\ t \in watching
  /\ stale' = stale \cup {t}
  /\ IF t \in running
       THEN /\ needsRerun' = needsRerun \cup {t}
            /\ UNCHANGED <<watching, schedule, calls>>
       ELSE /\ watching' = watching \ {t}
            /\ ScheduleForNow(t)
            /\ UNCHANGED needsRerun
  /\ UNCHANGED <<created, destroyed, initialized, running, runTime, timer, returned>>

-----------------------------------------------------------------------------
(***************************************************************************)
(* The environment.                                                        *)
(***************************************************************************)

AppIsInitialized ==
  /\ ~initialized
  /\ initialized' = TRUE
  /\ UNCHANGED <<created, destroyed, taskVars, schedulerVars>>

ItemDestroyed(t) ==
  /\ t \in created \ destroyed
  /\ destroyed' = destroyed \cup {t}
  /\ UNCHANGED <<created, initialized, taskVars, schedulerVars>>

\* Callbacks that are due go first, and no run lasts longer than MaxRunTime.
Tick ==
  /\ initialized /\ calls = 0
  /\ timer # 0
  /\ \A t \in Task : returned[t] = 0 /\ (t \in running => runTime[t] < MaxRunTime)
  /\ timer' = IF timer = None THEN None ELSE timer - 1
  /\ schedule' = [t \in Task |->
       IF schedule[t] = NotScheduled THEN NotScheduled
       ELSE [schedule[t] EXCEPT !.ideal = IF @ = 0 THEN 0 ELSE @ - 1, !.urgency = @ - 1]]
  /\ runTime' = [t \in Task |-> IF t \in running THEN runTime[t] + 1 ELSE 0]
  /\ UNCHANGED <<created, destroyed, initialized, calls, returned, running, needsRerun,
                 watching, stale>>

Next ==
  \/ ProcessQueuedCall \/ TimerFires \/ AppIsInitialized \/ Tick
  \/ \E t \in Task :
       \/ CreateTask(t) \/ Watch(t) \/ RunSettles(t) \/ RunReturned(t)
       \/ HandleModelChanged(t) \/ ItemDestroyed(t)

Spec == Init /\ [][Next]_vars

\* The event loop serves what is due, time passes and runs end; changes of the model,
\* new tasks and destroyed items may or may not happen.
Fairness ==
  /\ WF_vars(ProcessQueuedCall)
  /\ WF_vars(TimerFires)
  /\ WF_vars(Tick)
  /\ \A t \in Task : WF_vars(RunSettles(t)) /\ WF_vars(RunReturned(t))

FairSpec == Spec /\ Fairness

-----------------------------------------------------------------------------
(***************************************************************************)
(* Properties.                                                             *)
(***************************************************************************)

\* Every variable stays in its domain.
TypeOK ==
  /\ created \subseteq Task
  /\ destroyed \subseteq created
  /\ initialized \in BOOLEAN
  /\ schedule \in [Task -> Schedule \cup {NotScheduled}]
  /\ calls \in Nat
  /\ timer \in Nat \cup {None}
  /\ running \subseteq Task
  /\ needsRerun \subseteq running
  /\ watching \subseteq Task
  /\ runTime \in [Task -> Nat]
  /\ returned \in [Task -> Nat]
  /\ stale \subseteq Task

\* As long as something is scheduled, something will look at the tree again, and not
\* too late: a queued call of processNext, a run after which processNext is called, or
\* the timer, set for the most urgent schedule or earlier whichever came in last.
NoLostWakeup ==
  \/ InTree(schedule) = {}
  \/ calls > 0
  \/ running # {}
  \/ \E t \in Task : returned[t] > 0
  \/ timer # None /\ \E t \in MostUrgent(schedule) : timer <= schedule[t].ideal

\* No task is delayed for longer than its priorityDelay ("How much can we delay it?"),
\* unless another one runs: whenever the scheduler only waits for its timer, everything
\* in the tree can wait for as long.  The timer is set for the ideal start of the most
\* urgent task alone; others may have had theirs before.
NothingIsLate ==
  calls = 0 /\ running = {} /\ (\A t \in Task : returned[t] = 0)
    => \A t \in InTree(schedule) : timer # None /\ timer <= schedule[t].urgency

\* A task whose model has changed since its last run began, and that is not running,
\* is scheduled for soon, and not only for its next regular interval.
ChangeIsScheduled(tasks) ==
  \A t \in tasks :
    (t \in stale \ running /\ t \notin destroyed /\ returned[t] = 0)
      => schedule[t] # NotScheduled /\ schedule[t].triggered

\* It holds for tasks that only watch.
WatchersAreScheduledSoon == ChangeIsScheduled(Task \ RegularTask)

\* Violated.  "Run in a regular interval or make it immediately react to relevant model
\* changes, ... or both" (Datacenter.ts).
ChangesAreScheduledSoon == ChangeIsScheduled(Task)

\* What is scheduled runs in the end, whatever other tasks and model changes do: a
\* change can postpone a run, but not again and again.
ScheduledTasksRun ==
  \A t \in Task :
    (initialized /\ schedule[t] # NotScheduled) ~> (t \in running \/ t \in destroyed)

\* Every change that a task watches is diagnosed by a run that begins after it.
ChangesAreDiagnosed ==
  \A t \in Task : (t \in stale) ~> (t \notin stale \/ t \in destroyed)

\* The task of a destroyed item leaves the scheduler's tree for good, if it was in it,
\* whether the item was destroyed while its task was scheduled, running or returning.
DestroyedTasksLeave ==
  \A t \in Task : [](t \in destroyed /\ initialized => <>[](schedule[t] = NotScheduled))
=============================================================================
