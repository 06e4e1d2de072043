------------------------------ MODULE JobRuns ------------------------------
(***************************************************************************)
(* What the scheduler promises of the runs of its jobs, without saying     *)
(* how: a job runs at most once for each event of its schedule, and never  *)
(* next to a task of its own.  No promise is kept for excused jobs: those  *)
(* that were removed, or whose worker was lost before it could record      *)
(* their run.  Jobs implements this module.                                *)
(***************************************************************************)
CONSTANTS Job, Task, NoJob

VARIABLES
  running,   \* the job of each task, NoJob if it does not run
  served,    \* the jobs that have run since the last event of their schedules
  excused    \* the jobs for which no promise is kept

vars == <<running, served, excused>>

Init ==
  /\ running = [k \in Task |-> NoJob]
  /\ served = {}
  /\ excused = {}

MayRun(j) == j \in excused \/ (j \notin served /\ \A k \in Task : running[k] # j)

\* A run with a task of its own ...
Start(j, k) ==
  /\ MayRun(j)
  /\ running[k] = NoJob
  /\ running' = [running EXCEPT ![k] = j]
  /\ served' = served \cup {j}
  /\ UNCHANGED excused

\* ... or one that fails, or has nothing to do.
RunWithoutTask(j) ==
  /\ MayRun(j)
  /\ served' = served \cup {j}
  /\ UNCHANGED <<running, excused>>

End(k) ==
  /\ running[k] # NoJob
  /\ running' = [running EXCEPT ![k] = NoJob]
  /\ UNCHANGED <<served, excused>>

\* A reboot ends all tasks.
Reboot ==
  /\ running' = [k \in Task |-> NoJob]
  /\ UNCHANGED <<served, excused>>

\* The schedule of j has an event.
Event(j) ==
  /\ served' = served \ {j}
  /\ UNCHANGED <<running, excused>>

Excuse(j) ==
  /\ excused' = excused \cup {j}
  /\ UNCHANGED <<running, served>>

Next ==
  \/ \E j \in Job : RunWithoutTask(j) \/ Event(j) \/ Excuse(j)
  \/ \E j \in Job, k \in Task : Start(j, k)
  \/ \E k \in Task : End(k)
  \/ Reboot

Spec == Init /\ [][Next]_vars
=============================================================================
