----------------------------- MODULE BulkActions -----------------------------
(***************************************************************************)
(* Bulk actions on guests: those of the cluster, which start and watch     *)
(* tasks through the API (API2/Cluster/BulkAction/Guest.pm), and startall, *)
(* stopall, suspendall and migrateall of a node, which fork them           *)
(* (API2/Nodes.pm).  Several of them may run at a time, on the same        *)
(* guests, that others start and stop as well.                             *)
(*                                                                         *)
(* A guest has at most one task in a run and stands for it.  The retries   *)
(* of a query are one query, which may fail; delays are any number of      *)
(* steps of others, who also get between the query for a guest's status    *)
(* and what the run makes of it.  Where a guest is (a migration) is not    *)
(* modelled.                                                               *)
(***************************************************************************)
EXTENDS Integers, Sequences, FiniteSets

CONSTANTS
  Guest,        \* vmids
  Container,    \* the guests of type lxc
  HaManaged,    \* those that the HA manager starts and stops
  StartOrder,   \* their order in startup
  Run,          \* bound: the bulk actions
  Kind,         \* bound: what these may be
  MaxWorkers,
  MaxChanges    \* bound: times that others start, pause or stop a guest

ClusterKind == {"start", "shutdown", "forceStop", "suspend", "migrate"}
NodeKind == {"startall", "stopall", "suspendall", "migrateall"}

ASSUME BulkAssumption ==
  /\ Guest \subseteq Nat /\ IsFiniteSet(Guest)
  /\ Container \subseteq Guest
  /\ HaManaged \subseteq Guest
  /\ StartOrder \in [Guest -> Nat]
  /\ Kind \subseteq ClusterKind \cup NodeKind
  /\ MaxWorkers \in Nat \ {0}
  /\ MaxChanges \in Nat

VARIABLES
  status,    \* of a guest
  changes,
  kind,      \* of a run
  pc,        \* where the run is
  work,      \* the guests it has still to deal with, and its workers
  seen,      \* what it has read of the guest whose turn it is
  sweep,     \* the workers it has still to look at in this round
  task,      \* the task that it has started for a guest
  resumes,   \* the guests that this was to resume
  failed,    \* the guests it reports
  \* History:
  unknown,   \* the guests that have lost their task: a request about it failed
  reached    \* the guests that have been in an accepted state since their turn came

guestVars == <<status, changes>>
loopVars == <<pc, work, seen, sweep>>
taskVars == <<task, resumes>>
vars == <<guestVars, kind, loopVars, taskVars, failed, unknown, reached>>

Status == {"running", "paused", "stopped"}
Reading == Status \cup {"unknown", "unread"}
Work == {"waiting", "worker", "over"}
Task == {"none", "running", "ok", "error"}

\* The states that a task of such a run leaves its guest in.
Wanted(k) ==
  CASE k \in {"start", "startall"} -> {"running"}
    [] k \in {"shutdown", "forceStop", "stopall"} -> {"stopped"}
    [] k = "suspend" -> {"paused", "stopped"}
    [] k = "suspendall" -> {"stopped"}
    [] OTHER -> Status

\* Those that the run is content with: it skips paused VMs, "resume paused VM before
\* shutdown", and containers, "only VMs can be suspended".
Accepted(k, g) ==
  IF k = "shutdown" /\ g \notin Container THEN {"stopped", "paused"}
  ELSE IF k = "suspend" /\ g \in Container THEN Status
  ELSE Wanted(k)

Init ==
  /\ status \in [Guest -> Status]
  /\ changes = 0
  /\ kind \in [Run -> Kind]
  /\ pc = [r \in Run |-> "next"]
  /\ work = [r \in Run |-> [g \in Guest |-> "waiting"]]
  /\ seen = [r \in Run |-> "unread"]
  /\ sweep = [r \in Run |-> {}]
  /\ task = [r \in Run |-> [g \in Guest |-> "none"]]
  /\ resumes = [r \in Run |-> {}]
  /\ failed = [r \in Run |-> <<>>]
  /\ unknown = [r \in Run |-> {}]
  /\ reached = [r \in Run |-> {}]

-----------------------------------------------------------------------------
(***************************************************************************)
(* The order of the loops.                                                 *)
(***************************************************************************)

\* Migrations have a single order; what is to be off goes backwards.
OrderOf(r, g) ==
  CASE kind[r] \in {"migrate", "migrateall"} -> 0
    [] kind[r] \in {"start", "startall"} -> StartOrder[g]
    [] OTHER -> -StartOrder[g]

\* sort, in the order and among orders.
Before(r, g, h) ==
  \/ OrderOf(r, g) < OrderOf(r, h)
  \/ /\ OrderOf(r, g) = OrderOf(r, h)
     /\ IF kind[r] \in {"stopall", "suspendall"} THEN g > h ELSE g < h

Waiting(r) == {g \in Guest : work[r][g] = "waiting"}
Workers(r) == {g \in Guest : work[r][g] = "worker"}

\* The workers of an order are not awaited.
BugUpcoming(r, g) ==
  /\ g \in Waiting(r)
  /\ \A h \in Waiting(r) \ {g} : Before(r, g, h)

\* The loop over the guests of an order has come to g.
Upcoming(r, g) ==
  /\ g \in Waiting(r)
  /\ \A h \in Waiting(r) \ {g} : Before(r, g, h)
  /\ \A h \in Workers(r) : OrderOf(r, h) = OrderOf(r, g)

\* One too many.
BugRoom(r) == Cardinality(Workers(r)) <= MaxWorkers

\* A slot is free.
Room(r) == Cardinality(Workers(r)) < MaxWorkers

\* The order has no more guests: wait until its workers have finished.
Draining(r) == Workers(r) # {} /\ \A g \in Guest : ~Upcoming(r, g)

-----------------------------------------------------------------------------
(***************************************************************************)
(* Starting tasks.                                                         *)
(***************************************************************************)

\* start_task, or the checks of a node's workers: there is nothing to do.  A container
\* has no qmpstatus; a guest whose status could not be queried is not skipped.
Skips(r, g) ==
  LET read == seen[r] IN
  CASE kind[r] = "start" -> read = "running" /\ g \notin Container
    [] kind[r] = "startall" -> read # "stopped"
    [] kind[r] = "shutdown" ->
         read = "stopped" \/ (read = "paused" /\ g \notin Container)
    [] kind[r] \in {"forceStop", "stopall"} -> read = "stopped"
    [] kind[r] \in {"suspend", "suspendall"} -> g \in Container \/ read = "stopped"
    [] OTHER -> FALSE

\* $operation of start: what runs already is resumed.
Resumes(r) == kind[r] = "start" /\ seen[r] \in {"running", "paused"}

Over(r, g) == work' = [work EXCEPT ![r][g] = "over"]

\* Only the cluster's runs keep a list.
Fail(r, g) ==
  failed' = IF kind[r] \in ClusterKind THEN [failed EXCEPT ![r] = Append(@, g)] ELSE failed

\* The status is taken from the list of resources, which others keep up to date.
BugAnswers(r, g) == Status

\* What a guest's node, or the node itself, says of it; a request may fail.
Answers(r, g) == {status[g]} \cup (IF kind[r] \in ClusterKind THEN {"unknown"} ELSE {})

\* The status of the next guest is asked for.
Ask(r, g) ==
  /\ pc[r] = "next"
  /\ Upcoming(r, g)
  /\ Room(r)
  /\ pc' = [pc EXCEPT ![r] = "asked"]
  /\ \E answer \in Answers(r, g) : seen' = [seen EXCEPT ![r] = answer]
  /\ reached' = IF status[g] \in Accepted(kind[r], g)
                  THEN [reached EXCEPT ![r] = @ \cup {g}] ELSE reached
  /\ UNCHANGED <<guestVars, kind, work, sweep, taskVars, failed, unknown>>

\* The run has asked about g, whose turn it is.
Asked(r, g) == pc[r] = "asked" /\ Upcoming(r, g)

\* The run has the answer, which others may have made stale.
Answered(r, g) ==
  /\ Asked(r, g)
  /\ pc' = [pc EXCEPT ![r] = "next"]
  /\ seen' = [seen EXCEPT ![r] = "unread"]

\* A migration skips guests that are on the target already.
Skip(r, g) ==
  /\ Answered(r, g)
  /\ Skips(r, g) \/ kind[r] = "migrate"
  /\ Over(r, g)
  /\ UNCHANGED <<guestVars, kind, sweep, taskVars, failed, unknown, reached>>

Post(r, g) ==
  /\ Answered(r, g)
  /\ ~Skips(r, g)
  /\ task' = [task EXCEPT ![r][g] = "running"]
  /\ resumes' = IF Resumes(r) THEN [resumes EXCEPT ![r] = @ \cup {g}] ELSE resumes
  /\ work' = [work EXCEPT ![r][g] = "worker"]
  /\ UNCHANGED <<guestVars, kind, sweep, failed, unknown, reached>>

\* The task is refused.  Or the answer of a request is lost: the task runs.
PostFails(r, g) ==
  /\ Answered(r, g)
  /\ ~Skips(r, g)
  /\ \/ UNCHANGED taskVars
     \/ /\ kind[r] \in ClusterKind
        /\ task' = [task EXCEPT ![r][g] = "running"]
        /\ resumes' = IF Resumes(r) THEN [resumes EXCEPT ![r] = @ \cup {g}] ELSE resumes
  /\ Over(r, g)
  /\ Fail(r, g)
  /\ unknown' = [unknown EXCEPT ![r] = @ \cup {g}]
  /\ UNCHANGED <<guestVars, kind, sweep, reached>>

\* "abort when we loose quorum"
Abort(r, g) ==
  /\ pc[r] = "next"
  /\ kind[r] = "startall"
  /\ Upcoming(r, g)
  /\ Room(r)
  /\ pc' = [pc EXCEPT ![r] = "aborted"]
  /\ UNCHANGED <<guestVars, kind, work, seen, sweep, taskVars, failed, unknown, reached>>

-----------------------------------------------------------------------------
(***************************************************************************)
(* Waiting for tasks.                                                      *)
(***************************************************************************)

\* No slot is free, or a node's run waits for the end of an order: another round.
Look(r) ==
  /\ pc[r] = "next"
  /\ IF Draining(r) THEN kind[r] \in NodeKind
                    ELSE ~Room(r) /\ \E g \in Guest : Upcoming(r, g)
  /\ pc' = [pc EXCEPT ![r] = "sweep"]
  /\ sweep' = [sweep EXCEPT ![r] = Workers(r)]
  /\ UNCHANGED <<guestVars, kind, work, seen, taskVars, failed, unknown, reached>>

\* On with the round; or the cluster's run awaits the workers of an order one by one.
LookedAt(r, g) ==
  \/ /\ pc[r] = "sweep"
     /\ g \in sweep[r]
     /\ sweep' = [sweep EXCEPT ![r] = @ \ {g}]
     /\ pc' = IF sweep[r] = {g} THEN [pc EXCEPT ![r] = "next"] ELSE pc
  \/ /\ pc[r] = "next"
     /\ kind[r] \in ClusterKind
     /\ Draining(r)
     /\ g \in Workers(r)
     /\ UNCHANGED <<pc, sweep>>

\* The task still runs; or another process has got its pid.
Busy(r, g) ==
  /\ pc[r] = "sweep"
  /\ LookedAt(r, g)
  /\ kind[r] \in ClusterKind => task[r][g] = "running"
  /\ UNCHANGED <<guestVars, kind, work, seen, taskVars, failed, unknown, reached>>

\* A task that ended in an error is dropped from the workers without a report.
BugReap(r, g) ==
  /\ LookedAt(r, g)
  /\ task[r][g] # "running"
  /\ Over(r, g)
  /\ UNCHANGED <<guestVars, kind, seen, taskVars, failed, unknown, reached>>

\* The task has ended, well or not.
Reap(r, g) ==
  /\ LookedAt(r, g)
  /\ task[r][g] # "running"
  /\ Over(r, g)
  /\ IF task[r][g] = "error" THEN Fail(r, g) ELSE UNCHANGED failed
  /\ UNCHANGED <<guestVars, kind, seen, taskVars, unknown, reached>>

\* A worker is kept until its status can be queried.
BugLose(r, g) ==
  /\ kind[r] \in ClusterKind
  /\ LookedAt(r, g)
  /\ UNCHANGED <<guestVars, kind, work, seen, taskVars, failed, unknown, reached>>

\* "could not query task status": the worker is given up, whether its task runs or not.
Lose(r, g) ==
  /\ kind[r] \in ClusterKind
  /\ LookedAt(r, g)
  /\ Over(r, g)
  /\ Fail(r, g)
  /\ unknown' = [unknown EXCEPT ![r] = @ \cup {g}]
  /\ UNCHANGED <<guestVars, kind, seen, taskVars, reached>>

Finish(r) ==
  /\ pc[r] = "next"
  /\ Waiting(r) = {} /\ Workers(r) = {}
  /\ pc' = [pc EXCEPT ![r] = "done"]
  /\ UNCHANGED <<guestVars, kind, work, seen, sweep, taskVars, failed, unknown, reached>>

RunStep(r) ==
  \/ \E g \in Guest :
       \/ Ask(r, g) \/ Skip(r, g) \/ Post(r, g) \/ PostFails(r, g) \/ Abort(r, g)
       \/ Busy(r, g) \/ Reap(r, g) \/ Lose(r, g)
  \/ Look(r) \/ Finish(r)

-----------------------------------------------------------------------------
(***************************************************************************)
(* The guests.                                                             *)
(***************************************************************************)

\* The turn of g has come.
TurnCame(r, g) == Asked(r, g) \/ g \notin Waiting(r)

SetStatus(g, s) ==
  /\ status' = [status EXCEPT ![g] = s]
  /\ reached' = [r \in Run |-> IF TurnCame(r, g) /\ s \in Accepted(kind[r], g)
                                THEN reached[r] \cup {g} ELSE reached[r]]

\* The states that the task leaves its guest in, if it succeeds: what is off can be started
\* and what is on resumed, not the other way round.  With HA the task is only a request.
Outcomes(r, g) ==
  (IF g \in HaManaged THEN {status[g]} ELSE {}) \cup
  IF kind[r] \in {"start", "startall"}
    THEN {s \in Wanted(kind[r]) : status[g] = "stopped" <=> g \notin resumes[r]}
  ELSE IF status[g] \in Wanted(kind[r]) THEN {status[g]} ELSE Wanted(kind[r])

TaskSucceeds(r, g) ==
  /\ task[r][g] = "running"
  /\ task' = [task EXCEPT ![r][g] = "ok"]
  /\ \E s \in Outcomes(r, g) : SetStatus(g, s)
  /\ UNCHANGED <<changes, kind, loopVars, resumes, failed, unknown>>

TaskFails(r, g) ==
  /\ task[r][g] = "running"
  /\ task' = [task EXCEPT ![r][g] = "error"]
  /\ UNCHANGED <<guestVars, kind, loopVars, resumes, failed, unknown, reached>>

\* Somebody else starts, pauses or stops a guest.
OthersChange(g) ==
  /\ changes < MaxChanges
  /\ changes' = changes + 1
  /\ \E s \in Status \ {status[g]} : SetStatus(g, s)
  /\ UNCHANGED <<kind, loopVars, taskVars, failed, unknown>>

Next ==
  \/ \E r \in Run : RunStep(r) \/ \E g \in Guest : TaskSucceeds(r, g) \/ TaskFails(r, g)
  \/ \E g \in Guest : OthersChange(g)

Spec == Init /\ [][Next]_vars

\* A run goes on and its tasks end; a process that has got the pid of a task ends, too.
Fairness ==
  \A r \in Run :
    /\ WF_vars(RunStep(r))
    /\ \A g \in Guest :
         /\ WF_vars(TaskSucceeds(r, g) \/ TaskFails(r, g))
         /\ SF_vars(kind[r] \in NodeKind /\ Reap(r, g))

FairSpec == Spec /\ Fairness

-----------------------------------------------------------------------------
(***************************************************************************)
(* Properties.                                                             *)
(***************************************************************************)

\* Every variable stays in its domain; the slots are not exceeded.
TypeOK ==
  /\ status \in [Guest -> Status]
  /\ changes \in 0..MaxChanges
  /\ kind \in [Run -> Kind]
  /\ pc \in [Run -> {"next", "asked", "sweep", "done", "aborted"}]
  /\ work \in [Run -> [Guest -> Work]]
  /\ \A r \in Run : Cardinality(Workers(r)) <= MaxWorkers
  /\ seen \in [Run -> Reading]
  /\ \A r \in Run : sweep[r] \subseteq Workers(r)
  /\ task \in [Run -> [Guest -> Task]]
  /\ resumes \in [Run -> SUBSET Guest]
  /\ failed \in [Run -> Seq(Guest)]
  /\ unknown \in [Run -> SUBSET Guest]
  /\ reached \in [Run -> SUBSET Guest]

\* At most MaxWorkers tasks of a run really run at a time, and those of an order only
\* after those of all earlier orders have ended; except for tasks whose fate the run does
\* not know, because a request failed.
Phase(r, g) ==
  IF work[r][g] = "waiting" THEN "waiting"
  ELSE IF task[r][g] = "running" /\ g \notin unknown[r] THEN "active" ELSE "over"

Batches == INSTANCE GuestBatches WITH
  order <- [r \in Run |-> [g \in Guest |-> OrderOf(r, g)]],
  phase <- [r \in Run |-> [g \in Guest |-> Phase(r, g)]]

RunsInBatches == Batches!Spec

\* A run of the cluster reports every guest whose task failed, could not be started or
\* got lost, no other, and none twice.
Reported(r) == {failed[r][i] : i \in 1..Len(failed[r])}

ReportIsExact ==
  \A r \in Run :
    /\ Cardinality(Reported(r)) = Len(failed[r])
    /\ pc[r] = "done" /\ kind[r] \in ClusterKind =>
         Reported(r) = unknown[r] \cup {g \in Guest : task[r][g] = "error"}

\* A guest that a run of the cluster does not report has been in an accepted state since
\* its turn came, when all earlier orders were dealt with; or the HA manager has been asked
\* for it.  What was read before others changed the guest, and a task chosen by it, may
\* fail but do not pass for success.
ReportIsHonest ==
  \A r \in Run :
    pc[r] = "done" /\ kind[r] \in ClusterKind =>
      \A g \in Guest \ Reported(r) : g \in reached[r] \/ (g \in HaManaged /\ task[r][g] = "ok")

\* A run ends, whatever fails: no worker holds up its order or its slot for ever.
RunsEnd == \A r \in Run : <>(pc[r] \in {"done", "aborted"})
=============================================================================
