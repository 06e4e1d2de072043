-------------------------- MODULE BulkActions_proofs --------------------------
(***************************************************************************)
(* Theorems about BulkActions, for any guests, start orders, slots, number *)
(* and kinds of runs: the runs keep to the batches of GuestBatches, and    *)
(* what those of the cluster report is exact and honest.                   *)
(***************************************************************************)
EXTENDS BulkActions, FiniteSetTheorems, SequenceTheorems, TLAPS

-----------------------------------------------------------------------------
(***************************************************************************)
(* The inductive invariant, in parts.                                      *)
(***************************************************************************)

Typed ==
  /\ status \in [Guest -> Status]
  /\ changes \in 0..MaxChanges
  /\ kind \in [Run -> Kind]
  /\ pc \in [Run -> {"next", "asked", "sweep", "done", "aborted"}]
  /\ work \in [Run -> [Guest -> Work]]
  /\ seen \in [Run -> Reading]
  /\ sweep \in [Run -> SUBSET Guest]
  /\ resumes \in [Run -> SUBSET Guest]
  /\ task \in [Run -> [Guest -> Task]]
  /\ failed \in [Run -> Seq(Guest)]
  /\ unknown \in [Run -> SUBSET Guest]
  /\ reached \in [Run -> SUBSET Guest]

\* A slot that was free when a guest was asked about is free when its task is started.
Slots(r) ==
  /\ Cardinality(Workers(r)) <= MaxWorkers
  /\ pc[r] = "asked" => Room(r)

\* What a run knows of its tasks: it has lost those that are dealt with but still run.
Tasks(r) ==
  /\ sweep[r] \subseteq Workers(r)
  /\ pc[r] # "sweep" => sweep[r] = {}
  /\ \A g \in Guest :
       /\ work[r][g] = "waiting" => task[r][g] = "none"
       /\ work[r][g] = "worker" => task[r][g] # "none"
       /\ g \in unknown[r] => work[r][g] = "over"
       /\ work[r][g] = "over" /\ task[r][g] = "running" => g \in unknown[r]
  /\ pc[r] = "done" => Waiting(r) = {} /\ Workers(r) = {}

\* The guests that a run of the cluster has to report by now.
Failures(r) ==
  {g \in Guest : work[r][g] = "over" /\ (g \in unknown[r] \/ task[r][g] = "error")}

Reports(r) ==
  /\ Cardinality(Reported(r)) = Len(failed[r])
  /\ kind[r] \in ClusterKind => Reported(r) = Failures(r)

\* A guest that is to be skipped or was, or whose task succeeded, has been in an accepted
\* state, unless the HA manager is to see to that.
Honest(r) ==
  \A g \in Guest :
    /\ Asked(r, g) /\ (Skips(r, g) \/ kind[r] = "migrate")
       /\ kind[r] \in ClusterKind => g \in reached[r]
    /\ task[r][g] = "ok" => g \in reached[r] \cup HaManaged
    /\ work[r][g] = "over" /\ task[r][g] = "none" /\ g \notin unknown[r]
       /\ kind[r] \in ClusterKind => g \in reached[r]

RunOK(r) == Slots(r) /\ Tasks(r) /\ Reports(r) /\ Honest(r)

IInv == Typed /\ \A r \in Run : RunOK(r)

\* The invariant says all that the runs check.
LEMMA IInvIsStronger == IInv => TypeOK /\ ReportIsExact /\ ReportIsHonest
<1> SUFFICES ASSUME IInv PROVE TypeOK /\ ReportIsExact /\ ReportIsHonest
  OBVIOUS
<1>1. TypeOK
  BY DEF IInv, Typed, RunOK, Slots, Tasks, TypeOK
<1>2. ASSUME NEW r \in Run, pc[r] = "done", kind[r] \in ClusterKind
      PROVE  /\ Reported(r) = unknown[r] \cup {g \in Guest : task[r][g] = "error"}
             /\ \A g \in Guest \ Reported(r) :
                  g \in reached[r] \/ (g \in HaManaged /\ task[r][g] = "ok")
  <2>1. \A g \in Guest : work[r][g] = "over"
    BY <1>2 DEF IInv, Typed, RunOK, Tasks, Waiting, Workers, Work
  <2>2. Reported(r) = Failures(r)
    BY <1>2 DEF IInv, RunOK, Reports
  <2>3. Failures(r) = unknown[r] \cup {g \in Guest : task[r][g] = "error"}
    BY <2>1 DEF IInv, Typed, Failures
  <2>4. \A g \in Guest \ Failures(r) :
          g \in reached[r] \/ (g \in HaManaged /\ task[r][g] = "ok")
    BY <1>2, <2>1 DEF IInv, Typed, RunOK, Tasks, Honest, Failures, Task
  <2>5. QED
    BY <2>2, <2>3, <2>4
<1>3. ReportIsExact
  BY <1>2 DEF ReportIsExact, IInv, RunOK, Reports
<1>4. ReportIsHonest
  BY <1>2 DEF ReportIsHonest
<1>5. QED
  BY <1>1, <1>3, <1>4

-----------------------------------------------------------------------------
(***************************************************************************)
(* Slots and lists.                                                        *)
(***************************************************************************)

\* The workers are finitely many.
LEMMA WorkersAreFinite ==
  \A r : IsFiniteSet(Workers(r)) /\ Cardinality(Workers(r)) \in Nat
<1> TAKE r
<1>1. Workers(r) \subseteq Guest /\ IsFiniteSet(Guest)
  BY BulkAssumption DEF Workers
<1>2. QED
  BY <1>1, FS_Subset, FS_CardinalityType

\* A worker that goes frees its slot.
LEMMA FewerWorkers ==
  ASSUME NEW r, Workers(r)' \subseteq Workers(r)
  PROVE  Cardinality(Workers(r)') <= Cardinality(Workers(r))
BY WorkersAreFinite, FS_Subset

\* The indices of a sequence with one more element.
LEMMA OneMore ==
  ASSUME NEW n \in Nat
  PROVE  /\ \A i \in 1..n : i \in 1..(n + 1)
         /\ n + 1 \in 1..(n + 1)
         /\ \A i \in 1..(n + 1) : i \in 1..n \/ i = n + 1
OBVIOUS

\* What Append adds to a sequence, and what it keeps.
LEMMA Appended ==
  ASSUME NEW E, NEW s \in Seq(E), NEW e \in E
  PROVE  /\ Append(s, e) \in Seq(E)
         /\ Len(Append(s, e)) = Len(s) + 1
         /\ Append(s, e)[Len(s) + 1] = e
<1>1. Append(s, e) \in Seq(E)
  OBVIOUS
<1>2. Len(Append(s, e)) = Len(s) + 1
  OBVIOUS
<1>3. Append(s, e)[Len(s) + 1] = e
  OBVIOUS
<1>4. QED
  BY <1>1, <1>2, <1>3, Zenon

LEMMA KeptByAppend ==
  ASSUME NEW E, NEW s \in Seq(E), NEW e \in E, NEW i \in 1..Len(s)
  PROVE  Append(s, e)[i] = s[i]
OBVIOUS

\* A guest that is added to a report that does not list it is counted once.
LEMMA AppendReported ==
  ASSUME NEW s \in Seq(Guest), NEW g \in Guest,
         NEW t, t = Append(s, g),
         g \notin {s[i] : i \in 1..Len(s)},
         Cardinality({s[i] : i \in 1..Len(s)}) = Len(s)
  PROVE  /\ t \in Seq(Guest)
         /\ {t[i] : i \in 1..Len(t)} = {s[i] : i \in 1..Len(s)} \cup {g}
         /\ Cardinality({t[i] : i \in 1..Len(t)}) = Len(t)
<1> DEFINE S == {s[i] : i \in 1..Len(s)}
<1>0. t \in Seq(Guest)
  BY Appended
<1>1. Len(t) = Len(s) + 1
  BY Appended
<1>2. (\A i \in 1..Len(s) : t[i] = s[i]) /\ t[Len(s) + 1] = g
  <2>1. ASSUME NEW i \in 1..Len(s) PROVE Append(s, g)[i] = s[i]
    BY KeptByAppend, Zenon
  <2>2. Append(s, g)[Len(s) + 1] = g
    BY Appended
  <2>3. QED
    BY <2>1, <2>2, Zenon
<1>3. Len(s) \in Nat
  BY LenProperties
<1>4. /\ \A i \in 1..Len(s) : i \in 1..Len(t) /\ t[i] = s[i]
      /\ Len(t) \in 1..Len(t) /\ t[Len(t)] = g
      /\ \A i \in 1..Len(t) : i \in 1..Len(s) \/ i = Len(t)
  <2>1. \A i \in 1..Len(s) : i \in 1..(Len(s) + 1)
    BY <1>3, OneMore, Zenon
  <2>2. Len(s) + 1 \in 1..(Len(s) + 1)
    BY <1>3, OneMore, Zenon
  <2>3. \A i \in 1..(Len(s) + 1) : i \in 1..Len(s) \/ i = Len(s) + 1
    BY <1>3, OneMore, Zenon
  <2>4. QED
    BY <1>1, <1>2, <2>1, <2>2, <2>3, Zenon
<1>5. {t[i] : i \in 1..Len(t)} = S \cup {g}
  <2>1. ASSUME NEW i \in 1..Len(t) PROVE t[i] \in S \cup {g}
    BY <1>4
  <2>2. ASSUME NEW i \in 1..Len(s) PROVE s[i] \in {t[j] : j \in 1..Len(t)}
    BY <1>4
  <2>3. g \in {t[i] : i \in 1..Len(t)}
    BY <1>4
  <2>4. {t[i] : i \in 1..Len(t)} \subseteq S \cup {g}
    BY <2>1, Zenon
  <2>5. S \cup {g} \subseteq {t[i] : i \in 1..Len(t)}
    BY <2>2, <2>3, Zenon
  <2>6. QED
    BY <2>4, <2>5, Zenon
<1>6. IsFiniteSet(S)
  <2>1. \A i \in 1..Len(s) : s[i] \in Guest
    BY ElementOfSeq
  <2>2. IsFiniteSet(Guest) /\ S \subseteq Guest
    BY <2>1, BulkAssumption
  <2>3. QED
    BY <2>2, FS_Subset
<1>7. Cardinality(S \cup {g}) = Cardinality(S) + 1
  BY <1>6, FS_AddElement
<1>8. Cardinality({t[i] : i \in 1..Len(t)}) = Len(t)
  BY <1>1, <1>5, <1>7, Zenon
<1>9. QED
  BY <1>0, <1>5, <1>8, Zenon

\* A report grows by the guest that failed.
LEMMA FailReports ==
  ASSUME Typed, NEW r \in Run, NEW g \in Guest, Fail(r, g),
         kind[r] \in ClusterKind => g \notin Reported(r),
         Cardinality(Reported(r)) = Len(failed[r])
  PROVE  /\ failed' \in [Run -> Seq(Guest)]
         /\ \A q \in Run \ {r} : failed'[q] = failed[q]
         /\ Cardinality(Reported(r)') = Len(failed'[r])
         /\ kind[r] \in ClusterKind => Reported(r)' = Reported(r) \cup {g}
<1>1. CASE kind[r] \notin ClusterKind
  BY <1>1 DEF Fail, Reported, Typed
<1>2. CASE kind[r] \in ClusterKind
  <2>1. failed[r] \in Seq(Guest)
    BY DEF Typed
  <2>2. failed'[r] = Append(failed[r], g) /\ \A q \in Run \ {r} : failed'[q] = failed[q]
    BY <1>2 DEF Fail, Typed
  <2>3. /\ failed'[r] \in Seq(Guest)
        /\ Reported(r)' = Reported(r) \cup {g}
        /\ Cardinality(Reported(r)') = Len(failed'[r])
    BY <1>2, <2>1, <2>2, AppendReported, Zenon DEF Reported
  <2>4. failed' \in [Run -> Seq(Guest)]
    BY <1>2, <2>2, <2>3 DEF Fail, Typed
  <2>5. QED
    BY <2>2, <2>3, <2>4
<1>3. QED
  BY <1>1, <1>2

\* A turn comes and goes with the guests that wait and the workers.
LEMMA SameTurns ==
  ASSUME NEW q \in Run, kind' = kind, work'[q] = work[q]
  PROVE  \A g \in Guest : Upcoming(q, g)' <=> Upcoming(q, g)
BY DEF Upcoming, Before, OrderOf, Waiting, Workers

\* It is one guest's turn at a time.
LEMMA OneTurn ==
  ASSUME NEW r \in Run, NEW g \in Guest, NEW h \in Guest, Upcoming(r, g), Upcoming(r, h)
  PROVE  g = h
<1>1. OrderOf(r, g) \in Int /\ OrderOf(r, h) \in Int /\ g \in Nat /\ h \in Nat
  BY BulkAssumption DEF OrderOf
<1>2. g # h => Before(r, g, h) /\ Before(r, h, g)
  BY DEF Upcoming
<1>3. QED
  BY <1>1, <1>2 DEF Before

\* A step of one run leaves the others alone.
LEMMA OtherRuns ==
  ASSUME NEW q \in Run, RunOK(q), kind' = kind, reached'[q] = reached[q],
         pc'[q] = pc[q], work'[q] = work[q], seen'[q] = seen[q], sweep'[q] = sweep[q],
         task'[q] = task[q], failed'[q] = failed[q], unknown'[q] = unknown[q]
  PROVE  RunOK(q)'
<1>1. Workers(q)' = Workers(q) /\ Waiting(q)' = Waiting(q) /\ Reported(q)' = Reported(q)
  BY DEF Workers, Waiting, Reported
<1>2. Failures(q)' = Failures(q) /\ (Room(q)' <=> Room(q))
  BY <1>1 DEF Failures, Room
<1>3. Slots(q)' /\ Tasks(q)'
  BY <1>1, <1>2 DEF RunOK, Slots, Tasks
<1>4. Reports(q)'
  BY <1>1, <1>2 DEF RunOK, Reports
<1>5. Honest(q)'
  BY SameTurns DEF RunOK, Honest, Asked, Skips
<1>6. QED
  BY <1>3, <1>4, <1>5 DEF RunOK

\* A guest that a run is done with is one of the waiting or of the workers no more.
LEMMA OverKeeps ==
  ASSUME Typed, NEW r \in Run, NEW g \in Guest, Over(r, g)
  PROVE  /\ work' \in [Run -> [Guest -> Work]]
         /\ \A q \in Run \ {r} : work'[q] = work[q]
         /\ work'[r][g] = "over" /\ \A h \in Guest \ {g} : work'[r][h] = work[r][h]
         /\ Workers(r)' = Workers(r) \ {g} /\ Waiting(r)' = Waiting(r) \ {g}
         /\ Cardinality(Workers(r)') <= Cardinality(Workers(r))
<1>1. /\ work' \in [Run -> [Guest -> Work]]
      /\ \A q \in Run \ {r} : work'[q] = work[q]
      /\ work'[r][g] = "over" /\ \A h \in Guest \ {g} : work'[r][h] = work[r][h]
  BY DEF Typed, Over, Work
<1>2. Workers(r)' = Workers(r) \ {g} /\ Waiting(r)' = Waiting(r) \ {g}
  BY <1>1 DEF Workers, Waiting
<1>3. Cardinality(Workers(r)') <= Cardinality(Workers(r))
  BY <1>2, FewerWorkers
<1>4. QED
  BY <1>1, <1>2, <1>3

\* The slots that are free stay free.
LEMMA OverSlots ==
  ASSUME Typed, NEW r \in Run, NEW g \in Guest, Slots(r), Over(r, g), pc'[r] # "asked"
  PROVE  Slots(r)'
<1>1. Cardinality(Workers(r)') <= Cardinality(Workers(r))
  BY OverKeeps
<1>2. Cardinality(Workers(r)) \in Nat /\ Cardinality(Workers(r)') \in Nat
  <2>1. Workers(r)' \subseteq Workers(r)
    BY OverKeeps
  <2>2. QED
    BY <2>1, WorkersAreFinite, FS_Subset, FS_CardinalityType
<1>3. Cardinality(Workers(r)') <= MaxWorkers
  BY <1>1, <1>2, BulkAssumption DEF Slots
<1>4. QED
  BY <1>3 DEF Slots

\* A guest that a run is done with has no task, or one that has ended, or one that the run
\* has lost.
LEMMA OverTasks ==
  ASSUME Typed, NEW r \in Run, NEW g \in Guest, Tasks(r), Over(r, g),
         sweep'[r] \subseteq sweep[r], g \notin sweep'[r], pc'[r] # "done",
         pc'[r] # "sweep" => sweep'[r] = {},
         \A h \in Guest \ {g} : task'[r][h] = task[r][h] /\ (h \in unknown'[r] <=> h \in unknown[r]),
         task'[r][g] = "running" => g \in unknown'[r]
  PROVE  Tasks(r)'
<1>1. sweep'[r] \subseteq Workers(r)'
  BY OverKeeps DEF Tasks
<1>2. ASSUME NEW h \in Guest
      PROVE  /\ work'[r][h] = "waiting" => task'[r][h] = "none"
             /\ work'[r][h] = "worker" => task'[r][h] # "none"
             /\ h \in unknown'[r] => work'[r][h] = "over"
             /\ work'[r][h] = "over" /\ task'[r][h] = "running" => h \in unknown'[r]
  <2>1. CASE h = g
    BY <2>1, OverKeeps
  <2>2. CASE h # g
    BY <2>2, OverKeeps DEF Tasks
  <2>3. QED
    BY <2>1, <2>2
<1>3. QED
  BY <1>1, <1>2 DEF Tasks

\* A guest whose task failed, could not be started or got lost is dealt with, and reported.
LEMMA OverAndReported ==
  ASSUME Typed, NEW r \in Run, NEW g \in Guest, RunOK(r), work[r][g] # "over",
         Over(r, g), Fail(r, g), UNCHANGED <<kind, reached>>,
         sweep'[r] \subseteq sweep[r], g \notin sweep'[r], pc'[r] \notin {"asked", "done"},
         pc'[r] # "sweep" => sweep'[r] = {},
         \A h \in Guest \ {g} : task'[r][h] = task[r][h] /\ (h \in unknown'[r] <=> h \in unknown[r]),
         task'[r][g] \in {"running", "ok"} => g \in unknown'[r],
         g \in unknown'[r] \/ task'[r][g] = "error",
         task'[r][g] = "ok" => task[r][g] = "ok"
  PROVE  RunOK(r)'
<1>1. Slots(r)'
  BY OverSlots DEF RunOK
<1>2. Tasks(r)'
  BY OverTasks DEF RunOK
<1>3. Reports(r)'
  <2>1. kind[r] \in ClusterKind => g \notin Reported(r)
    BY DEF RunOK, Reports, Failures
  <2>2. Cardinality(Reported(r)) = Len(failed[r])
    BY DEF RunOK, Reports
  <2>3. /\ Cardinality(Reported(r)') = Len(failed'[r])
        /\ kind[r] \in ClusterKind => Reported(r)' = Reported(r) \cup {g}
    BY <2>1, <2>2, FailReports
  <2>4. Failures(r)' = Failures(r) \cup {g}
    BY OverKeeps DEF Failures
  <2>5. QED
    BY <2>3, <2>4 DEF RunOK, Reports
<1>4. Honest(r)'
  <2>1. \A h \in Guest : ~Asked(r, h)'
    BY DEF Asked
  <2>2. \A h \in Guest : task'[r][h] = "ok" => h \in reached[r] \cup HaManaged
    BY DEF RunOK, Honest
  <2>3. \A h \in Guest : work'[r][h] = "over" /\ task'[r][h] = "none" /\ h \notin unknown'[r]
                          /\ kind[r] \in ClusterKind => h \in reached[r]
    BY OverKeeps DEF RunOK, Honest
  <2>4. QED
    BY <2>1, <2>2, <2>3 DEF RunOK, Honest
<1>5. QED
  BY <1>1, <1>2, <1>3, <1>4 DEF RunOK

-----------------------------------------------------------------------------
(***************************************************************************)
(* The invariant.                                                          *)
(***************************************************************************)

\* It holds initially.
LEMMA InitIInv == Init => IInv
<1> SUFFICES ASSUME Init PROVE IInv
  OBVIOUS
<1>1. Typed
  <2>1. failed \in [Run -> Seq(Guest)]
    BY DEF Init
  <2>2. QED
    BY <2>1, BulkAssumption DEF Init, Typed, Work, Task, Reading
<1>2. ASSUME NEW r \in Run PROVE RunOK(r)
  <2>1. Workers(r) = {}
    BY DEF Init, Workers
  <2>2. Reported(r) = {} /\ Len(failed[r]) = 0
    BY DEF Init, Reported
  <2>3. Slots(r)
    BY <2>1, FS_EmptySet, BulkAssumption DEF Init, Slots
  <2>4. Tasks(r)
    BY <2>1 DEF Init, Tasks
  <2>5. Reports(r)
    BY <2>2, FS_EmptySet DEF Init, Reports, Failures
  <2>6. Honest(r)
    BY DEF Init, Honest, Asked
  <2>7. QED
    BY <2>3, <2>4, <2>5, <2>6 DEF RunOK
<1>3. QED
  BY <1>1, <1>2 DEF IInv

\* Asking about a guest finds a free slot, and its status as it is at that moment.
LEMMA AskKeepsIInv ==
  ASSUME IInv, NEW r \in Run, NEW g \in Guest, Ask(r, g)
  PROVE  IInv'
<1> USE DEF guestVars, taskVars
<1>0. Typed /\ RunOK(r) /\ \A q \in Run : RunOK(q)
  BY DEF IInv
<1>1. Upcoming(r, g) /\ pc[r] = "next" /\ Room(r)
  BY DEF Ask
<1>2. /\ pc' \in [Run -> {"next", "asked", "sweep", "done", "aborted"}]
      /\ pc'[r] = "asked" /\ \A q \in Run \ {r} : pc'[q] = pc[q]
  BY <1>0 DEF Ask, Typed
<1>3. /\ seen' \in [Run -> Reading]
      /\ seen'[r] \in {status[g], "unknown"} /\ \A q \in Run \ {r} : seen'[q] = seen[q]
  BY <1>0 DEF Ask, Answers, Typed, Reading
<1>4. /\ reached' \in [Run -> SUBSET Guest]
      /\ reached[r] \subseteq reached'[r] /\ \A q \in Run \ {r} : reached'[q] = reached[q]
      /\ status[g] \in Accepted(kind[r], g) => g \in reached'[r]
  BY <1>0 DEF Ask, Typed
<1>5. UNCHANGED <<status, changes, kind, work, sweep, task, resumes, failed, unknown>>
  BY DEF Ask
<1>6. Typed'
  BY <1>0, <1>2, <1>3, <1>4, <1>5 DEF Typed
<1>7. Workers(r)' = Workers(r) /\ Waiting(r)' = Waiting(r)
  BY <1>5 DEF Workers, Waiting
<1>8. Slots(r)' /\ Tasks(r)'
  BY <1>0, <1>1, <1>2, <1>5, <1>7 DEF RunOK, Slots, Tasks, Room
<1>9. Reports(r)'
  BY <1>0, <1>5 DEF RunOK, Reports, Reported, Failures
<1>10. Honest(r)'
  <2>1. ASSUME NEW h \in Guest, Asked(r, h)', (Skips(r, h) \/ kind[r] = "migrate")',
               kind[r] \in ClusterKind
        PROVE  h \in reached'[r]
    <3>1. h = g
      BY <1>1, <1>5, <2>1, SameTurns, OneTurn DEF Asked
    <3>2. status[g] \in Status /\ kind'[r] = kind[r]
      BY <1>0, <1>5 DEF Typed
    <3>3. status[g] \in Accepted(kind[r], g)
      BY <1>3, <2>1, <3>1, <3>2 DEF Skips, Accepted, Wanted, ClusterKind, Status
    <3>4. QED
      BY <1>4, <3>1, <3>3
  <2>2. QED
    BY <1>0, <1>4, <1>5, <2>1 DEF RunOK, Honest
<1>11. ASSUME NEW q \in Run \ {r} PROVE RunOK(q)'
  BY <1>0, <1>2, <1>3, <1>4, <1>5, OtherRuns
<1>12. QED
  BY <1>6, <1>8, <1>9, <1>10, <1>11 DEF IInv, RunOK

\* What having the answer means for where a run is.
LEMMA AnsweredMoves ==
  ASSUME Typed, NEW r \in Run, NEW g \in Guest, Slots(r), Tasks(r), Answered(r, g)
  PROVE  /\ work[r][g] = "waiting" /\ task[r][g] = "none" /\ g \notin unknown[r]
         /\ pc[r] = "asked" /\ Upcoming(r, g) /\ Room(r) /\ sweep[r] = {}
         /\ pc' \in [Run -> {"next", "asked", "sweep", "done", "aborted"}]
         /\ pc'[r] = "next" /\ \A q \in Run \ {r} : pc'[q] = pc[q]
         /\ seen' \in [Run -> Reading] /\ \A q \in Run \ {r} : seen'[q] = seen[q]
<1>1. /\ work[r][g] = "waiting" /\ pc[r] = "asked" /\ Upcoming(r, g)
  BY DEF Answered, Asked, Upcoming, Waiting
<1>2. task[r][g] = "none" /\ g \notin unknown[r] /\ Room(r) /\ sweep[r] = {}
  BY <1>1 DEF Slots, Tasks
<1>3. /\ pc' \in [Run -> {"next", "asked", "sweep", "done", "aborted"}]
      /\ pc'[r] = "next" /\ \A q \in Run \ {r} : pc'[q] = pc[q]
  BY DEF Answered, Typed
<1>4. seen' \in [Run -> Reading] /\ \A q \in Run \ {r} : seen'[q] = seen[q]
  BY DEF Answered, Typed, Reading
<1>5. QED
  BY <1>1, <1>2, <1>3, <1>4

\* A guest is skipped because of what was read, which was an accepted state then.
LEMMA SkipKeepsIInv ==
  ASSUME IInv, NEW r \in Run, NEW g \in Guest, Skip(r, g)
  PROVE  IInv'
<1> USE DEF guestVars, taskVars
<1>0. Typed /\ RunOK(r) /\ Slots(r) /\ Tasks(r) /\ \A q \in Run : RunOK(q)
  BY DEF IInv, RunOK
<1>1. Answered(r, g) /\ Over(r, g) /\ (Skips(r, g) \/ kind[r] = "migrate")
  BY DEF Skip
<1>2. UNCHANGED <<status, changes, kind, sweep, task, resumes, failed, unknown, reached>>
  BY DEF Skip
<1>3. kind[r] \in ClusterKind => g \in reached[r]
  <2>1. Asked(r, g)
    BY <1>1 DEF Answered
  <2>2. QED
    BY <1>0, <1>1, <2>1 DEF RunOK, Honest
<1>4. Typed'
  BY <1>0, <1>1, <1>2, AnsweredMoves, OverKeeps DEF Typed
<1>5. Slots(r)'
  BY <1>0, <1>1, AnsweredMoves, OverSlots
<1>6. Tasks(r)'
  BY <1>0, <1>1, <1>2, AnsweredMoves, OverTasks
<1>7. Reports(r)'
  <2>1. /\ work[r][g] = "waiting" /\ task[r][g] = "none" /\ g \notin unknown[r]
        /\ work'[r][g] = "over" /\ \A h \in Guest \ {g} : work'[r][h] = work[r][h]
    BY <1>0, <1>1, AnsweredMoves, OverKeeps
  <2>2. Failures(r)' = Failures(r)
    BY <1>2, <2>1 DEF Failures
  <2>3. QED
    BY <1>0, <1>2, <2>2 DEF RunOK, Reports, Reported
<1>8. Honest(r)'
  <2>1. \A h \in Guest : ~Asked(r, h)'
    BY <1>0, <1>1, AnsweredMoves DEF Asked
  <2>2. QED
    BY <1>0, <1>1, <1>2, <1>3, <2>1, OverKeeps DEF RunOK, Honest
<1>9. ASSUME NEW q \in Run \ {r} PROVE RunOK(q)'
  BY <1>0, <1>1, <1>2, AnsweredMoves, OverKeeps, OtherRuns
<1>10. QED
  BY <1>4, <1>5, <1>6, <1>7, <1>8, <1>9 DEF IInv, RunOK

\* A task takes the free slot.
LEMMA PostKeepsIInv ==
  ASSUME IInv, NEW r \in Run, NEW g \in Guest, Post(r, g)
  PROVE  IInv'
<1> USE DEF guestVars
<1>0. Typed /\ RunOK(r) /\ Slots(r) /\ Tasks(r) /\ \A q \in Run : RunOK(q)
  BY DEF IInv, RunOK
<1>1. Answered(r, g) /\ UNCHANGED <<status, changes, kind, sweep, failed, unknown, reached>>
  BY DEF Post
<1>2. /\ work' \in [Run -> [Guest -> Work]]
      /\ work'[r][g] = "worker" /\ \A h \in Guest \ {g} : work'[r][h] = work[r][h]
      /\ \A q \in Run \ {r} : work'[q] = work[q]
  BY <1>0 DEF Typed, Post, Work
<1>3. /\ task' \in [Run -> [Guest -> Task]]
      /\ task'[r][g] = "running" /\ \A h \in Guest \ {g} : task'[r][h] = task[r][h]
      /\ \A q \in Run \ {r} : task'[q] = task[q]
  BY <1>0 DEF Typed, Post, Task
<1>4. resumes' \in [Run -> SUBSET Guest]
  BY <1>0 DEF Typed, Post
<1>5. Typed'
  BY <1>0, <1>1, <1>2, <1>3, <1>4, AnsweredMoves DEF Typed
<1>6. Workers(r)' = Workers(r) \cup {g} /\ g \notin Workers(r)
  BY <1>0, <1>1, <1>2, AnsweredMoves DEF Workers
<1>7. Slots(r)'
  <2>1. Cardinality(Workers(r)') = Cardinality(Workers(r)) + 1
    BY <1>6, WorkersAreFinite, FS_AddElement
  <2>2. Room(r) /\ pc'[r] = "next"
    BY <1>0, <1>1, AnsweredMoves
  <2>3. QED
    BY <2>1, <2>2, WorkersAreFinite, BulkAssumption DEF Slots, Room
<1>8. Tasks(r)'
  <2>1. sweep[r] = {} /\ pc'[r] = "next" /\ g \notin unknown[r]
    BY <1>0, <1>1, AnsweredMoves
  <2>2. QED
    BY <1>0, <1>1, <1>2, <1>3, <2>1 DEF Tasks
<1>9. Reports(r)'
  <2>0. work[r][g] = "waiting"
    BY <1>0, <1>1, AnsweredMoves
  <2>1. Failures(r)' = Failures(r)
    BY <1>1, <1>2, <1>3, <2>0 DEF Failures
  <2>2. QED
    BY <1>0, <1>1, <2>1 DEF RunOK, Reports, Reported
<1>10. Honest(r)'
  <2>1. \A h \in Guest : ~Asked(r, h)'
    BY <1>0, <1>1, AnsweredMoves DEF Asked
  <2>2. QED
    BY <1>0, <1>1, <1>2, <1>3, <2>1 DEF RunOK, Honest
<1>11. ASSUME NEW q \in Run \ {r} PROVE RunOK(q)'
  BY <1>0, <1>1, <1>2, <1>3, AnsweredMoves, OtherRuns
<1>12. QED
  BY <1>5, <1>7, <1>8, <1>9, <1>10, <1>11 DEF IInv, RunOK

\* A guest whose task could not be started is reported.
LEMMA PostFailsKeepsIInv ==
  ASSUME IInv, NEW r \in Run, NEW g \in Guest, PostFails(r, g)
  PROVE  IInv'
<1> USE DEF guestVars
<1>0. Typed /\ RunOK(r) /\ Slots(r) /\ Tasks(r) /\ \A q \in Run : RunOK(q)
  BY DEF IInv, RunOK
<1>1. Answered(r, g) /\ Over(r, g) /\ Fail(r, g)
  BY DEF PostFails
<1>2. /\ unknown' \in [Run -> SUBSET Guest]
      /\ unknown'[r] = unknown[r] \cup {g}
      /\ \A q \in Run \ {r} : unknown'[q] = unknown[q]
  BY <1>0 DEF PostFails, Typed
<1>3. /\ task' \in [Run -> [Guest -> Task]] /\ resumes' \in [Run -> SUBSET Guest]
      /\ task'[r][g] \in {"none", "running"}
      /\ \A h \in Guest \ {g} : task'[r][h] = task[r][h]
      /\ \A q \in Run \ {r} : task'[q] = task[q]
  <2>1. CASE UNCHANGED taskVars
    BY <1>0, <1>1, <2>1, AnsweredMoves DEF Typed, taskVars
  <2>2. CASE /\ task' = [task EXCEPT ![r][g] = "running"]
             /\ resumes' = IF Resumes(r) THEN [resumes EXCEPT ![r] = @ \cup {g}] ELSE resumes
    <3>1. resumes' \in [Run -> SUBSET Guest]
      BY <1>0, <2>2 DEF Typed
    <3>2. QED
      BY <1>0, <2>2, <3>1 DEF Typed, Task
  <2>3. QED
    BY <2>1, <2>2 DEF PostFails
<1>4. UNCHANGED <<status, changes, kind, sweep, reached>>
  BY DEF PostFails
<1>5. RunOK(r)'
  <2>1. work[r][g] # "over" /\ sweep'[r] = {} /\ sweep[r] = {} /\ pc'[r] = "next"
    BY <1>0, <1>1, <1>4, AnsweredMoves
  <2>2. \A h \in Guest \ {g} : h \in unknown'[r] <=> h \in unknown[r]
    BY <1>2
  <2>3. QED
    BY <1>0, <1>1, <1>2, <1>3, <1>4, <2>1, <2>2, OverAndReported
<1>6. /\ failed' \in [Run -> Seq(Guest)]
      /\ \A q \in Run \ {r} : failed'[q] = failed[q]
  <2>1. kind[r] \in ClusterKind => g \notin Reported(r)
    BY <1>0, <1>1, AnsweredMoves DEF RunOK, Reports, Failures
  <2>2. Cardinality(Reported(r)) = Len(failed[r])
    BY <1>0 DEF RunOK, Reports
  <2>3. QED
    BY <1>0, <1>1, <2>1, <2>2, FailReports
<1>7. Typed'
  BY <1>0, <1>1, <1>2, <1>3, <1>4, <1>6, AnsweredMoves, OverKeeps DEF Typed
<1>8. ASSUME NEW q \in Run \ {r} PROVE RunOK(q)'
  BY <1>0, <1>1, <1>2, <1>3, <1>4, <1>6, AnsweredMoves, OverKeeps, OtherRuns
<1>9. QED
  BY <1>5, <1>7, <1>8 DEF IInv

\* A run that aborts, begins a round or ends changes nothing but where it is.
LEMMA ControlKeepsIInv ==
  ASSUME IInv, NEW r \in Run,
         UNCHANGED <<guestVars, kind, work, seen, taskVars, failed, unknown, reached>>,
         pc' \in [Run -> {"next", "asked", "sweep", "done", "aborted"}],
         pc'[r] # "asked", pc'[r] = "done" => Waiting(r) = {} /\ Workers(r) = {},
         \A q \in Run \ {r} : pc'[q] = pc[q] /\ sweep'[q] = sweep[q],
         sweep' \in [Run -> SUBSET Guest], sweep'[r] \subseteq Workers(r),
         pc'[r] # "sweep" => sweep'[r] = {}
  PROVE  IInv'
<1> USE DEF guestVars, taskVars
<1>0. Typed /\ RunOK(r) /\ \A q \in Run : RunOK(q)
  BY DEF IInv
<1>1. Typed'
  BY <1>0 DEF Typed
<1>2. Workers(r)' = Workers(r) /\ Waiting(r)' = Waiting(r)
  BY DEF Workers, Waiting
<1>3. Slots(r)' /\ Tasks(r)'
  BY <1>0, <1>2 DEF RunOK, Slots, Tasks
<1>4. Reports(r)' /\ Honest(r)'
  BY <1>0 DEF RunOK, Reports, Reported, Failures, Honest, Asked, Skips
<1>5. ASSUME NEW q \in Run \ {r} PROVE RunOK(q)'
  BY <1>0, OtherRuns
<1>6. QED
  BY <1>1, <1>3, <1>4, <1>5 DEF IInv, RunOK
\* A run aborts only where it would ask about a guest.
LEMMA AbortKeepsIInv ==
  ASSUME IInv, NEW r \in Run, NEW g \in Guest, Abort(r, g)
  PROVE  IInv'
<1>1. Typed /\ Tasks(r)
  BY DEF IInv, RunOK
<1>2. /\ pc' \in [Run -> {"next", "asked", "sweep", "done", "aborted"}]
      /\ pc'[r] = "aborted" /\ \A q \in Run \ {r} : pc'[q] = pc[q]
  BY <1>1 DEF Abort, Typed
<1>3. sweep' = sweep /\ sweep[r] = {} /\ sweep \in [Run -> SUBSET Guest]
  BY <1>1 DEF Abort, Tasks, Typed
<1>4. UNCHANGED <<guestVars, kind, work, seen, taskVars, failed, unknown, reached>>
  BY DEF Abort
<1>5. QED
  BY <1>2, <1>3, <1>4, ControlKeepsIInv

\* A round is over the workers.
LEMMA LookKeepsIInv ==
  ASSUME IInv, NEW r \in Run, Look(r)
  PROVE  IInv'
<1>1. Typed
  BY DEF IInv
<1>2. /\ pc' \in [Run -> {"next", "asked", "sweep", "done", "aborted"}]
      /\ pc'[r] = "sweep" /\ \A q \in Run \ {r} : pc'[q] = pc[q]
  BY <1>1 DEF Look, Typed
<1>3. /\ sweep' \in [Run -> SUBSET Guest]
      /\ sweep'[r] = Workers(r) /\ \A q \in Run \ {r} : sweep'[q] = sweep[q]
  BY <1>1 DEF Look, Typed, Workers
<1>4. UNCHANGED <<guestVars, kind, work, seen, taskVars, failed, unknown, reached>>
  BY DEF Look
<1>5. QED
  BY <1>2, <1>3, <1>4, ControlKeepsIInv

\* A run ends with no guest waiting and no worker left.
LEMMA FinishKeepsIInv ==
  ASSUME IInv, NEW r \in Run, Finish(r)
  PROVE  IInv'
<1>1. Typed /\ Tasks(r)
  BY DEF IInv, RunOK
<1>2. /\ pc' \in [Run -> {"next", "asked", "sweep", "done", "aborted"}]
      /\ pc'[r] = "done" /\ \A q \in Run \ {r} : pc'[q] = pc[q]
  BY <1>1 DEF Finish, Typed
<1>3. sweep' = sweep /\ sweep[r] = {} /\ sweep \in [Run -> SUBSET Guest]
  BY <1>1 DEF Finish, Tasks, Typed
<1>4. /\ UNCHANGED <<guestVars, kind, work, seen, taskVars, failed, unknown, reached>>
      /\ Waiting(r) = {} /\ Workers(r) = {}
  BY DEF Finish
<1>5. QED
  BY <1>2, <1>3, <1>4, ControlKeepsIInv

\* What is looked at is a worker, and not looked at again in this round.
LEMMA LooksAtWorkers ==
  ASSUME Typed, NEW r \in Run, NEW g \in Guest, Tasks(r), LookedAt(r, g)
  PROVE  /\ work[r][g] = "worker"
         /\ sweep' \in [Run -> SUBSET Guest]
         /\ sweep'[r] \subseteq sweep[r] /\ g \notin sweep'[r]
         /\ pc' \in [Run -> {"next", "asked", "sweep", "done", "aborted"}]
         /\ pc'[r] \in {"next", "sweep"} /\ (pc'[r] # "sweep" => sweep'[r] = {})
         /\ \A q \in Run \ {r} : pc'[q] = pc[q] /\ sweep'[q] = sweep[q]
<1>1. CASE pc[r] = "sweep"
  <2>1. /\ g \in sweep[r] /\ sweep' = [sweep EXCEPT ![r] = @ \ {g}]
        /\ pc' = IF sweep[r] = {g} THEN [pc EXCEPT ![r] = "next"] ELSE pc
    BY <1>1 DEF LookedAt
  <2>2. work[r][g] = "worker"
    BY <2>1 DEF Tasks, Workers
  <2>3. /\ sweep' \in [Run -> SUBSET Guest] /\ sweep'[r] = sweep[r] \ {g}
        /\ \A q \in Run \ {r} : sweep'[q] = sweep[q]
    BY <2>1 DEF Typed
  <2>4. CASE sweep[r] = {g}
    BY <1>1, <2>1, <2>2, <2>3, <2>4 DEF Typed
  <2>5. CASE sweep[r] # {g}
    BY <1>1, <2>1, <2>2, <2>3, <2>5 DEF Typed
  <2>6. QED
    BY <2>4, <2>5
<1>2. CASE pc[r] # "sweep"
  BY <1>2 DEF LookedAt, Tasks, Workers, Typed
<1>3. QED
  BY <1>1, <1>2

\* A worker whose task still runs is left alone.
LEMMA BusyKeepsIInv ==
  ASSUME IInv, NEW r \in Run, NEW g \in Guest, Busy(r, g)
  PROVE  IInv'
<1>1. Typed /\ Tasks(r) /\ LookedAt(r, g)
  BY DEF IInv, RunOK, Busy
<1>2. sweep'[r] \subseteq Workers(r)
  BY <1>1, LooksAtWorkers DEF Tasks
<1>3. UNCHANGED <<guestVars, kind, work, seen, taskVars, failed, unknown, reached>>
  BY DEF Busy
<1>4. QED
  BY <1>1, <1>2, <1>3, LooksAtWorkers, ControlKeepsIInv

\* A worker whose task has ended is gone, and reported if the task failed.
LEMMA ReapKeepsIInv ==
  ASSUME IInv, NEW r \in Run, NEW g \in Guest, Reap(r, g)
  PROVE  IInv'
<1> USE DEF guestVars, taskVars
<1>0. Typed /\ RunOK(r) /\ Tasks(r) /\ \A q \in Run : RunOK(q)
  BY DEF IInv, RunOK
<1>1. LookedAt(r, g) /\ Over(r, g) /\ task[r][g] # "running"
  BY DEF Reap
<1>2. UNCHANGED <<status, changes, kind, seen, task, resumes, unknown, reached>>
  BY DEF Reap
<1>3. work[r][g] = "worker" /\ g \notin unknown[r] /\ task[r][g] \in {"ok", "error"}
  <2>1. work[r][g] = "worker"
    BY <1>0, <1>1, LooksAtWorkers
  <2>2. g \notin unknown[r] /\ task[r][g] # "none"
    BY <1>0, <2>1 DEF Tasks
  <2>3. task[r][g] \in Task
    BY <1>0 DEF Typed
  <2>4. QED
    BY <1>1, <2>1, <2>2, <2>3 DEF Task
<1>4. CASE task[r][g] = "error"
  <2>1. Fail(r, g)
    BY <1>4 DEF Reap
  <2>2. RunOK(r)'
    BY <1>0, <1>1, <1>2, <1>3, <1>4, <2>1, LooksAtWorkers, OverAndReported
  <2>3. /\ failed' \in [Run -> Seq(Guest)]
        /\ \A q \in Run \ {r} : failed'[q] = failed[q]
    <3>1. kind[r] \in ClusterKind => g \notin Reported(r)
      BY <1>0, <1>3 DEF RunOK, Reports, Failures
    <3>2. Cardinality(Reported(r)) = Len(failed[r])
      BY <1>0 DEF RunOK, Reports
    <3>3. QED
      BY <1>0, <2>1, <3>1, <3>2, FailReports
  <2>4. Typed'
    BY <1>0, <1>1, <1>2, <2>3, LooksAtWorkers, OverKeeps DEF Typed
  <2>5. ASSUME NEW q \in Run \ {r} PROVE RunOK(q)'
    BY <1>0, <1>1, <1>2, <2>3, LooksAtWorkers, OverKeeps, OtherRuns
  <2>6. QED
    BY <2>2, <2>4, <2>5 DEF IInv
<1>5. CASE task[r][g] = "ok"
  <2>1. failed' = failed
    BY <1>5 DEF Reap
  <2>2. Typed'
    BY <1>0, <1>1, <1>2, <2>1, LooksAtWorkers, OverKeeps DEF Typed
  <2>3. Slots(r)' /\ Tasks(r)'
    BY <1>0, <1>1, <1>2, <1>3, LooksAtWorkers, OverSlots, OverTasks DEF RunOK
  <2>4. Reports(r)'
    <3>1. Failures(r)' = Failures(r)
      BY <1>0, <1>1, <1>2, <1>3, <1>5, OverKeeps DEF Failures
    <3>2. QED
      BY <1>0, <1>2, <2>1, <3>1 DEF RunOK, Reports, Reported
  <2>5. Honest(r)'
    <3>1. \A h \in Guest : ~Asked(r, h)'
      BY <1>0, <1>1, LooksAtWorkers DEF Asked
    <3>2. QED
      BY <1>0, <1>1, <1>2, <1>5, <3>1, OverKeeps DEF RunOK, Honest
  <2>6. ASSUME NEW q \in Run \ {r} PROVE RunOK(q)'
    BY <1>0, <1>1, <1>2, <2>1, LooksAtWorkers, OverKeeps, OtherRuns
  <2>7. QED
    BY <2>2, <2>3, <2>4, <2>5, <2>6 DEF IInv, RunOK
<1>6. QED
  BY <1>3, <1>4, <1>5

\* A worker that is given up is reported.
LEMMA LoseKeepsIInv ==
  ASSUME IInv, NEW r \in Run, NEW g \in Guest, Lose(r, g)
  PROVE  IInv'
<1> USE DEF guestVars, taskVars
<1>0. Typed /\ RunOK(r) /\ Tasks(r) /\ \A q \in Run : RunOK(q)
  BY DEF IInv, RunOK
<1>1. LookedAt(r, g) /\ Over(r, g) /\ Fail(r, g) /\ work[r][g] = "worker"
  BY <1>0, LooksAtWorkers DEF Lose
<1>2. UNCHANGED <<status, changes, kind, seen, task, resumes, reached>>
  BY DEF Lose
<1>3. /\ unknown' \in [Run -> SUBSET Guest]
      /\ unknown'[r] = unknown[r] \cup {g}
      /\ \A q \in Run \ {r} : unknown'[q] = unknown[q]
  BY <1>0 DEF Lose, Typed
<1>4. RunOK(r)'
  BY <1>0, <1>1, <1>2, <1>3, LooksAtWorkers, OverAndReported
<1>5. /\ failed' \in [Run -> Seq(Guest)]
      /\ \A q \in Run \ {r} : failed'[q] = failed[q]
  <2>1. kind[r] \in ClusterKind => g \notin Reported(r)
    BY <1>0, <1>1 DEF RunOK, Reports, Failures
  <2>2. Cardinality(Reported(r)) = Len(failed[r])
    BY <1>0 DEF RunOK, Reports
  <2>3. QED
    BY <1>0, <1>1, <2>1, <2>2, FailReports
<1>6. Typed'
  BY <1>0, <1>1, <1>2, <1>3, <1>5, LooksAtWorkers, OverKeeps DEF Typed
<1>7. ASSUME NEW q \in Run \ {r} PROVE RunOK(q)'
  BY <1>0, <1>1, <1>2, <1>3, <1>5, LooksAtWorkers, OverKeeps, OtherRuns
<1>8. QED
  BY <1>4, <1>6, <1>7 DEF IInv
\* A task that succeeds leaves its guest as the run wants it.
LEMMA WantedIsAccepted ==
  ASSUME NEW k \in Kind, NEW g
  PROVE  Wanted(k) \subseteq Accepted(k, g) /\ Wanted(k) \subseteq Status
BY BulkAssumption DEF Wanted, Accepted, Status, ClusterKind, NodeKind

\* The states that a guest has been in are kept.
LEMMA SetStatusKeeps ==
  ASSUME Typed, NEW g \in Guest, NEW s \in Status, SetStatus(g, s)
  PROVE  /\ status' \in [Guest -> Status] /\ reached' \in [Run -> SUBSET Guest]
         /\ \A q \in Run :
              /\ reached[q] \subseteq reached'[q]
              /\ s \in Accepted(kind[q], g) /\ g \notin Waiting(q) => g \in reached'[q]
<1>1. status' \in [Guest -> Status]
  BY DEF SetStatus, Typed
<1>2. ASSUME NEW q \in Run
      PROVE  /\ reached'[q] \in SUBSET Guest
             /\ reached[q] \subseteq reached'[q]
             /\ s \in Accepted(kind[q], g) /\ g \notin Waiting(q) => g \in reached'[q]
  BY DEF SetStatus, TurnCame, Typed
<1>3. reached' \in [Run -> SUBSET Guest]
  <2>1. reached' = [q \in Run |-> reached'[q]]
    BY DEF SetStatus
  <2>2. QED
    BY <1>2, <2>1
<1>4. QED
  BY <1>1, <1>2, <1>3

\* What guests and tasks do changes nothing in the runs but what these will find.
LEMMA GuestsKeepIInv ==
  ASSUME IInv, UNCHANGED <<kind, loopVars, resumes, failed, unknown>>,
         status' \in [Guest -> Status], changes' \in 0..MaxChanges,
         task' \in [Run -> [Guest -> Task]], reached' \in [Run -> SUBSET Guest],
         \A q \in Run : reached[q] \subseteq reached'[q],
         \A q \in Run, h \in Guest :
           \/ task'[q][h] = task[q][h]
           \/ /\ task[q][h] = "running" /\ task'[q][h] \in {"ok", "error"}
              /\ task'[q][h] = "ok" => h \in reached'[q] \cup HaManaged
  PROVE  IInv'
<1> USE DEF loopVars
<1>1. Typed'
  BY DEF IInv, Typed
<1>2. ASSUME NEW q \in Run PROVE RunOK(q)'
  <2>1. RunOK(q)
    BY DEF IInv
  <2>2. Workers(q)' = Workers(q) /\ Waiting(q)' = Waiting(q) /\ Reported(q)' = Reported(q)
    BY DEF Workers, Waiting, Reported
  <2>3. Slots(q)'
    BY <2>1, <2>2 DEF RunOK, Slots, Room
  <2>4. Tasks(q)'
    BY <2>1, <2>2 DEF RunOK, Tasks
  <2>5. Reports(q)'
    <3>1. Failures(q)' = Failures(q)
      BY <2>1 DEF RunOK, Tasks, Failures
    <3>2. QED
      BY <2>1, <2>2, <3>1 DEF RunOK, Reports
  <2>6. Honest(q)'
    <3>1. \A h \in Guest : task'[q][h] = "ok" => h \in reached'[q] \cup HaManaged
      BY <2>1 DEF RunOK, Honest
    <3>2. \A h \in Guest : work'[q][h] = "over" /\ task'[q][h] = "none" /\ h \notin unknown'[q]
                            /\ kind[q] \in ClusterKind => h \in reached'[q]
      BY <2>1 DEF RunOK, Honest
    <3>3. \A h \in Guest : (Asked(q, h)' <=> Asked(q, h)) /\ (Skips(q, h)' <=> Skips(q, h))
      BY SameTurns DEF Asked, Skips
    <3>4. QED
      BY <2>1, <3>1, <3>2, <3>3 DEF RunOK, Honest
  <2>7. QED
    BY <2>3, <2>4, <2>5, <2>6 DEF RunOK
<1>3. QED
  BY <1>1, <1>2 DEF IInv

\* A task that succeeds leaves its guest as the run wants it, or asks the HA manager to.
LEMMA TaskSucceedsKeepsIInv ==
  ASSUME IInv, NEW r \in Run, NEW g \in Guest, TaskSucceeds(r, g)
  PROVE  IInv'
<1>0. Typed /\ Tasks(r)
  BY DEF IInv, RunOK
<1>1. PICK s \in Outcomes(r, g) : SetStatus(g, s)
  BY DEF TaskSucceeds
<1>2. s \in Status /\ (s \in Accepted(kind[r], g) \/ g \in HaManaged)
  <2>1. kind[r] \in Kind /\ status[g] \in Status
    BY <1>0 DEF Typed
  <2>2. s \in Wanted(kind[r]) \/ (g \in HaManaged /\ s = status[g])
    BY <1>1 DEF Outcomes
  <2>3. QED
    BY <2>1, <2>2, WantedIsAccepted
<1>3. task[r][g] = "running" /\ g \notin Waiting(r)
  BY <1>0 DEF TaskSucceeds, Tasks, Waiting
<1>4. /\ status' \in [Guest -> Status] /\ reached' \in [Run -> SUBSET Guest]
      /\ \A q \in Run : reached[q] \subseteq reached'[q]
      /\ g \in reached'[r] \cup HaManaged
  BY <1>0, <1>1, <1>2, <1>3, SetStatusKeeps
<1>5. /\ task' \in [Run -> [Guest -> Task]] /\ task'[r][g] = "ok"
      /\ \A q \in Run, h \in Guest : q # r \/ h # g => task'[q][h] = task[q][h]
  BY <1>0 DEF TaskSucceeds, Typed, Task
<1>6. UNCHANGED <<kind, loopVars, resumes, failed, unknown>> /\ changes' \in 0..MaxChanges
  BY <1>0 DEF TaskSucceeds, Typed
<1>7. QED
  BY <1>3, <1>4, <1>5, <1>6, GuestsKeepIInv

\* A task fails.
LEMMA TaskFailsKeepsIInv ==
  ASSUME IInv, NEW r \in Run, NEW g \in Guest, TaskFails(r, g)
  PROVE  IInv'
<1>0. Typed
  BY DEF IInv
<1>1. UNCHANGED <<kind, loopVars, resumes, failed, unknown, reached, status, changes>>
  BY DEF TaskFails, guestVars
<1>2. /\ task' \in [Run -> [Guest -> Task]]
      /\ task[r][g] = "running" /\ task'[r][g] = "error"
      /\ \A q \in Run, h \in Guest : q # r \/ h # g => task'[q][h] = task[q][h]
  BY <1>0 DEF TaskFails, Typed, Task
<1>3. status' \in [Guest -> Status] /\ changes' \in 0..MaxChanges /\ reached' \in [Run -> SUBSET Guest]
  BY <1>0, <1>1 DEF Typed
<1>4. QED
  BY <1>1, <1>2, <1>3, GuestsKeepIInv

\* Somebody else changes a guest.
LEMMA OthersChangeKeepsIInv ==
  ASSUME IInv, NEW g \in Guest, OthersChange(g)
  PROVE  IInv'
<1>0. Typed
  BY DEF IInv
<1>1. PICK s \in Status : SetStatus(g, s)
  BY DEF OthersChange
<1>2. UNCHANGED <<kind, loopVars, task, resumes, failed, unknown>>
  BY DEF OthersChange, taskVars
<1>3. /\ status' \in [Guest -> Status] /\ reached' \in [Run -> SUBSET Guest]
      /\ \A q \in Run : reached[q] \subseteq reached'[q]
  BY <1>0, <1>1, SetStatusKeeps
<1>4. changes' \in 0..MaxChanges
  BY <1>0, BulkAssumption DEF OthersChange, Typed
<1>5. task' \in [Run -> [Guest -> Task]]
  BY <1>0, <1>2 DEF Typed
<1>6. QED
  BY <1>2, <1>3, <1>4, <1>5, GuestsKeepIInv

\* Every step keeps the invariant.
LEMMA NextIInv == IInv /\ [Next]_vars => IInv'
<1> SUFFICES ASSUME IInv, [Next]_vars PROVE IInv'
  OBVIOUS
<1>1. ASSUME NEW r \in Run, RunStep(r) PROVE IInv'
  <2>1. ASSUME NEW g \in Guest,
               \/ Ask(r, g) \/ Skip(r, g) \/ Post(r, g) \/ PostFails(r, g) \/ Abort(r, g)
               \/ Busy(r, g) \/ Reap(r, g) \/ Lose(r, g)
        PROVE  IInv'
    BY <2>1, AskKeepsIInv, SkipKeepsIInv, PostKeepsIInv, PostFailsKeepsIInv, AbortKeepsIInv,
       BusyKeepsIInv, ReapKeepsIInv, LoseKeepsIInv
  <2>2. CASE Look(r) \/ Finish(r)
    BY <2>2, LookKeepsIInv, FinishKeepsIInv
  <2>3. QED
    BY <1>1, <2>1, <2>2 DEF RunStep
<1>2. ASSUME NEW r \in Run, NEW g \in Guest, TaskSucceeds(r, g) \/ TaskFails(r, g) PROVE IInv'
  BY <1>2, TaskSucceedsKeepsIInv, TaskFailsKeepsIInv
<1>3. ASSUME NEW g \in Guest, OthersChange(g) PROVE IInv'
  BY <1>3, OthersChangeKeepsIInv
<1>4. CASE UNCHANGED vars
  <2>1. UNCHANGED <<kind, loopVars, resumes, failed, unknown, status, changes, task, reached>>
    BY <1>4 DEF vars, guestVars, taskVars
  <2>2. /\ status' \in [Guest -> Status] /\ changes' \in 0..MaxChanges
        /\ task' \in [Run -> [Guest -> Task]] /\ reached' \in [Run -> SUBSET Guest]
    BY <2>1 DEF IInv, Typed
  <2>3. QED
    BY <2>1, <2>2, GuestsKeepIInv
<1>5. QED
  BY <1>1, <1>2, <1>3, <1>4 DEF Next

-----------------------------------------------------------------------------
(***************************************************************************)
(* The theorems.                                                           *)
(***************************************************************************)

\* The invariant holds of every state.
THEOREM Invariance == Spec => []IInv
<1>1. Init => IInv
  BY InitIInv
<1>2. IInv /\ [Next]_vars => IInv'
  BY NextIInv
<1>3. QED
  BY <1>1, <1>2, PTL DEF Spec

\* Every variable stays in its domain, and no run has more workers than slots.
THEOREM TypeCorrect == Spec => []TypeOK
<1>1. IInv => TypeOK
  BY IInvIsStronger
<1>2. QED
  BY <1>1, Invariance, PTL

\* What a run of the cluster reports is exactly what failed or got lost, each guest once.
THEOREM ReportsAreExact == Spec => []ReportIsExact
<1>1. IInv => ReportIsExact
  BY IInvIsStronger
<1>2. QED
  BY <1>1, Invariance, PTL

\* What it does not report has been in an accepted state since its turn came, or is the HA
\* manager's now.
THEOREM ReportsAreHonest == Spec => []ReportIsHonest
<1>1. IInv => ReportIsHonest
  BY IInvIsStronger
<1>2. QED
  BY <1>1, Invariance, PTL
-----------------------------------------------------------------------------
(***************************************************************************)
(* The runs keep to the batches of GuestBatches: they do its steps when a  *)
(* task begins or ends, or a guest is skipped, and none in between.        *)
(***************************************************************************)

\* Orders can be compared.
LEMMA OrdersAreIntegers ==
  ASSUME NEW r \in Run, NEW g \in Guest
  PROVE  OrderOf(r, g) \in Int
BY BulkAssumption DEF OrderOf

\* Where a run starts a task or skips a guest, it is the guest's turn: a free slot means
\* few tasks that run, since each of these is known or has a worker.
LEMMA TurnComes ==
  ASSUME IInv, NEW r \in Run, NEW g \in Guest, Upcoming(r, g), Room(r)
  PROVE  Batches!Turn(r, g)
<1> DEFINE active == {h \in Guest : Phase(r, h) = "active"}
<1>1. Typed /\ Tasks(r)
  BY DEF IInv, RunOK
<1>2. Phase(r, g) = "waiting"
  BY DEF Upcoming, Waiting, Phase
<1>3. ASSUME NEW h \in Guest, OrderOf(r, h) < OrderOf(r, g) PROVE Phase(r, h) = "over"
  <2>1. h # g
    BY <1>3, OrdersAreIntegers
  <2>2. ~Before(r, g, h)
    BY <1>3, OrdersAreIntegers DEF Before
  <2>3. h \notin Waiting(r)
    BY <2>1, <2>2 DEF Upcoming
  <2>4. h \notin Workers(r)
    BY <1>3, OrdersAreIntegers DEF Upcoming
  <2>5. work[r][h] = "over"
    BY <1>1, <2>3, <2>4 DEF Typed, Work, Waiting, Workers
  <2>6. QED
    BY <1>1, <2>5 DEF Tasks, Phase
<1>4. Cardinality(active) < MaxWorkers
  <2>1. active \subseteq Workers(r)
    BY <1>1 DEF Phase, Tasks, Typed, Work, Workers
  <2>2. Cardinality(active) \in Nat /\ Cardinality(active) <= Cardinality(Workers(r))
    BY <2>1, WorkersAreFinite, FS_Subset, FS_CardinalityType
  <2>3. QED
    BY <2>2, WorkersAreFinite, BulkAssumption DEF Room
<1>5. Batches!Active(r) = active
  BY DEF Batches!Active
<1>6. Batches!Cardinality(active) = Cardinality(active)
  BY Zenon DEF Batches!Cardinality, Cardinality
<1>7. Batches!Cardinality(Batches!Active(r)) < MaxWorkers
  BY <1>4, <1>5, <1>6
<1>8. QED
  BY <1>2, <1>3, <1>7 DEF Batches!Turn

\* The orders stay what they are.
LEMMA SameOrders ==
  ASSUME kind' = kind
  PROVE  \A r, g : OrderOf(r, g)' = OrderOf(r, g)
BY DEF OrderOf

\* A guest that goes on to another phase, alone.
LEMMA OnePhaseMoves ==
  ASSUME NEW r \in Run, NEW g \in Guest, NEW p, kind' = kind, Phase(r, g)' = p,
         \A q \in Run, h \in Guest : q # r \/ h # g => Phase(q, h)' = Phase(q, h)
  PROVE  /\ [q \in Run |-> [h \in Guest |-> Phase(q, h)]]'
              = [[q \in Run |-> [h \in Guest |-> Phase(q, h)]] EXCEPT ![r][g] = p]
         /\ [q \in Run |-> [h \in Guest |-> OrderOf(q, h)]]'
              = [q \in Run |-> [h \in Guest |-> OrderOf(q, h)]]
<1>1. [q \in Run |-> [h \in Guest |-> OrderOf(q, h)]]'
        = [q \in Run |-> [h \in Guest |-> OrderOf(q, h)]]
  BY SameOrders
<1>2. [h \in Guest |-> Phase(r, h)'] = [[h \in Guest |-> Phase(r, h)] EXCEPT ![g] = p]
  OBVIOUS
<1>3. \A q \in Run \ {r} : [h \in Guest |-> Phase(q, h)'] = [h \in Guest |-> Phase(q, h)]
  OBVIOUS
<1> DEFINE phases == [q \in Run |-> [h \in Guest |-> Phase(q, h)]]
<1>4. phases' = [phases EXCEPT ![r] = [h \in Guest |-> Phase(r, h)']]
  BY <1>3
<1>5. [phases EXCEPT ![r][g] = p] = [phases EXCEPT ![r] = [phases[r] EXCEPT ![g] = p]]
  OBVIOUS
<1>6. phases[r] = [h \in Guest |-> Phase(r, h)]
  OBVIOUS
<1>7. phases' = [phases EXCEPT ![r][g] = p]
  BY <1>2, <1>4, <1>5, <1>6
<1>8. QED
  BY <1>1, <1>7

\* No guest goes on.
LEMMA NoPhaseMoves ==
  ASSUME kind' = kind, \A q \in Run, h \in Guest : Phase(q, h)' = Phase(q, h)
  PROVE  UNCHANGED Batches!vars
BY SameOrders DEF Batches!vars

\* Whoever is done with or loses a running task ends it, and only that.
LEMMA SkipOrEnd ==
  ASSUME IInv, NEW r \in Run, NEW g \in Guest, kind' = kind, Phase(r, g)' = "over",
         \A q \in Run, h \in Guest : q # r \/ h # g => Phase(q, h)' = Phase(q, h),
         Phase(r, g) = "waiting" => Upcoming(r, g) /\ Room(r)
  PROVE  [Batches!Next]_Batches!vars
<1>1. CASE Phase(r, g) = "waiting"
  <2>1. Batches!Turn(r, g)
    BY <1>1, TurnComes
  <2>2. Batches!Skip(r, g)
    BY <2>1, OnePhaseMoves DEF Batches!Skip
  <2>3. QED
    BY <2>2 DEF Batches!Next
<1>2. CASE Phase(r, g) = "active"
  <2>1. Batches!End(r, g)
    BY <1>2, OnePhaseMoves DEF Batches!End
  <2>2. QED
    BY <2>1 DEF Batches!Next
<1>3. CASE Phase(r, g) = "over"
  BY <1>3, NoPhaseMoves
<1>4. QED
  BY <1>1, <1>2, <1>3 DEF Phase

\* Initially every guest waits.
LEMMA InitRefines == Init => Batches!Init
<1> SUFFICES ASSUME Init PROVE Batches!Init
  OBVIOUS
<1>1. [q \in Run |-> [h \in Guest |-> OrderOf(q, h)]] \in [Run -> [Guest -> Int]]
  BY OrdersAreIntegers
<1>2. \A q \in Run, h \in Guest : Phase(q, h) = "waiting"
  BY DEF Init, Phase
<1>3. QED
  BY <1>1, <1>2 DEF Batches!Init

\* The steps of a run.
LEMMA RunStepRefines ==
  ASSUME IInv, NEW r \in Run, RunStep(r)
  PROVE  [Batches!Next]_Batches!vars
<1>0. Typed /\ Tasks(r) /\ Slots(r)
  BY DEF IInv, RunOK
<1>1. ASSUME NEW g \in Guest, Skip(r, g) PROVE [Batches!Next]_Batches!vars
  <2>1. UNCHANGED <<kind, task, unknown>> /\ Upcoming(r, g) /\ Room(r) /\ task[r][g] = "none"
    BY <1>0, <1>1, AnsweredMoves DEF Skip, taskVars
  <2>2. QED
    BY <1>0, <1>1, <2>1, OverKeeps, SkipOrEnd DEF Skip, Phase
<1>2. ASSUME NEW g \in Guest, Post(r, g) PROVE [Batches!Next]_Batches!vars
  <2>1. Batches!Turn(r, g)
    BY <1>0, <1>2, AnsweredMoves, TurnComes DEF Post
  <2>2. UNCHANGED <<kind, unknown>> /\ g \notin unknown[r]
    BY <1>0, <1>2, AnsweredMoves DEF Post
  <2>3. /\ work'[r][g] = "worker" /\ task'[r][g] = "running"
        /\ \A q \in Run, h \in Guest :
             q # r \/ h # g => work'[q][h] = work[q][h] /\ task'[q][h] = task[q][h]
    BY <1>0, <1>2 DEF Post, Typed
  <2>4. /\ Phase(r, g)' = "active"
        /\ \A q \in Run, h \in Guest : q # r \/ h # g => Phase(q, h)' = Phase(q, h)
    BY <2>2, <2>3 DEF Phase
  <2>5. Batches!Begin(r, g)
    BY <2>1, <2>2, <2>4, OnePhaseMoves DEF Batches!Begin
  <2>6. QED
    BY <2>5 DEF Batches!Next
<1>3. ASSUME NEW g \in Guest, PostFails(r, g) PROVE [Batches!Next]_Batches!vars
  <2>1. kind' = kind /\ Upcoming(r, g) /\ Room(r) /\ Over(r, g)
    BY <1>0, <1>3, AnsweredMoves DEF PostFails
  <2>2. /\ g \in unknown'[r]
        /\ \A q \in Run, h \in Guest : q # r \/ h # g =>
             task'[q][h] = task[q][h] /\ (h \in unknown'[q] <=> h \in unknown[q])
    BY <1>0, <1>3 DEF PostFails, Typed, taskVars
  <2>3. /\ work'[r][g] = "over"
        /\ \A q \in Run, h \in Guest : q # r \/ h # g => work'[q][h] = work[q][h]
    BY <1>0, <2>1, OverKeeps
  <2>4. /\ Phase(r, g)' = "over"
        /\ \A q \in Run, h \in Guest : q # r \/ h # g => Phase(q, h)' = Phase(q, h)
    BY <2>2, <2>3 DEF Phase
  <2>5. QED
    BY <2>1, <2>4, SkipOrEnd
<1>4. ASSUME NEW g \in Guest, Ask(r, g) \/ Abort(r, g) \/ Busy(r, g)
      PROVE  [Batches!Next]_Batches!vars
  BY <1>4, NoPhaseMoves DEF Ask, Abort, Busy, Phase, taskVars
<1>5. ASSUME NEW g \in Guest, Reap(r, g) PROVE [Batches!Next]_Batches!vars
  <2>1. /\ UNCHANGED <<kind, task, unknown>> /\ Over(r, g) /\ work[r][g] = "worker"
        /\ task[r][g] # "running"
    BY <1>0, <1>5, LooksAtWorkers DEF Reap, taskVars
  <2>2. QED
    BY <1>0, <2>1, OverKeeps, NoPhaseMoves DEF Phase
<1>6. ASSUME NEW g \in Guest, Lose(r, g) PROVE [Batches!Next]_Batches!vars
  <2>1. UNCHANGED <<kind, task>> /\ Over(r, g) /\ work[r][g] = "worker"
    BY <1>0, <1>6, LooksAtWorkers DEF Lose, taskVars
  <2>2. /\ g \in unknown'[r]
        /\ \A q \in Run, h \in Guest : q # r \/ h # g => (h \in unknown'[q] <=> h \in unknown[q])
    BY <1>0, <1>6 DEF Lose, Typed
  <2>3. /\ work'[r][g] = "over"
        /\ \A q \in Run, h \in Guest : q # r \/ h # g => work'[q][h] = work[q][h]
    BY <1>0, <2>1, OverKeeps
  <2>4. /\ Phase(r, g)' = "over" /\ Phase(r, g) # "waiting"
        /\ \A q \in Run, h \in Guest : q # r \/ h # g => Phase(q, h)' = Phase(q, h)
    BY <2>1, <2>2, <2>3 DEF Phase
  <2>5. QED
    BY <2>1, <2>4, SkipOrEnd
<1>7. CASE Look(r) \/ Finish(r)
  BY <1>7, NoPhaseMoves DEF Look, Finish, Phase, taskVars
<1>8. QED
  BY <1>1, <1>2, <1>3, <1>4, <1>5, <1>6, <1>7 DEF RunStep

\* The end of a task.
LEMMA TaskEndRefines ==
  ASSUME IInv, NEW r \in Run, NEW g \in Guest, TaskSucceeds(r, g) \/ TaskFails(r, g)
  PROVE  [Batches!Next]_Batches!vars
<1>0. Typed /\ Tasks(r)
  BY DEF IInv, RunOK
<1>1. /\ UNCHANGED <<kind, work, unknown>>
      /\ task[r][g] = "running" /\ task'[r][g] # "running"
      /\ \A q \in Run, h \in Guest : q # r \/ h # g => task'[q][h] = task[q][h]
  BY <1>0 DEF TaskSucceeds, TaskFails, loopVars, Typed
<1>2. /\ Phase(r, g) # "waiting" /\ Phase(r, g)' = "over"
      /\ \A q \in Run, h \in Guest : q # r \/ h # g => Phase(q, h)' = Phase(q, h)
  BY <1>0, <1>1 DEF Tasks, Phase
<1>3. QED
  BY <1>1, <1>2, SkipOrEnd

\* Bulk actions keep to their batches: at most MaxWorkers tasks of a run at a time, and
\* those of a start order only when the tasks of all earlier orders have ended.
THEOREM KeepToBatches == Spec => RunsInBatches
<1>1. Init => Batches!Init
  BY InitRefines
<1>2. IInv /\ [Next]_vars => [Batches!Next]_Batches!vars
  <2> SUFFICES ASSUME IInv, [Next]_vars PROVE [Batches!Next]_Batches!vars
    OBVIOUS
  <2>1. ASSUME NEW r \in Run, RunStep(r) PROVE [Batches!Next]_Batches!vars
    BY <2>1, RunStepRefines
  <2>2. ASSUME NEW r \in Run, NEW g \in Guest, TaskSucceeds(r, g) \/ TaskFails(r, g)
        PROVE  [Batches!Next]_Batches!vars
    BY <2>2, TaskEndRefines
  <2>3. ASSUME NEW g \in Guest, OthersChange(g) PROVE [Batches!Next]_Batches!vars
    BY <2>3, NoPhaseMoves DEF OthersChange, loopVars, taskVars, Phase
  <2>4. CASE UNCHANGED vars
    BY <2>4, NoPhaseMoves DEF vars, loopVars, taskVars, Phase
  <2>5. QED
    BY <2>1, <2>2, <2>3, <2>4 DEF Next
<1>3. QED
  BY <1>1, <1>2, Invariance, PTL DEF Spec, RunsInBatches, Batches!Spec
=============================================================================
