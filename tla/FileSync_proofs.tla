--------------------------- MODULE FileSync_proofs ---------------------------
(***************************************************************************)
(* Theorems about FileSync, for any contents and any number of calls, of   *)
(* changes by others and of overlapping refreshes, races included: the     *)
(* variables stay in their domains, no value that was set is lost, and     *)
(* what is shown as uncommitted is what the last write in line writes.     *)
(***************************************************************************)
EXTENDS FileSync, TLAPS

USE DEF Watcher, Exists, MaybeExists, OnDisk, Known, Race

-----------------------------------------------------------------------------
(***************************************************************************)
(* The parts of TypeOK, by who owns the variables.                         *)
(***************************************************************************)

ServerOK ==
  /\ disk \in [content : OnDisk, version : Nat]
  /\ subscribed \in BOOLEAN
  /\ dirty \subseteq Watcher
  /\ reading \subseteq Watcher
  /\ lastState \in [content : OnDisk \cup {NoValue}, version : Nat]
  /\ events \in Seq(Event)

CacheOK ==
  /\ stat \in MaybeExists
  /\ cache \in Known
  /\ watching \in BOOLEAN
  /\ informed \in BOOLEAN
  /\ newest \in [stat : Nat, content : Nat]

TasksOK ==
  /\ query \in Query
  /\ refreshes \in [1..MaxRefreshes -> Refresh]
  /\ removal \in {"idle", "removed", "off", "offDone"}

HistoryOK ==
  /\ races \subseteq Race
  /\ calls \in 0..MaxCalls

\* The types of the write operations, and the queue of them: an operation has a value; a
\* value that waits for its write is that of onFinishedFn; an uncommitted value belongs to
\* the last operation in line, whose doWrite deletes it.
WritesOK ==
  /\ uncommitted \in Content \cup {NoValue}
  /\ op \in Op
  /\ assigned \in Content \cup {NoValue}
  /\ op.pc # "none" => op.value \in Content
  /\ assigned # NoValue => op.pc # "none" /\ op.next = assigned
  /\ uncommitted # NoValue =>
       /\ op.pc # "none"
       /\ uncommitted = IF op.next = NoValue THEN op.value ELSE op.next
       /\ op.next = NoValue => op.lazy

IInv == ServerOK /\ CacheOK /\ TasksOK /\ HistoryOK /\ WritesOK

\* The parts make up TypeOK.
LEMMA IInvIsStronger == IInv => TypeOK /\ NoAssignmentLost /\ UncommittedIsWrittenLast
BY DEF IInv, ServerOK, CacheOK, TasksOK, HistoryOK, WritesOK, TypeOK, NoAssignmentLost,
       UncommittedIsWrittenLast

-----------------------------------------------------------------------------
(***************************************************************************)
(* What the operators that several actions use do to a part.               *)
(***************************************************************************)

\* A change of the disk leaves a typed version and watchers that are dirty.
LEMMA ChangeDiskTypes ==
  ASSUME ServerOK, NEW content \in OnDisk, ChangeDisk(content)
  PROVE  disk' \in [content : OnDisk, version : Nat] /\ dirty' \subseteq Watcher
<1>1. disk' \in [content : OnDisk, version : Nat]
  BY DEF ServerOK, ChangeDisk, Read
<1>2. CASE \E missing \in SUBSET {"direct"} : dirty' = Watcher \ (missing \ dirty)
  BY <1>1, <1>2, Zenon
<1>3. CASE UNCHANGED dirty
  BY <1>1, <1>3 DEF ServerOK
<1>4. QED
  BY <1>2, <1>3 DEF ChangeDisk

\* A report leaves typed events, and records known races only.
LEMMA ReportTypes ==
  ASSUME ServerOK, HistoryOK, NEW exists \in Exists, Report(exists)
  PROVE  /\ lastState' \in [content : OnDisk \cup {NoValue}, version : Nat]
         /\ events' \in Seq(Event)
         /\ races' \subseteq Race
<1>1. [exists |-> exists, version |-> disk.version] \in Event
  BY DEF ServerOK, Event
<1>2. events' \in Seq(Event)
  BY <1>1 DEF ServerOK, Report
<1>3. QED
  BY <1>2 DEF ServerOK, HistoryOK, Report

\* No race but the five is ever recorded.
LEMMA RacesTypes ==
  /\ Unsubscribed \subseteq {"unsubscribed"}
  /\ \A v, w : Overtaken(v, w) \subseteq {"overtaken"}
  /\ \A content, v : Early(content, v) \subseteq {"early"}
BY DEF Unsubscribed, Overtaken, Early

\* The end of an operation, with its successor, keeps the queue in order.
LEMMA FinishKeepsWrites ==
  ASSUME WritesOK, op.pc # "none", FinishOp
  PROVE  WritesOK'
BY FileSyncAssumption DEF WritesOK, FinishOp, StartOp, NoOp, Op

\* So does a step that only moves the operation on.
LEMMA MovingOnKeepsWrites ==
  ASSUME WritesOK, UNCHANGED <<uncommitted, assigned>>, op' \in Op, op.pc # "none",
         op'.pc # "none", op'.value = op.value, op'.lazy = op.lazy, op'.next = op.next
  PROVE  WritesOK'
BY DEF WritesOK

\* A refreshed cache is typed, and the write operation is confirmed or left alone.
LEMMA FlipKeeps ==
  ASSUME CacheOK, HistoryOK, WritesOK, NEW event \in Event, NEW content \in Known,
         NEW version \in Nat, Flip(event, content, version), watching' = watching
  PROVE  CacheOK' /\ WritesOK'
         /\ races' \subseteq Race
<1>1. CacheOK'
  <2>1. stat' \in MaybeExists /\ cache' \in Known /\ watching' \in BOOLEAN
    BY DEF CacheOK, Flip, Event
  <2>2. informed' \in BOOLEAN
    BY DEF Flip, Informs
  <2>3. newest' \in [stat : Nat, content : Nat]
    BY DEF CacheOK, Flip, Later, Event
  <2>4. QED
    BY <2>1, <2>2, <2>3 DEF CacheOK
<1>2. races' \subseteq Race
  BY RacesTypes DEF HistoryOK, Flip
<1>3. WritesOK'
  <2>1. CASE UNCHANGED writeVars
    BY <2>1 DEF WritesOK, writeVars
  <2>2. CASE op.pc = "confirm" /\ FinishOp
    BY <2>2, FinishKeepsWrites
  <2>3. CASE op.pc # "none" /\ op' = [op EXCEPT !.confirmed = TRUE]
             /\ UNCHANGED <<uncommitted, assigned>>
    <3>1. op' \in Op /\ op'.pc = op.pc /\ op'.value = op.value /\ op'.lazy = op.lazy
          /\ op'.next = op.next
      BY <2>3 DEF WritesOK, Op
    <3>2. QED
      BY <2>3, <3>1, MovingOnKeepsWrites
  <2>4. QED
    BY <2>1, <2>2, <2>3 DEF Flip
<1>4. QED
  BY <1>1, <1>2, <1>3

-----------------------------------------------------------------------------
(***************************************************************************)
(* The invariant.                                                          *)
(***************************************************************************)

LEMMA InitIInv == Init => IInv
<1> SUFFICES ASSUME Init PROVE IInv
  OBVIOUS
<1> USE FileSyncAssumption DEF Init
<1>1. ServerOK
  <2>1. disk \in [content : OnDisk, version : Nat]
    OBVIOUS
  <2>2. events \in Seq(Event)
    OBVIOUS
  <2>3. lastState \in [content : OnDisk \cup {NoValue}, version : Nat]
    BY DEF Read
  <2>4. QED
    BY <2>1, <2>2, <2>3 DEF ServerOK
<1>2. CacheOK
  BY DEF CacheOK
<1>3. TasksOK
  BY DEF TasksOK, Query, NoQuery, Refresh, NoRefresh, Event
<1>4. HistoryOK
  BY DEF HistoryOK
<1>5. WritesOK
  BY DEF WritesOK, Op, NoOp
<1>6. QED
  BY <1>1, <1>2, <1>3, <1>4, <1>5 DEF IInv

\* Every step keeps every part.
LEMMA NextIInv == IInv /\ [Next]_vars => IInv'
<1> SUFFICES ASSUME IInv, [Next]_vars PROVE IInv'
  OBVIOUS
<1> USE FileSyncAssumption, RacesTypes DEF serverVars, cacheVars, taskVars, writeVars
<1>0. ServerOK /\ CacheOK /\ TasksOK /\ HistoryOK /\ WritesOK
  BY DEF IInv
<1>1. ASSUME NEW w \in Watcher, Fire(w) PROVE IInv'
  <2>1. CacheOK' /\ TasksOK' /\ WritesOK'
    BY <1>0, <1>1 DEF CacheOK, TasksOK, WritesOK, Fire
  <2>2. ServerOK'
    BY <1>0, <1>1, ReportTypes DEF ServerOK, Fire
  <2>3. HistoryOK'
    BY <1>0, <1>1, ReportTypes DEF HistoryOK, Fire
  <2>4. QED
    BY <2>1, <2>2, <2>3 DEF IInv
<1>2. ASSUME NEW w \in Watcher, HandlerReads(w) PROVE IInv'
  <2>1. CacheOK' /\ TasksOK' /\ WritesOK'
    BY <1>0, <1>2 DEF CacheOK, TasksOK, WritesOK, HandlerReads
  <2>2. ServerOK'
    BY <1>0, <1>2, ReportTypes DEF ServerOK, HandlerReads
  <2>3. HistoryOK'
    BY <1>0, <1>2, ReportTypes DEF HistoryOK, HandlerReads
  <2>4. QED
    BY <2>1, <2>2, <2>3 DEF IInv
<1>3. ASSUME OtherChanges PROVE IInv'
  <2>1. CacheOK' /\ TasksOK' /\ WritesOK'
    BY <1>0, <1>3 DEF CacheOK, TasksOK, WritesOK, OtherChanges
  <2>2. PICK c \in (Content \cup {Gone}) \ {disk.content} : ChangeDisk(c)
    BY <1>3 DEF OtherChanges
  <2>3. ServerOK'
    BY <1>0, <1>3, <2>2, ChangeDiskTypes DEF ServerOK, OtherChanges
  <2>4. HistoryOK'
    BY <1>0, <1>3 DEF HistoryOK, OtherChanges
  <2>5. QED
    BY <2>1, <2>2, <2>3, <2>4 DEF IInv
<1>4. ASSUME WriteBegins PROVE IInv'
  <2>1. CacheOK' /\ TasksOK'
    BY <1>0, <1>4 DEF CacheOK, TasksOK, WriteBegins
  <2>2. ServerOK'
    BY <1>0, <1>4, ChangeDiskTypes DEF ServerOK, WriteBegins
  <2>3. HistoryOK'
    BY <1>0, <1>4 DEF HistoryOK, WriteBegins
  <2>4. op' \in Op
    BY <1>0, <1>4 DEF WritesOK, WriteBegins, Op
  <2>5. WritesOK'
    BY <1>0, <1>4, <2>4, MovingOnKeepsWrites DEF WritesOK, WriteBegins, Op
  <2>6. QED
    BY <2>1, <2>2, <2>3, <2>4, <2>5 DEF IInv
<1>5. ASSUME WriteEnds PROVE IInv'
  <2>1. CacheOK' /\ TasksOK'
    BY <1>0, <1>5 DEF CacheOK, TasksOK, WriteEnds
  <2>2. op.value \in OnDisk
    BY <1>0, <1>5 DEF WritesOK, WriteEnds
  <2>3. ServerOK'
    BY <1>0, <1>5, <2>2, ChangeDiskTypes DEF ServerOK, WriteEnds
  <2>4. HistoryOK'
    BY <1>0, <1>5 DEF HistoryOK, WriteEnds
  <2>5. op' \in Op
    <3>1. disk.version + 1 \in Nat
      BY <1>0 DEF ServerOK
    <3>2. op' = [op EXCEPT !.pc = "written", !.version = disk.version + 1]
      BY <1>5 DEF WriteEnds
    <3>3. QED
      BY <1>0, <3>1, <3>2 DEF WritesOK, Op
  <2>6. WritesOK'
    BY <1>0, <1>5, <2>5, MovingOnKeepsWrites DEF WritesOK, WriteEnds, Op
  <2>7. QED
    BY <2>1, <2>2, <2>3, <2>4, <2>5, <2>6 DEF IInv
<1>6. ASSUME WriteFails PROVE IInv'
  <2>1. ServerOK' /\ TasksOK' /\ HistoryOK'
    BY <1>0, <1>6 DEF ServerOK, TasksOK, HistoryOK, WriteFails
  <2>2. CacheOK'
    BY <1>0, <1>6 DEF CacheOK, WriteFails
  <2>3. WritesOK'
    BY <1>0, <1>6, FinishKeepsWrites DEF WritesOK, WriteFails
  <2>4. QED
    BY <2>1, <2>2, <2>3 DEF IInv
<1>7. ASSUME WriteAnswered PROVE IInv'
  <2>1. ServerOK' /\ TasksOK'
    BY <1>0, <1>7 DEF ServerOK, TasksOK, WriteAnswered
  <2>2. CacheOK'
    BY <1>0, <1>7 DEF CacheOK, WriteAnswered, HearOfContent, Later, Op, ServerOK, WritesOK
  <2>3. HistoryOK'
    BY <1>0, <1>7 DEF HistoryOK, WriteAnswered
  <2>4. WritesOK'
    <3>1. CASE op.confirmed
      BY <1>0, <1>7, <3>1, FinishKeepsWrites DEF WriteAnswered
    <3>2. CASE ~op.confirmed
      <4>1. op' \in Op /\ op' = [op EXCEPT !.pc = "confirm"]
        BY <1>0, <1>7, <3>2 DEF WriteAnswered, WritesOK, Op
      <4>2. QED
        BY <1>0, <1>7, <3>2, <4>1, MovingOnKeepsWrites DEF WriteAnswered, WritesOK, Op
    <3>3. QED
      BY <3>1, <3>2
  <2>5. QED
    BY <2>1, <2>2, <2>3, <2>4 DEF IInv
<1>8. ASSUME ConfirmTimeout PROVE IInv'
  <2>1. ServerOK' /\ TasksOK' /\ HistoryOK'
    BY <1>0, <1>8 DEF ServerOK, TasksOK, HistoryOK, ConfirmTimeout
  <2>2. CacheOK'
    BY <1>0, <1>8 DEF CacheOK, ConfirmTimeout
  <2>3. WritesOK'
    BY <1>0, <1>8, FinishKeepsWrites DEF WritesOK, ConfirmTimeout
  <2>4. QED
    BY <2>1, <2>2, <2>3 DEF IInv
<1>9. ASSUME CalmDown PROVE IInv'
  <2>1. ServerOK' /\ TasksOK' /\ HistoryOK'
    BY <1>0, <1>9 DEF ServerOK, TasksOK, HistoryOK, CalmDown
  <2>2. CacheOK'
    BY <1>0, <1>9 DEF CacheOK, CalmDown
  <2>3. op' \in Op
    BY <1>0, <1>9 DEF WritesOK, CalmDown, Op, AfterEnsureWatches
  <2>4. WritesOK'
    BY <1>0, <1>9, <2>3, MovingOnKeepsWrites DEF WritesOK, CalmDown, Op, AfterEnsureWatches
  <2>5. QED
    BY <2>1, <2>2, <2>3, <2>4 DEF IInv
<1>10. ASSUME Subscribe PROVE IInv'
  <2>1. CacheOK' /\ HistoryOK'
    BY <1>0, <1>10 DEF CacheOK, HistoryOK, Subscribe, Race
  <2>2. ServerOK'
    BY <1>0, <1>10 DEF ServerOK, Subscribe
  <2>3. TasksOK'
    BY <1>0, <1>10 DEF TasksOK, Subscribe, Query
  <2>4. WritesOK'
    <3>1. CASE op' = op
      BY <1>0, <1>10, <3>1 DEF WritesOK, Subscribe
    <3>2. CASE op.pc = "subscribe" /\ op' = [op EXCEPT !.pc = "request"]
      <4>1. op' \in Op
        BY <1>0, <3>2 DEF WritesOK, Op
      <4>2. QED
        BY <1>0, <1>10, <3>2, <4>1, MovingOnKeepsWrites DEF Subscribe, WritesOK, Op
    <3>3. QED
      BY <1>10, <3>1, <3>2 DEF Subscribe
  <2>5. QED
    BY <2>1, <2>2, <2>3, <2>4 DEF IInv
<1>11. ASSUME NEW value \in Content, SetAndAwait(value) PROVE IInv'
  <2>1. ServerOK' /\ CacheOK' /\ TasksOK'
    BY <1>0, <1>11 DEF ServerOK, CacheOK, TasksOK, SetAndAwait
  <2>2. HistoryOK'
    BY <1>0, <1>11 DEF HistoryOK, SetAndAwait
  <2>3. WritesOK'
    BY <1>0, <1>11 DEF WritesOK, SetAndAwait, StartOp, NoOp, Op
  <2>4. QED
    BY <2>1, <2>2, <2>3 DEF IInv
<1>12. ASSUME NEW value \in Content, SetLazily(value) PROVE IInv'
  <2>1. ServerOK' /\ CacheOK' /\ TasksOK'
    BY <1>0, <1>12 DEF ServerOK, CacheOK, TasksOK, SetLazily
  <2>2. HistoryOK'
    BY <1>0, <1>12 DEF HistoryOK, SetLazily
  <2>3. WritesOK'
    <3>1. uncommitted' = value /\ value # NoValue
      BY <1>12 DEF SetLazily
    <3>2. CASE op.pc = "none"
      <4>1. op' = StartOp(value, TRUE) /\ assigned' = NoValue
        BY <1>12, <3>2 DEF SetLazily
      <4>2. QED
        BY <3>1, <4>1 DEF WritesOK, StartOp, NoOp, Op
    <3>3. CASE op.pc # "none"
      <4>1. op' = [op EXCEPT !.next = value] /\ assigned' = value
        BY <1>12, <3>3 DEF SetLazily
      <4>2. op' \in Op /\ op'.pc = op.pc /\ op'.value = op.value /\ op'.next = value
        BY <1>0, <4>1 DEF WritesOK, Op
      <4>3. QED
        BY <1>0, <3>1, <3>3, <4>1, <4>2 DEF WritesOK
    <3>4. QED
      BY <3>2, <3>3
  <2>4. QED
    BY <2>1, <2>2, <2>3 DEF IInv
<1>13. ASSUME NEW of \in {"stat", "content"}, BeginQuery(of) PROVE IInv'
  <2>1. ServerOK' /\ HistoryOK' /\ WritesOK'
    BY <1>0, <1>13 DEF ServerOK, HistoryOK, WritesOK, BeginQuery
  <2>2. CacheOK'
    BY <1>0, <1>13 DEF CacheOK, BeginQuery
  <2>3. TasksOK'
    BY <1>0, <1>13 DEF TasksOK, BeginQuery, AfterEnsureWatches, Query, NoQuery
  <2>4. QED
    BY <2>1, <2>2, <2>3 DEF IInv
<1>14. ASSUME ServerAnswers PROVE IInv'
  <2>1. ServerOK' /\ CacheOK' /\ WritesOK'
    BY <1>0, <1>14 DEF ServerOK, CacheOK, WritesOK, ServerAnswers
  <2>2. TasksOK'
    <3>1. CASE query' = Answered(query) /\ UNCHANGED refreshes
      BY <1>0, <1>14, <3>1 DEF TasksOK, ServerAnswers, Answered, Query, ServerOK
    <3>2. ASSUME NEW r \in 1..MaxRefreshes,
                 refreshes' = [refreshes EXCEPT ![r] = Answered(@)], UNCHANGED query
          PROVE  TasksOK'
      <4>1. Answered(refreshes[r]) \in Refresh
        <5>1. refreshes[r] \in Refresh
          BY <1>0 DEF TasksOK
        <5>2. disk.content \in OnDisk /\ disk.version \in Nat
          BY <1>0 DEF ServerOK
        <5>3. QED
          BY <5>1, <5>2 DEF Answered, Refresh
      <4>2. QED
        BY <1>0, <1>14, <3>2, <4>1 DEF TasksOK, ServerAnswers
    <3>3. QED
      BY <1>14, <3>1, <3>2 DEF ServerAnswers
  <2>3. HistoryOK'
    BY <1>0, <1>14 DEF HistoryOK, ServerAnswers
  <2>4. QED
    BY <2>1, <2>2, <2>3 DEF IInv
<1>15. ASSUME TakeAnswer PROVE IInv'
  <2>1. ServerOK' /\ WritesOK'
    BY <1>0, <1>15 DEF ServerOK, WritesOK, TakeAnswer
  <2>2. CacheOK'
    BY <1>0, <1>15 DEF CacheOK, TasksOK, TakeAnswer, Query, HearOfContent, Later
  <2>3. TasksOK'
    BY <1>0, <1>15 DEF TasksOK, TakeAnswer, Query, NoQuery
  <2>4. HistoryOK'
    BY <1>0, <1>15 DEF HistoryOK, TakeAnswer
  <2>5. QED
    BY <2>1, <2>2, <2>3, <2>4 DEF IInv
<1>16. ASSUME HandleChange PROVE IInv'
  <2> DEFINE event == Head(events)
  <2>1. event \in Event /\ event.version \in Nat /\ events' \in Seq(Event)
    <3>1. events \in Seq(Event) /\ events # <<>> /\ events' = Tail(events)
      BY <1>0, <1>16 DEF ServerOK, HandleChange
    <3>2. event \in Event /\ events' \in Seq(Event)
      BY <3>1
    <3>3. QED
      BY <3>2 DEF Event
  <2>2. ServerOK'
    BY <1>0, <1>16, <2>1 DEF ServerOK, HandleChange
  <2>3. CASE event.exists = "yes" /\ cache # NoValue
    <3>1. PICK r \in 1..MaxRefreshes :
            refreshes' = [refreshes EXCEPT ![r].pc = "ask", ![r].event = event]
      BY <1>16, <2>3 DEF HandleChange
    <3>2. refreshes' \in [1..MaxRefreshes -> Refresh]
      <4> DEFINE asked == [refreshes[r] EXCEPT !.pc = "ask", !.event = event]
      <4>1. refreshes \in [1..MaxRefreshes -> Refresh]
        BY <1>0 DEF TasksOK
      <4>2. asked \in Refresh
        BY <2>1, <4>1 DEF Refresh
      <4>3. refreshes' = [refreshes EXCEPT ![r] = asked]
        BY <3>1, <4>1
      <4> HIDE DEF asked
      <4>4. QED
        BY <4>1, <4>2, <4>3
    <3>3. TasksOK'
      BY <1>0, <1>16, <3>2 DEF TasksOK, HandleChange
    <3>4. CacheOK' /\ HistoryOK' /\ WritesOK'
      BY <1>0, <1>16, <2>3 DEF CacheOK, HistoryOK, WritesOK, HandleChange
    <3>5. QED
      BY <2>2, <3>3, <3>4 DEF IInv
  <2>4. CASE ~(event.exists = "yes" /\ cache # NoValue)
    <3>1. Flip(event, NoValue, event.version) /\ watching' = watching
      BY <1>16, <2>4 DEF HandleChange
    <3>2. CacheOK' /\ HistoryOK' /\ WritesOK'
      BY <1>0, <1>16, <2>1, <3>1, FlipKeeps DEF HistoryOK, HandleChange
    <3>3. TasksOK'
      BY <1>0, <1>16, <2>4 DEF TasksOK, HandleChange
    <3>4. QED
      BY <2>2, <3>2, <3>3 DEF IInv
  <2>5. QED
    BY <2>3, <2>4
<1>17. ASSUME NEW r \in 1..MaxRefreshes, RefreshEnds(r) PROVE IInv'
  <2> DEFINE f == refreshes[r]
  <2>1. f.event \in Event /\ Fetched(f.content) \in Known /\ f.version \in Nat
    BY <1>0 DEF TasksOK, Refresh, Fetched
  <2>2. Flip(f.event, Fetched(f.content), f.version) /\ watching' = watching
    BY <1>17 DEF RefreshEnds
  <2>3. CacheOK' /\ HistoryOK' /\ WritesOK'
    BY <1>0, <1>17, <2>1, <2>2, FlipKeeps DEF HistoryOK, RefreshEnds
  <2>4. NoRefresh \in Refresh
    BY DEF NoRefresh, Refresh, Event
  <2>5. ServerOK' /\ TasksOK'
    BY <1>0, <1>17, <2>4 DEF ServerOK, TasksOK, RefreshEnds
  <2>6. QED
    BY <2>3, <2>5 DEF IInv
<1>18. ASSUME Remove PROVE IInv'
  <2>1. CacheOK' /\ WritesOK'
    BY <1>0, <1>18 DEF CacheOK, WritesOK, Remove
  <2>2. ServerOK'
    BY <1>0, <1>18, ChangeDiskTypes DEF ServerOK, Remove
  <2>3. TasksOK'
    BY <1>0, <1>18 DEF TasksOK, Remove
  <2>4. HistoryOK'
    BY <1>0, <1>18 DEF HistoryOK, Remove
  <2>5. QED
    BY <2>1, <2>2, <2>3, <2>4 DEF IInv
<1>19. ASSUME Cleanup PROVE IInv'
  <2>1. ServerOK' /\ HistoryOK'
    BY <1>0, <1>19 DEF ServerOK, HistoryOK, Cleanup
  <2>2. CacheOK'
    BY <1>0, <1>19 DEF CacheOK, Cleanup
  <2>3. TasksOK'
    BY <1>0, <1>19 DEF TasksOK, Cleanup
  <2>4. WritesOK'
    BY <1>0, <1>19 DEF WritesOK, Cleanup
  <2>5. QED
    BY <2>1, <2>2, <2>3, <2>4 DEF IInv
<1>20. ASSUME Unsubscribe PROVE IInv'
  <2>1. CacheOK' /\ WritesOK'
    BY <1>0, <1>20 DEF CacheOK, WritesOK, Unsubscribe
  <2>2. ServerOK'
    BY <1>0, <1>20 DEF ServerOK, Unsubscribe
  <2>3. TasksOK'
    BY <1>0, <1>20 DEF TasksOK, Unsubscribe
  <2>4. HistoryOK'
    BY <1>0, <1>20 DEF HistoryOK, Unsubscribe
  <2>5. QED
    BY <2>1, <2>2, <2>3, <2>4 DEF IInv
<1>21. ASSUME CleanupEnds PROVE IInv'
  <2>1. ServerOK' /\ HistoryOK' /\ WritesOK'
    BY <1>0, <1>21 DEF ServerOK, HistoryOK, WritesOK, CleanupEnds
  <2>2. CacheOK'
    BY <1>0, <1>21 DEF CacheOK, CleanupEnds
  <2>3. TasksOK'
    BY <1>0, <1>21 DEF TasksOK, CleanupEnds
  <2>4. QED
    BY <2>1, <2>2, <2>3 DEF IInv
<1>22. CASE UNCHANGED vars
  BY <1>0, <1>22 DEF IInv, ServerOK, CacheOK, TasksOK, HistoryOK, WritesOK, vars
<1>23. QED
  BY <1>1, <1>2, <1>3, <1>4, <1>5, <1>6, <1>7, <1>8, <1>9, <1>10, <1>11,
     <1>12, <1>13, <1>14, <1>15, <1>16, <1>17, <1>18, <1>19, <1>20, <1>21, <1>22
  DEF Next, ServerStep, ClientStep, UserStep

-----------------------------------------------------------------------------
(***************************************************************************)
(* The theorems.                                                           *)
(***************************************************************************)

\* The invariant holds throughout.
THEOREM Invariance == Spec => []IInv
BY InitIInv, NextIInv, PTL DEF Spec

\* Whatever the client, the server and the other writers do, every variable of the File
\* object and of the watcher keeps to its domain: no error object, no removed file ever
\* gets into cache_stringContent.
THEOREM TypeCorrect == Spec => []TypeOK
<1>1. IInv => TypeOK
  BY IInvIsStronger
<1>2. QED
  BY <1>1, Invariance, PTL

\* setStringContent without awaitCommit: the value waits in the onFinishedFn of the
\* operation under way, and is written next, however that operation ends.
THEOREM NoAssignmentIsLost == Spec => []NoAssignmentLost
<1>1. IInv => NoAssignmentLost
  BY IInvIsStronger
<1>2. QED
  BY <1>1, Invariance, PTL

\* cache_stringContent_unCommitted is what the last write operation in line writes.
THEOREM UncommittedIsLast == Spec => []UncommittedIsWrittenLast
<1>1. IInv => UncommittedIsWrittenLast
  BY IInvIsStronger
<1>2. QED
  BY <1>1, Invariance, PTL
=============================================================================
