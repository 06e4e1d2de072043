------------------------ MODULE FileListeners_proofs ------------------------
(***************************************************************************)
(* Theorems about FileSync: once everything has settled without a race,    *)
(* the change listeners have been called for what the cache holds.  They   *)
(* are skipped only during a write operation.  While it is not confirmed,  *)
(* its end makes up for that; once it is, news of a later version, or an   *)
(* end that is a race, are still to come.                                  *)
(***************************************************************************)
EXTENDS FileFreshness_proofs

-----------------------------------------------------------------------------
(***************************************************************************)
(* The invariant.                                                          *)
(***************************************************************************)

\* An answer of the latest version has the content on disk, and an operation has a version
\* once it is written.
AnswersTrue ==
  /\ \A r \in Task : refreshes[r].pc = "answered" /\ refreshes[r].version = disk.version
                       => refreshes[r].content = disk.content
  /\ op.pc \notin {"written", "confirm"} => op.version = 0

Subscribing == query.pc = "subscribe" \/ op.pc \in {"subscribe", "writing", "written"}

\* The File object says that it watches whenever the server notifies it or a write is under
\* way; cleanup comes between without a race only when neither is the case.
WatchOK ==
  races = {} =>
    /\ subscribed \/ Subscribing \/ removal \in {"off", "offDone"} => watching
    /\ removal = "offDone" => ~subscribed /\ ~Subscribing

\* A write that is confirmed is written and still unanswered, and the cache holds its
\* content, unless the disk or the cache has gone on.
ConfirmedOK ==
  races = {} /\ op.confirmed =>
    /\ op.pc = "written" /\ op.version <= newest.content
    /\ cache = NoValue /\ op.version = newest.content /\ newest.content = disk.version
         => removal = "off"

\* News of the latest version have still to come.
Coming == Announced \/ (Noticed /\ lastState.version # disk.version)

\* Listeners that are not informed will be, or a race will happen.
InformedOK ==
  races = {} /\ ~informed =>
    /\ stat # "unknown"
    /\ \/ op.pc # "none" /\ ~op.confirmed
       \/ op.pc = "written" /\ op.confirmed /\ op.version < newest.content
       \/ Coming
       \/ removal = "off"

LInv == FInv /\ AnswersTrue /\ WatchOK /\ ConfirmedOK /\ InformedOK

\* The conclusion.
LEMMA LInvIsStronger == LInv => ListenersAreInformed
<1> SUFFICES ASSUME LInv, Quiet, races = {}, ~informed PROVE FALSE
  BY DEF ListenersAreInformed
<1>1. Len(events) = 0
  BY DEF Quiet
<1>2. ~Coming
  BY <1>1 DEF Coming, Announced, Noticed, Quiet, Task
<1>3. QED
  BY <1>2 DEF LInv, InformedOK, Quiet

\* What is fresh without a race.
LEMMA FreshWithoutRace ==
  ASSUME FInv, races = {}
  PROVE  ContentsFresh /\ StatsFresh
BY DEF FInv, ContentOK, StatOK, NoContentRace, NoStatRace

-----------------------------------------------------------------------------
(***************************************************************************)
(* What is still to come.                                                  *)
(***************************************************************************)

\* News are not lost by a step of the client that leaves events and refreshes alone, ...
LEMMA NewsStay ==
  ASSUME UNCHANGED <<disk, dirty, reading, lastState, events>>,
         \A r \in Task : refreshes[r].pc # "idle" =>
           refreshes'[r].pc # "idle" /\ refreshes'[r].event = refreshes[r].event
  PROVE  Coming => Coming'
BY DEF Coming, Announced, Noticed

\* ... a change of the disk is news for a client that is subscribed, ...
LEMMA ChangeIsComing ==
  ASSUME FInv, subscribed, NEW content, ChangeDisk(content), lastState' = lastState
  PROVE  Coming'
<1>1. disk'.version = disk.version + 1
  BY DEF ChangeDisk, Read
<1>2. lastState.version < disk'.version /\ lastState.version \in Nat
  BY <1>1, VersionTypes DEF FInv, VersionsOK
<1>3. "polling" \in dirty'
  BY DEF ChangeDisk, Watcher
<1>4. QED
  BY <1>1, <1>2, <1>3, VersionTypes DEF Coming, Noticed, FInv

\* ... and a watcher that reports it makes it an event, unless the change was masked.
LEMMA ReportIsComing ==
  ASSUME FInv, subscribed, NEW exists, Report(exists), UNCHANGED <<disk, refreshes>>,
         races' = {}
  PROVE  Coming => Coming'
<1> DEFINE event == [exists |-> exists, version |-> disk.version]
<1>1. CASE events' = Append(events, event)
  <2>1. Len(events') \in 1..Len(events') /\ events'[Len(events')] = event
    BY <1>1 DEF FInv, IInv, ServerOK
  <2>2. QED
    BY <2>1 DEF Coming, Announced
<1>2. CASE events' = events /\ disk.content = lastState.content
  <2>1. disk.version = lastState.version
    BY <1>2 DEF Report
  <2>2. QED
    BY <1>2, <2>1 DEF Coming, Announced
<1>3. QED
  BY <1>1, <1>2 DEF Report

-----------------------------------------------------------------------------
(***************************************************************************)
(* The answers, and the subscription.                                      *)
(***************************************************************************)

\* The version of an operation that ends or starts.
LEMMA FinishedOp ==
  ASSUME FinishOp
  PROVE  op'.version = 0 /\ ~op'.confirmed /\ op'.pc \in {"none", "calm"}
BY DEF FinishOp, StartOp, NoOp

\* Most steps change neither the disk nor a refresh.
LEMMA RefreshingSteps ==
  ASSUME [Next]_vars
  PROVE  \/ UNCHANGED <<disk, refreshes>>
         \/ UNCHANGED refreshes /\ \E content : ChangeDisk(content)
         \/ ServerAnswers \/ HandleChange \/ \E r \in Task : RefreshEnds(r)
<1> USE DEF serverVars, cacheVars, taskVars, writeVars, vars, Task
<1>1. ServerStep =>
        \/ UNCHANGED <<disk, refreshes>>
        \/ UNCHANGED refreshes /\ \E content : ChangeDisk(content)
        \/ ServerAnswers
  BY DEF ServerStep, Fire, HandlerReads, WriteEnds, Subscribe, Unsubscribe
<1>2. ClientStep => \/ UNCHANGED <<disk, refreshes>>
                    \/ HandleChange \/ \E r \in Task : RefreshEnds(r)
  BY DEF ClientStep, CalmDown, WriteAnswered, ConfirmTimeout, TakeAnswer, Cleanup, CleanupEnds
<1>3. UserStep => \/ UNCHANGED <<disk, refreshes>>
                  \/ UNCHANGED refreshes /\ \E content : ChangeDisk(content)
  BY DEF UserStep, SetAndAwait, SetLazily, BeginQuery, Remove
<1>4. WriteBegins \/ WriteFails \/ OtherChanges =>
        \/ UNCHANGED <<disk, refreshes>>
        \/ UNCHANGED refreshes /\ \E content : ChangeDisk(content)
  BY DEF WriteBegins, WriteFails, OtherChanges
<1>5. QED
  BY <1>1, <1>2, <1>3, <1>4 DEF Next

\* A refreshed cache confirms the write operation, ends it or leaves it alone.
LEMMA FlippedOp ==
  ASSUME IInv, NEW event, NEW content, NEW version, Flip(event, content, version)
  PROVE  \/ UNCHANGED op
         \/ op.pc = "confirm" /\ FinishOp
         \/ /\ op.pc \notin {"none", "confirm"}
            /\ op'.pc = op.pc /\ op'.version = op.version /\ op'.value = op.value
            /\ op'.confirmed /\ op.value = content
<1>1. CASE op' = [op EXCEPT !.confirmed = TRUE] /\ op.pc # "none" /\ op.pc # "confirm"
           /\ op.value = content
  BY <1>1 DEF IInv, WritesOK, Op
<1>2. QED
  BY <1>1 DEF Flip, writeVars

\* An operation has a version only once it is written.
LEMMA NextOpVersion ==
  ASSUME IInv, [Next]_vars, op.pc \notin {"written", "confirm"} => op.version = 0,
         op'.pc \notin {"written", "confirm"}
  PROVE  op'.version = 0
<1> USE DEF serverVars, cacheVars, taskVars, writeVars, vars
<1>0. op \in Op
  BY DEF IInv, WritesOK
<1>1. CASE UNCHANGED op
  BY <1>1
<1>2. CASE FinishOp
  BY <1>2, FinishedOp
<1>3. CASE CalmDown
  BY <1>0, <1>3 DEF CalmDown, Op
<1>4. CASE \E value \in Content : SetAndAwait(value) \/ SetLazily(value)
  BY <1>0, <1>4 DEF SetAndAwait, SetLazily, StartOp, NoOp, Op
<1>5. CASE Subscribe
  BY <1>0, <1>5 DEF Subscribe, Op
<1>6. CASE WriteBegins
  BY <1>0, <1>6 DEF WriteBegins, Op
<1>7. CASE WriteEnds \/ WriteAnswered
  BY <1>0, <1>2, <1>7 DEF WriteEnds, WriteAnswered, Op
<1>8. ASSUME NEW event, NEW content, NEW version, Flip(event, content, version)
      PROVE  op'.version = 0
  BY <1>2, <1>8, FlippedOp
<1>9. CASE HandleChange
  BY <1>1, <1>8, <1>9 DEF HandleChange
<1>10. ASSUME NEW r \in 1..MaxRefreshes, RefreshEnds(r) PROVE op'.version = 0
  BY <1>8, <1>10 DEF RefreshEnds
<1>11. CASE ServerStep
  BY <1>1, <1>5, <1>7, <1>11 DEF ServerStep, Fire, HandlerReads, ServerAnswers, Unsubscribe
<1>12. CASE ClientStep
  BY <1>1, <1>2, <1>3, <1>7, <1>9, <1>10, <1>12
  DEF ClientStep, ConfirmTimeout, TakeAnswer, Cleanup, CleanupEnds
<1>13. CASE UserStep
  BY <1>1, <1>4, <1>13 DEF UserStep, BeginQuery, Remove
<1>14. CASE WriteFails \/ OtherChanges \/ UNCHANGED vars
  BY <1>1, <1>2, <1>14 DEF WriteFails, OtherChanges
<1>15. QED
  BY <1>6, <1>11, <1>12, <1>13, <1>14 DEF Next

\* Answers are true when they are given, and a change of the disk makes them old.
LEMMA NextAnswersTrue == FInv /\ AnswersTrue /\ [Next]_vars => AnswersTrue'
<1> SUFFICES ASSUME FInv, AnswersTrue, [Next]_vars PROVE AnswersTrue'
  OBVIOUS
<1>0. IInv /\ VersionsOK
  BY DEF FInv
<1> DEFINE True(r) == refreshes[r].pc = "answered" /\ refreshes[r].version = disk.version
                        => refreshes[r].content = disk.content
<1>1. \A r \in Task : True(r)'
  <2>0. \A r \in Task : True(r)
    BY DEF AnswersTrue
  <2>1. CASE UNCHANGED <<disk, refreshes>>
    BY <2>0, <2>1
  <2>2. CASE UNCHANGED refreshes /\ \E content : ChangeDisk(content)
    <3>1. disk'.version = disk.version + 1
      BY <2>2 DEF ChangeDisk, Read
    <3>2. QED
      BY <1>0, <2>2, <3>1, VersionTypes DEF VersionsOK
  <2>3. CASE ServerAnswers
    <3>1. CASE UNCHANGED refreshes
      BY <2>0, <2>3, <3>1 DEF ServerAnswers
    <3>2. ASSUME NEW s \in Task, refreshes' = [refreshes EXCEPT ![s] = Answered(@)]
          PROVE  \A r \in Task : True(r)'
      <4>1. refreshes'[s] = Answered(refreshes[s])
            /\ \A r \in Task : r # s => refreshes'[r] = refreshes[r]
        BY <1>0, <3>2 DEF IInv, TasksOK, Task
      <4>2. refreshes'[s].content = disk.content
        BY <1>0, <4>1, VersionTypes DEF Answered, Refresh
      <4>3. disk' = disk
        BY <2>3 DEF ServerAnswers
      <4>4. QED
        BY <2>0, <4>1, <4>2, <4>3
    <3>3. QED
      BY <2>3, <3>1, <3>2 DEF ServerAnswers, Task
  <2>4. CASE HandleChange
    <3>1. CASE UNCHANGED refreshes
      BY <2>0, <2>4, <3>1 DEF HandleChange
    <3>2. ASSUME NEW s \in Task,
                 refreshes' = [refreshes EXCEPT ![s].pc = "ask", ![s].event = Head(events)]
          PROVE  \A r \in Task : True(r)'
      <4>1. refreshes'[s].pc = "ask"
            /\ \A r \in Task : r # s => refreshes'[r] = refreshes[r]
        BY <1>0, <3>2 DEF IInv, TasksOK, Task, Refresh
      <4>2. disk' = disk
        BY <2>4 DEF HandleChange
      <4>3. QED
        BY <2>0, <4>1, <4>2
    <3>3. QED
      BY <2>4, <3>1, <3>2 DEF HandleChange, Task
  <2>5. ASSUME NEW s \in Task, RefreshEnds(s) PROVE \A r \in Task : True(r)'
    <3>1. refreshes'[s].pc = "idle"
          /\ \A r \in Task : r # s => refreshes'[r] = refreshes[r]
      BY <1>0, <2>5 DEF RefreshEnds, NoRefresh, IInv, TasksOK, Task
    <3>2. disk' = disk
      BY <2>5 DEF RefreshEnds
    <3>3. QED
      BY <2>0, <3>1, <3>2
  <2>6. QED
    BY <2>1, <2>2, <2>3, <2>4, <2>5, RefreshingSteps
<1>2. op'.pc \notin {"written", "confirm"} => op'.version = 0
  BY <1>0, NextOpVersion DEF AnswersTrue
<1>3. QED
  BY <1>1, <1>2 DEF AnswersTrue

\* Races only accumulate.
LEMMA RacesGrow == [Next]_vars => races \subseteq races'
<1> SUFFICES ASSUME [Next]_vars PROVE races \subseteq races'
  OBVIOUS
<1> USE DEF serverVars, cacheVars, taskVars, writeVars, vars
<1>1. ServerStep => races \subseteq races'
  BY DEF ServerStep, Fire, HandlerReads, Report, WriteEnds, Subscribe, ServerAnswers,
         Unsubscribe
<1>2. ClientStep => races \subseteq races'
  <2>1. ASSUME NEW event, NEW content, NEW version, Flip(event, content, version)
        PROVE  races \subseteq races'
    BY <2>1 DEF Flip
  <2>2. ASSUME HandleChange PROVE races \subseteq races'
    BY <2>1, <2>2 DEF HandleChange
  <2>3. ASSUME NEW r \in 1..MaxRefreshes, RefreshEnds(r) PROVE races \subseteq races'
    BY <2>1, <2>3 DEF RefreshEnds
  <2>4. ASSUME TakeAnswer PROVE races \subseteq races'
    BY <2>4 DEF TakeAnswer
  <2>5. ASSUME CalmDown \/ WriteAnswered \/ ConfirmTimeout \/ Cleanup \/ CleanupEnds
        PROVE  races \subseteq races'
    BY <2>5 DEF CalmDown, WriteAnswered, ConfirmTimeout, Cleanup, CleanupEnds
  <2>6. QED
    BY <2>2, <2>3, <2>4, <2>5 DEF ClientStep
<1>3. UserStep => races \subseteq races'
  BY DEF UserStep, SetAndAwait, SetLazily, BeginQuery, Remove
<1>4. WriteBegins \/ WriteFails \/ OtherChanges => races \subseteq races'
  BY DEF WriteBegins, WriteFails, OtherChanges
<1>5. QED
  BY <1>1, <1>2, <1>3, <1>4 DEF Next

\* Nothing that needs a subscription is under way while cleanup gives it up.
LEMMA NextWatchOK == IInv /\ WatchOK /\ [Next]_vars => WatchOK'
<1> SUFFICES ASSUME IInv, WatchOK, [Next]_vars, races' = {} PROVE WatchOK'
  BY DEF WatchOK
<1> USE DEF serverVars, cacheVars, taskVars, writeVars, vars
<1>0. /\ subscribed \/ Subscribing \/ removal \in {"off", "offDone"} => watching
      /\ removal = "offDone" => ~subscribed /\ ~Subscribing
  BY RacesGrow DEF WatchOK
<1>a. op \in Op /\ query \in Query /\ subscribed \in BOOLEAN /\ watching \in BOOLEAN
      /\ removal \in {"idle", "removed", "off", "offDone"}
  BY DEF IInv, WritesOK, TasksOK, ServerOK, CacheOK
<1>1. ASSUME UNCHANGED <<subscribed, watching, removal>>, Subscribing' => Subscribing
      PROVE  WatchOK'
  BY <1>0, <1>1 DEF WatchOK
<1>2. ASSUME UNCHANGED <<query, subscribed, watching, removal>>, FinishOp PROVE WatchOK'
  BY <1>1, <1>2, FinishedOp DEF Subscribing
<1>3. CASE UNCHANGED <<query, op, subscribed, watching, removal>>
  BY <1>1, <1>3 DEF Subscribing
<1>4. CASE WriteEnds
  BY <1>a, <1>1, <1>4 DEF WriteEnds, Subscribing, Op
<1>5. CASE Subscribe
  <2>1. Subscribing /\ subscribed' /\ UNCHANGED <<watching, removal>>
    BY <1>5 DEF Subscribe, Subscribing
  <2>2. QED
    BY <1>0, <2>1 DEF WatchOK
<1>6. CASE ServerAnswers
  BY <1>a, <1>1, <1>6 DEF ServerAnswers, Answered, Subscribing, Query
<1>7. CASE Unsubscribe
  <2>1. ~KeptUnwatched
    BY <1>7 DEF Unsubscribe
  <2>2. ~Subscribing'
    BY <1>7, <2>1 DEF Unsubscribe, KeptUnwatched, Subscribing
  <2>3. removal = "off" /\ watching' = watching /\ ~subscribed'
    BY <1>7 DEF Unsubscribe
  <2>4. QED
    BY <1>0, <2>2, <2>3 DEF WatchOK
<1>8. CASE CalmDown
  <2>1. watching' /\ UNCHANGED <<query, subscribed, removal>> /\ op'.pc \in {"request", "subscribe"}
        /\ (op'.pc = "subscribe" => ~watching)
    BY <1>a, <1>8 DEF CalmDown, AfterEnsureWatches, Op
  <2>2. QED
    BY <1>0, <2>1 DEF WatchOK, Subscribing
<1>9. CASE WriteBegins
  <2>1. subscribed
    BY <1>9 DEF WriteBegins, Unsubscribed
  <2>2. UNCHANGED <<subscribed, watching, removal>>
    BY <1>9 DEF WriteBegins
  <2>3. QED
    BY <1>0, <2>1, <2>2 DEF WatchOK
<1>10. CASE WriteFails \/ ConfirmTimeout
  BY <1>2, <1>10 DEF WriteFails, ConfirmTimeout
<1>11. CASE WriteAnswered
  <2>1. op'.pc \in {"none", "calm", "confirm"}
    BY <1>a, <1>11, FinishedOp DEF WriteAnswered, Op
  <2>2. QED
    BY <1>1, <1>11, <2>1 DEF WriteAnswered, Subscribing
<1>12. CASE TakeAnswer
  BY <1>1, <1>12 DEF TakeAnswer, NoQuery, Subscribing
<1>13. ASSUME NEW event, NEW content, NEW version, Flip(event, content, version),
              UNCHANGED <<query, subscribed, watching, removal>>
       PROVE  WatchOK'
  <2>1. op'.pc = op.pc \/ op'.pc \in {"none", "calm"}
    BY <1>13, FlippedOp, FinishedOp
  <2>2. QED
    BY <1>1, <1>13, <2>1 DEF Subscribing
<1>14. CASE HandleChange
  BY <1>3, <1>13, <1>14 DEF HandleChange
<1>15. ASSUME NEW r \in 1..MaxRefreshes, RefreshEnds(r) PROVE WatchOK'
  BY <1>13, <1>15 DEF RefreshEnds
<1>16. CASE Cleanup
  <2>1. UNCHANGED <<query, op, subscribed, watching>> /\ removal' # "offDone"
        /\ (removal' = "off" => watching)
    BY <1>16 DEF Cleanup
  <2>2. QED
    BY <1>0, <2>1 DEF WatchOK, Subscribing
<1>17. CASE CleanupEnds
  <2>1. removal = "offDone" /\ removal' = "idle" /\ UNCHANGED <<query, op, subscribed>>
    BY <1>17 DEF CleanupEnds
  <2>2. QED
    BY <1>0, <2>1 DEF WatchOK, Subscribing
<1>18. ASSUME NEW of \in {"stat", "content"}, BeginQuery(of) PROVE WatchOK'
  <2>1. watching' /\ UNCHANGED <<op, subscribed, removal>>
        /\ (query'.pc = "subscribe" => ~watching)
    BY <1>18 DEF BeginQuery, AfterEnsureWatches, NoQuery
  <2>2. QED
    BY <1>0, <2>1 DEF WatchOK, Subscribing
<1>19. CASE Remove
  <2>1. removal' = "removed" /\ UNCHANGED <<query, op, subscribed, watching>>
    BY <1>19 DEF Remove
  <2>2. QED
    BY <1>0, <2>1 DEF WatchOK, Subscribing
<1>20. ASSUME NEW value \in Content, SetAndAwait(value) \/ SetLazily(value) PROVE WatchOK'
  <2>1. op'.pc = "calm" \/ op'.pc = op.pc
    BY <1>a, <1>20 DEF SetAndAwait, SetLazily, StartOp, NoOp, Op
  <2>2. QED
    BY <1>1, <1>20, <2>1 DEF SetAndAwait, SetLazily, Subscribing
<1>21. CASE ServerStep
  BY <1>3, <1>4, <1>5, <1>6, <1>7, <1>21 DEF ServerStep, Fire, HandlerReads
<1>22. CASE ClientStep
  BY <1>8, <1>10, <1>11, <1>12, <1>14, <1>15, <1>16, <1>17, <1>22 DEF ClientStep
<1>23. CASE UserStep
  BY <1>18, <1>19, <1>20, <1>23 DEF UserStep
<1>24. CASE OtherChanges \/ UNCHANGED vars
  BY <1>3, <1>24 DEF OtherChanges
<1>25. QED
  BY <1>9, <1>10, <1>21, <1>22, <1>23, <1>24 DEF Next

-----------------------------------------------------------------------------
(***************************************************************************)
(* The listeners.                                                          *)
(***************************************************************************)

\* The cache is refreshed with version, because of an event: what an operation has written
\* is skipped only where no content is cached, and the news of another version stay.
LEMMA FlipInforms ==
  ASSUME LInv, races = {}, races' = {}, UNCHANGED <<disk, dirty, reading, lastState, removal>>,
         NEW event \in Event, NEW content, NEW version \in Nat,
         Flip(event, content, version), version <= disk.version,
         version # disk.version /\ Announced => Announced',
         op.pc = "written" /\ op.version = disk.version /\ version = disk.version =>
           content = op.value \/ (content = NoValue /\ cache = NoValue)
  PROVE  ConfirmedOK' /\ InformedOK'
<1>0. /\ IInv /\ op.version \in Nat /\ newest.content \in Nat /\ disk.version \in Nat
      /\ newest.content <= disk.version /\ op \in Op
      /\ (op.pc # "none" => op.value \in Content)
      /\ (op.confirmed => op.pc = "written" /\ op.version <= newest.content)
  BY VersionTypes DEF LInv, FInv, VersionsOK, ConfirmedOK, IInv, WritesOK
<1>1. /\ stat' = event.exists /\ stat' # "unknown" /\ cache' = content
      /\ newest'.content = Later(version, newest.content)
      /\ ~(version < newest.content)
      /\ Early(content, version) = {}
      /\ informed' = Informs(content)
  <2>1. /\ stat' = event.exists /\ cache' = content /\ informed' = Informs(content)
        /\ newest'.content = Later(version, newest.content)
    BY DEF Flip
  <2>2. Overtaken(version, newest.content) = {} /\ Early(content, version) = {}
    BY DEF Flip
  <2>3. ~(version < newest.content)
    BY <2>2 DEF Overtaken
  <2>4. event.exists # "unknown"
    BY DEF Event, Exists
  <2>5. QED
    BY <2>1, <2>2, <2>3, <2>4
<1>2. newest'.content = version /\ newest.content <= version
  BY <1>0, <1>1 DEF Later
<1>3. CASE op.pc = "none"
  BY <1>0, <1>1, <1>3 DEF Flip, Informs, writeVars, ConfirmedOK, InformedOK
<1>4. CASE op.pc # "none" /\ op.value # content
  <2>1. op' = op
    BY <1>4 DEF Flip, writeVars
  <2>2. CASE ~op.confirmed
    BY <1>1, <1>4, <2>1, <2>2 DEF ConfirmedOK, InformedOK
  <2>3. CASE op.confirmed /\ op.version < version
    BY <1>0, <1>1, <1>2, <2>1, <2>3 DEF ConfirmedOK, InformedOK
  <2>4. CASE op.confirmed /\ op.version = version /\ version = disk.version
    <3>1. newest.content = disk.version /\ cache = NoValue
      BY <1>0, <1>2, <1>4, <2>4
    <3>2. removal = "off"
      BY <2>4, <3>1 DEF LInv, ConfirmedOK
    <3>3. QED
      BY <1>0, <1>1, <1>2, <2>1, <2>4, <3>2 DEF ConfirmedOK, InformedOK
  <2>5. CASE op.confirmed /\ op.version = version /\ version # disk.version
    <3>1. newest.content = op.version
      BY <1>0, <1>2, <2>5
    <3>2. ContentFresh(op.value, op.version)
      BY <1>0, <2>5, FreshWithoutRace DEF LInv, ContentsFresh, Holds
    <3>3. Coming
      BY <2>5, <3>1, <3>2 DEF ContentFresh, Coming
    <3>4. Coming'
      BY <2>5, <3>3 DEF Coming, Noticed
    <3>5. QED
      BY <1>0, <1>1, <1>2, <2>1, <2>5, <3>4 DEF ConfirmedOK, InformedOK
  <2>6. QED
    BY <1>0, <1>2, <2>2, <2>3, <2>4, <2>5
<1>5. CASE op.pc # "none" /\ op.value = content
  <2>1. informed'
    BY <1>1, <1>5 DEF Informs
  <2>2. op.version # 0 /\ op.version <= version
    BY <1>0, <1>1, <1>5 DEF Early
  <2>3. op.pc \in {"written", "confirm"}
    BY <2>2 DEF LInv, AnswersTrue
  <2>4. CASE op.pc = "confirm"
    <3>1. ~op'.confirmed
      BY <1>5, <2>4, FinishedOp DEF Flip
    <3>2. QED
      BY <2>1, <3>1 DEF ConfirmedOK, InformedOK
  <2>5. CASE op.pc = "written"
    <3>1. op'.pc = "written" /\ op'.version = op.version
      BY <1>0, <1>5, <2>5 DEF Flip, Op
    <3>2. cache' # NoValue
      BY <1>0, <1>1, <1>5, FileSyncAssumption
    <3>3. QED
      BY <1>2, <2>1, <2>2, <3>1, <3>2 DEF ConfirmedOK, InformedOK
  <2>6. QED
    BY <2>3, <2>4, <2>5
<1>6. QED
  BY <1>3, <1>4, <1>5

\* A step keeps an operation that is under way: neither its confirmation nor its end come.
OpKept ==
  /\ op'.confirmed => op.confirmed /\ op'.pc = op.pc /\ op'.version = op.version
  /\ op.pc # "none" /\ ~op.confirmed => op'.pc # "none" /\ ~op'.confirmed
  /\ op.confirmed /\ op.version < newest.content =>
       op'.confirmed /\ op'.pc = op.pc /\ op'.version = op.version

\* Other steps leave the listeners to the news that come, to the operation or to cleanup.
LEMMA OthersInform ==
  ASSUME LInv, races = {}, races' = {}, UNCHANGED informed,
         stat # "unknown" => stat' # "unknown",
         cache' = NoValue => cache = NoValue,
         newest'.content \in Nat, newest.content <= newest'.content,
         newest'.content <= disk'.version,
         disk'.version \in Nat, disk.version <= disk'.version,
         OpKept,
         ~informed /\ Coming => Coming',
         removal = "off" => removal' = "off"
  PROVE  ConfirmedOK' /\ InformedOK'
<1>0. op.version \in Nat /\ newest.content \in Nat /\ disk.version \in Nat
      /\ newest.content <= disk.version /\ op.version <= disk.version
  BY VersionTypes DEF LInv, FInv, VersionsOK
<1>1. ConfirmedOK'
  <2> SUFFICES ASSUME op'.confirmed
               PROVE  /\ op'.pc = "written" /\ op'.version <= newest'.content
                      /\ cache' = NoValue /\ op'.version = newest'.content
                           /\ newest'.content = disk'.version => removal' = "off"
    BY DEF ConfirmedOK
  <2>1. op.confirmed /\ op.pc = "written" /\ op.version <= newest.content
    BY DEF LInv, ConfirmedOK, OpKept
  <2>2. ASSUME cache' = NoValue, op'.version = newest'.content,
               newest'.content = disk'.version
        PROVE  removal' = "off"
    <3>1. op.version = newest.content /\ newest.content = disk.version
      BY <1>0, <2>1, <2>2 DEF OpKept
    <3>2. QED
      BY <2>1, <2>2, <3>1 DEF LInv, ConfirmedOK
  <2>3. QED
    BY <1>0, <2>1, <2>2 DEF OpKept
<1>2. InformedOK'
  <2> SUFFICES ASSUME ~informed PROVE InformedOK'
    BY DEF InformedOK
  <2>1. stat' # "unknown"
    BY DEF LInv, InformedOK
  <2>2. CASE op.pc # "none" /\ ~op.confirmed
    BY <2>1, <2>2 DEF InformedOK, OpKept
  <2>3. CASE op.pc = "written" /\ op.confirmed /\ op.version < newest.content
    <3>1. op'.pc = "written" /\ op'.confirmed /\ op'.version < newest'.content
      BY <1>0, <2>3 DEF OpKept
    <3>2. QED
      BY <2>1, <3>1 DEF InformedOK
  <2>4. CASE Coming \/ removal = "off"
    BY <2>1, <2>4 DEF InformedOK
  <2>5. QED
    BY <2>2, <2>3, <2>4 DEF LInv, InformedOK
<1>3. QED
  BY <1>1, <1>2

\* The cache is told of every change, so a client whose listeners have been skipped is
\* subscribed.
LEMMA UninformedIsSubscribed ==
  ASSUME LInv, races = {}, ~informed
  PROVE  subscribed
<1>1. StatsFresh /\ stat # "unknown"
  BY FreshWithoutRace DEF LInv, InformedOK
<1>2. QED
  BY <1>1 DEF StatsFresh, Claims

\* An event is taken off the queue, to begin a refresh perhaps: the news of the latest
\* version stay, unless they were that event's.
LEMMA TakenNews ==
  ASSUME IInv, events # <<>>, events' = Tail(events), UNCHANGED disk,
         \A r \in Task : refreshes[r].pc # "idle" =>
           refreshes'[r].pc # "idle" /\ refreshes'[r].event = refreshes[r].event,
         \/ Head(events).version # disk.version
         \/ \E r \in Task : refreshes'[r].pc # "idle" /\ refreshes'[r].event = Head(events)
  PROVE  Announced => Announced'
<1>1. CASE \E r \in Task : refreshes[r].pc # "idle" /\ refreshes[r].event.version = disk.version
  BY <1>1 DEF Announced
<1>2. ASSUME NEW i \in 1..Len(events), events[i].version = disk.version PROVE Announced'
  <2>1. CASE i = 1
    BY <1>2, <2>1, EventsMoveUp DEF Announced
  <2>2. CASE i # 1
    BY <1>2, <2>2, EventsMoveUp DEF Announced
  <2>3. QED
    BY <2>1, <2>2
<1>3. QED
  BY <1>1, <1>2 DEF Announced

\* An event is applied at once without a cached content or without a file; then no operation
\* has written a content that it skips.
LEMMA HandleChangeInforms ==
  ASSUME LInv, FInv', races = {}, races' = {}, HandleChange
  PROVE  ConfirmedOK' /\ InformedOK'
<1> DEFINE event == Head(events)
<1>0. /\ UNCHANGED <<disk, dirty, reading, lastState, removal>>
      /\ events # <<>> /\ events' = Tail(events) /\ FInv /\ IInv
  BY DEF HandleChange, LInv, FInv
<1>1. /\ 1 \in 1..Len(events) /\ event = events[1]
      /\ event \in Event /\ event.version \in Nat /\ event.version <= disk.version
  BY <1>0, EventsMoveUp, VersionTypes DEF FInv, VersionsOK
<1>2. ASSUME NEW r \in Task, refreshes[r].pc = "idle",
             refreshes' = [refreshes EXCEPT ![r].pc = "ask", ![r].event = event],
             UNCHANGED <<cacheVars, writeVars>>
      PROVE  ConfirmedOK' /\ InformedOK'
  <2>1. /\ refreshes'[r].pc = "ask" /\ refreshes'[r].event = event
        /\ \A s \in Task : s # r => refreshes'[s] = refreshes[s]
    BY <1>0, <1>2 DEF IInv, TasksOK, Task, Refresh
  <2>2. Announced => Announced'
    BY <1>0, <1>2, <2>1, TakenNews
  <2>3. Coming => Coming'
    BY <1>0, <2>2 DEF Coming, Noticed
  <2>4. OpKept
    BY <1>2 DEF OpKept, writeVars
  <2>5. UNCHANGED <<stat, cache, informed, newest>>
    BY <1>2 DEF cacheVars
  <2>6. newest.content \in Nat /\ newest.content <= disk.version /\ disk.version \in Nat
    BY <1>0, VersionTypes DEF FInv, VersionsOK
  <2>7. QED
    BY <1>0, <2>3, <2>4, <2>5, <2>6, OthersInform
<1>3. ASSUME ~(event.exists = "yes" /\ cache # NoValue),
             Flip(event, NoValue, event.version), UNCHANGED refreshes
      PROVE  ConfirmedOK' /\ InformedOK'
  <2>1. ASSUME event.version # disk.version PROVE Announced => Announced'
    BY <1>0, <1>3, <2>1, TakenNews
  <2>2. ASSUME op.pc = "written", op.version = disk.version, event.version = disk.version
        PROVE  cache = NoValue
    <3>1. Holds(op.value, op.version)
      BY <2>2 DEF Holds
    <3>2. subscribed /\ op.value = disk.content
      BY <1>0, <2>2, <3>1, FreshWithoutRace DEF ContentsFresh, ContentFresh
    <3>3. disk.content # Gone
      BY <1>0, <2>2, <3>2, FileSyncAssumption DEF IInv, WritesOK
    <3>4. StatFresh(event.exists, event.version)
      BY <1>0, <1>1, <3>2, FreshWithoutRace DEF StatsFresh
    <3>5. event.exists = "yes"
      BY <2>2, <3>3, <3>4 DEF StatFresh
    <3>6. QED
      BY <1>3, <3>5
  <2>3. QED
    BY <1>0, <1>1, <1>3, <2>1, <2>2, FlipInforms
<1>4. QED
  BY <1>2, <1>3 DEF HandleChange, Task

\* The content of a refresh is applied.
LEMMA RefreshEndsInforms ==
  ASSUME LInv, races = {}, races' = {}, NEW r \in Task, RefreshEnds(r)
  PROVE  ConfirmedOK' /\ InformedOK'
<1> DEFINE f == refreshes[r]
<1>0. /\ UNCHANGED <<disk, dirty, reading, lastState, events, removal>>
      /\ f.pc = "answered" /\ Flip(f.event, Fetched(f.content), f.version)
      /\ FInv /\ IInv
  BY DEF RefreshEnds, serverVars, LInv, FInv
<1>1. /\ f.event \in Event /\ f.version \in Nat /\ f.version <= disk.version
      /\ f.event.version \in Nat /\ f.event.version <= f.version /\ disk.version \in Nat
  BY <1>0, VersionTypes DEF FInv, VersionsOK
<1>2. ASSUME f.version # disk.version PROVE Announced => Announced'
  <2>1. f.event.version # disk.version
    BY <1>1, <1>2
  <2>2. \A s \in Task : s # r => refreshes'[s] = refreshes[s]
    BY <1>0 DEF RefreshEnds, IInv, TasksOK, Task
  <2>3. QED
    BY <1>0, <2>1, <2>2 DEF Announced
<1>3. ASSUME op.pc = "written", op.version = disk.version, f.version = disk.version
      PROVE  Fetched(f.content) = op.value
  <2>1. Holds(op.value, op.version)
    BY <1>3 DEF Holds
  <2>2. op.value = disk.content
    BY <1>0, <1>3, <2>1, FreshWithoutRace DEF ContentsFresh, ContentFresh
  <2>3. f.content = disk.content
    BY <1>0, <1>3 DEF LInv, AnswersTrue
  <2>4. op.value # Gone
    BY <1>0, <1>3, FileSyncAssumption DEF IInv, WritesOK
  <2>5. QED
    BY <2>2, <2>3, <2>4 DEF Fetched
<1>4. QED
  BY <1>0, <1>1, <1>2, <1>3, FlipInforms

-----------------------------------------------------------------------------
(***************************************************************************)
(* Every step.                                                             *)
(***************************************************************************)

\* No step leaves the listeners without the news, unless it is a race.
LEMMA NextInformed ==
  ASSUME LInv, FInv', [Next]_vars, races = {}, races' = {}
  PROVE  ConfirmedOK' /\ InformedOK'
<1> USE DEF serverVars, cacheVars, taskVars, writeVars, vars
<1> DEFINE Goal == ConfirmedOK' /\ InformedOK'
<1> HIDE DEF Goal
<1> SUFFICES Goal
  BY DEF Goal
<1>0. /\ FInv /\ IInv /\ op \in Op
      /\ newest.content \in Nat /\ newest.content <= disk.version /\ disk.version \in Nat
      /\ newest'.content \in Nat /\ newest'.content <= disk'.version
      /\ disk'.version \in Nat
      /\ (op.confirmed => op.pc = "written" /\ op.version <= newest.content)
      /\ (~informed => subscribed /\ stat # "unknown")
  <2>1. FInv /\ IInv /\ op \in Op
    BY DEF LInv, FInv, IInv, WritesOK
  <2>2. newest.content \in Nat /\ newest.content <= disk.version /\ disk.version \in Nat
    BY <2>1, VersionTypes DEF FInv, VersionsOK
  <2>3. newest'.content \in Nat /\ newest'.content <= disk'.version /\ disk'.version \in Nat
    BY DEF FInv, VersionsOK, IInv, CacheOK, ServerOK
  <2>4. QED
    BY <2>1, <2>2, <2>3, UninformedIsSubscribed DEF LInv, ConfirmedOK, InformedOK
<1>1. ASSUME UNCHANGED <<stat, cache, informed, newest>>, OpKept,
             removal = "off" => removal' = "off",
             disk.version <= disk'.version, ~informed /\ Coming => Coming'
      PROVE  Goal
  BY <1>0, <1>1, OthersInform DEF Goal
<1>2. UNCHANGED op => OpKept
  BY DEF OpKept
\* Steps of the server.
<1>3. ASSUME UNCHANGED <<stat, cache, informed, newest, removal, op, disk>>,
             ~informed /\ Coming => Coming'
      PROVE  Goal
  BY <1>0, <1>1, <1>2, <1>3
<1>4. ASSUME NEW w \in Watcher, Fire(w) \/ HandlerReads(w) PROVE Goal
  <2>1. UNCHANGED <<stat, cache, informed, newest, removal, op, disk, subscribed, refreshes>>
    BY <1>4 DEF Fire, HandlerReads
  <2>2. CASE reading' = reading \cup {w} /\ UNCHANGED <<lastState, events>>
    <3>1. Coming => Coming'
      BY <2>1, <2>2 DEF Coming, Noticed, Announced
    <3>2. QED
      BY <1>3, <2>1, <3>1
  <2>3. ASSUME NEW exists, Report(exists) PROVE Goal
    <3>1. ~informed /\ Coming => Coming'
      BY <1>0, <2>1, <2>3, ReportIsComing
    <3>2. QED
      BY <1>3, <2>1, <3>1
  <2>4. (\E exists : Report(exists))
        \/ (reading' = reading \cup {w} /\ UNCHANGED <<lastState, events>>)
    BY <1>4 DEF Fire, HandlerReads
  <2>5. QED
    BY <2>2, <2>3, <2>4
<1>5. ASSUME NEW content, ChangeDisk(content), OpKept, removal = "off" => removal' = "off",
             UNCHANGED <<lastState, stat, cache, informed, newest>>
      PROVE  Goal
  <2>1. disk.version <= disk'.version
    BY <1>0, <1>5 DEF ChangeDisk, Read
  <2>2. ~informed => Coming'
    BY <1>0, <1>5, ChangeIsComing
  <2>3. QED
    BY <1>0, <1>1, <1>5, <2>1, <2>2
<1>6. CASE OtherChanges \/ Remove
  <2>1. UNCHANGED <<lastState, stat, cache, informed, newest, op>>
    BY <1>6 DEF OtherChanges, Remove
  <2>2. (\E content : ChangeDisk(content)) /\ (removal = "off" => removal' = "off")
    BY <1>6 DEF OtherChanges, Remove
  <2>3. QED
    BY <1>2, <1>5, <2>1, <2>2
<1>7. CASE WriteBegins
  <2>1. OpKept
    BY <1>0, <1>7 DEF WriteBegins, OpKept, Op
  <2>2. UNCHANGED <<lastState, stat, cache, informed, newest, removal>> /\ ChangeDisk(Torn)
    BY <1>7 DEF WriteBegins
  <2>3. QED
    BY <1>5, <2>1, <2>2
<1>8. CASE WriteEnds
  <2>1. OpKept
    BY <1>0, <1>8 DEF WriteEnds, OpKept, Op
  <2>2. UNCHANGED <<lastState, stat, cache, informed, newest, removal>> /\ ChangeDisk(op.value)
    BY <1>8 DEF WriteEnds
  <2>3. QED
    BY <1>5, <2>1, <2>2
\* Steps that leave the server and the refreshes alone.
<1>9. ASSUME UNCHANGED <<disk, dirty, reading, lastState, events, refreshes>>
      PROVE  Coming => Coming'
  BY <1>9 DEF Coming, Noticed, Announced
<1>10. ASSUME UNCHANGED <<disk, dirty, reading, lastState, events, refreshes, stat, cache,
                          informed, newest, removal>>,
              OpKept
       PROVE  Goal
  BY <1>0, <1>1, <1>9, <1>10
<1>11. ASSUME NEW value \in Content, SetAndAwait(value) \/ SetLazily(value) PROVE Goal
  <2>1. OpKept
    BY <1>0, <1>11 DEF SetAndAwait, SetLazily, StartOp, NoOp, OpKept, Op
  <2>2. QED
    BY <1>10, <1>11, <2>1 DEF SetAndAwait, SetLazily
<1>12. CASE CalmDown
  <2>1. OpKept
    BY <1>0, <1>12 DEF CalmDown, AfterEnsureWatches, OpKept, Op
  <2>2. QED
    BY <1>10, <1>12, <2>1 DEF CalmDown
<1>13. CASE Subscribe
  <2>1. OpKept
    BY <1>0, <1>13 DEF Subscribe, OpKept, Op
  <2>2. QED
    BY <1>10, <1>13, <2>1 DEF Subscribe
<1>14. CASE \E of \in {"stat", "content"} : BeginQuery(of)
  BY <1>2, <1>10, <1>14 DEF BeginQuery
\* A step that makes the listeners informed.
<1>15. ASSUME informed', ~op'.confirmed PROVE Goal
  BY <1>15 DEF Goal, ConfirmedOK, InformedOK
<1>16. CASE WriteFails \/ ConfirmTimeout
  BY <1>15, <1>16, FinishedOp DEF WriteFails, ConfirmTimeout
<1>17. CASE Cleanup
  <2>1. /\ informed' /\ removal' = IF watching THEN "off" ELSE "idle"
        /\ UNCHANGED <<op, newest, disk>>
    BY <1>17 DEF Cleanup
  <2>2. op.confirmed => watching
    BY <1>0 DEF LInv, WatchOK, Subscribing
  <2>3. QED
    BY <1>0, <2>1, <2>2 DEF Goal, ConfirmedOK, InformedOK
<1>18. CASE CleanupEnds
  <2>1. UNCHANGED <<disk, dirty, reading, lastState, events, refreshes, stat, cache,
                    informed, newest, op>>
        /\ removal = "offDone"
    BY <1>18 DEF CleanupEnds
  <2>2. QED
    BY <1>0, <1>2, <1>9, <2>1, OthersInform DEF Goal
<1>19. CASE Unsubscribe
  <2>1. ~KeptUnwatched
    BY <1>19 DEF Unsubscribe
  <2>2. informed /\ ~op.confirmed
    BY <1>0, <2>1 DEF KeptUnwatched
  <2>3. QED
    BY <1>15, <1>19, <2>2 DEF Unsubscribe
<1>20. CASE ServerAnswers
  <2>1. \A r \in Task : refreshes[r].pc # "idle" =>
          refreshes'[r].pc # "idle" /\ refreshes'[r].event = refreshes[r].event
    <3>1. CASE UNCHANGED refreshes
      BY <3>1
    <3>2. ASSUME NEW s \in Task, refreshes' = [refreshes EXCEPT ![s] = Answered(@)],
                 NEW r \in Task
          PROVE  /\ refreshes[r].pc # "idle" => refreshes'[r].pc # "idle"
                 /\ refreshes'[r].event = refreshes[r].event
      <4>1. refreshes'[r] = IF r = s THEN Answered(refreshes[r]) ELSE refreshes[r]
        BY <1>0, <3>2 DEF IInv, TasksOK, Task
      <4>2. refreshes[r] \in Refresh
        BY <1>0, VersionTypes
      <4>3. QED
        BY <4>1, <4>2 DEF Answered, Refresh
    <3>3. QED
      BY <1>20, <3>1, <3>2 DEF ServerAnswers, Task
  <2>2. Coming => Coming'
    BY <1>20, <2>1, NewsStay DEF ServerAnswers
  <2>3. QED
    BY <1>3, <1>20, <2>2 DEF ServerAnswers
<1>21. CASE TakeAnswer
  <2>1. UNCHANGED <<disk, dirty, reading, lastState, events, refreshes, informed, op, removal>>
    BY <1>21 DEF TakeAnswer
  <2>2. /\ stat # "unknown" => stat' # "unknown"
        /\ cache' = NoValue => cache = NoValue
        /\ newest.content <= newest'.content
    <3>1. CASE query.of = "stat"
      BY <1>0, <1>21, <3>1 DEF TakeAnswer, IInv, CacheOK
    <3>2. CASE query.of = "content" /\ query.content # Gone
      <4>1. stat' = stat /\ cache' = query.content
            /\ newest'.content = Later(query.version, newest.content)
        BY <1>0, <1>21, <3>2 DEF TakeAnswer, HearOfContent, IInv, CacheOK
      <4>2. query.content # NoValue /\ query.version \in Nat
        BY <1>0, FileSyncAssumption DEF IInv, TasksOK, Query, OnDisk
      <4>3. QED
        BY <1>0, <4>1, <4>2 DEF Later
    <3>3. CASE UNCHANGED <<stat, cache, newest>>
      BY <1>0, <3>3
    <3>4. QED
      BY <1>21, <3>1, <3>2, <3>3 DEF TakeAnswer
  <2>3. QED
    BY <1>0, <1>2, <1>9, <2>1, <2>2, OthersInform DEF Goal
<1>22. CASE WriteAnswered
  <2>1. /\ UNCHANGED <<disk, dirty, reading, lastState, events, refreshes, informed, stat,
                       removal>>
        /\ op.pc = "written" /\ cache' = op.value
        /\ newest' = [newest EXCEPT !.content = Later(op.version, @)]
        /\ Overtaken(op.version, newest.content) = {}
    BY <1>22 DEF WriteAnswered, HearOfContent
  <2>2. op.value # NoValue /\ op.version \in Nat
    BY <1>0, <2>1, FileSyncAssumption DEF IInv, WritesOK, Op
  <2>3. newest.content <= op.version
    BY <1>0, <2>1, <2>2 DEF Overtaken
  <2>4. newest'.content = Later(op.version, newest.content)
    BY <1>0, <2>1 DEF IInv, CacheOK
  <2>5. newest.content <= newest'.content
    BY <1>0, <2>2, <2>4 DEF Later
  <2>6. OpKept
    <3>1. CASE op.confirmed
      BY <1>0, <1>22, <2>2, <2>3, <3>1, FinishedOp DEF WriteAnswered, OpKept
    <3>2. CASE ~op.confirmed
      BY <1>0, <1>22, <3>2 DEF WriteAnswered, OpKept, Op
    <3>3. QED
      BY <3>1, <3>2
  <2>7. QED
    BY <1>0, <1>9, <2>1, <2>2, <2>5, <2>6, OthersInform DEF Goal
<1>23. CASE HandleChange
  BY <1>23, HandleChangeInforms DEF Goal
<1>24. ASSUME NEW r \in 1..MaxRefreshes, RefreshEnds(r) PROVE Goal
  BY <1>24, RefreshEndsInforms DEF Goal, Task
<1>25. CASE UNCHANGED vars
  BY <1>2, <1>10, <1>25
<1>26. CASE ServerStep
  BY <1>4, <1>8, <1>13, <1>19, <1>20, <1>26 DEF ServerStep
<1>27. CASE ClientStep
  BY <1>12, <1>16, <1>17, <1>18, <1>21, <1>22, <1>23, <1>24, <1>27 DEF ClientStep
<1>28. CASE UserStep
  BY <1>6, <1>11, <1>14, <1>28 DEF UserStep
<1>29. QED
  BY <1>6, <1>7, <1>16, <1>25, <1>26, <1>27, <1>28 DEF Next

LEMMA InitLInv == Init => LInv
<1> SUFFICES ASSUME Init PROVE LInv
  OBVIOUS
<1>1. AnswersTrue
  BY DEF Init, AnswersTrue, NoRefresh, NoOp, Task
<1>2. WatchOK
  BY DEF Init, WatchOK, Subscribing, NoQuery, NoOp
<1>3. ConfirmedOK /\ InformedOK
  BY DEF Init, ConfirmedOK, InformedOK, NoOp
<1>4. QED
  BY <1>1, <1>2, <1>3, InitFInv DEF LInv

LEMMA NextLInv == LInv /\ [Next]_vars => LInv'
<1> SUFFICES ASSUME LInv, [Next]_vars PROVE LInv'
  OBVIOUS
<1>1. FInv' /\ AnswersTrue' /\ WatchOK'
  BY NextFInv, NextAnswersTrue, NextWatchOK DEF LInv, FInv
<1>2. ConfirmedOK' /\ InformedOK'
  <2>1. CASE races' = {}
    BY <1>1, <2>1, RacesGrow, NextInformed
  <2>2. CASE races' # {}
    BY <2>2 DEF ConfirmedOK, InformedOK
  <2>3. QED
    BY <2>1, <2>2
<1>3. QED
  BY <1>1, <1>2 DEF LInv

\* Once everything has settled without a race, the change listeners have been called for
\* what the cache holds, or a writer has got an error: that calls are skipped during a write
\* (File.ts) leaves no listener with an old content, whatever else is written, removed,
\* fetched and assigned meanwhile.
THEOREM ListenersGetInformed == Spec => []ListenersAreInformed
<1>1. Init => LInv
  BY InitLInv
<1>2. LInv /\ [Next]_vars => LInv'
  BY NextLInv
<1>3. LInv => ListenersAreInformed
  BY LInvIsStronger
<1>4. QED
  BY <1>1, <1>2, <1>3, PTL DEF Spec
=============================================================================
