------------------------ MODULE FileFreshness_proofs ------------------------
(***************************************************************************)
(* Theorems about FileSync: what the File object shows in the end is what  *)
(* is on disk, unless one of the named races has happened, for any         *)
(* contents, changes, writes and overlapping refreshes.  Whatever is       *)
(* cached or on its way to the cache is of some version; of one that is    *)
(* not the latest, a watcher has still to notice that, or news of the      *)
(* latest version are on their way as well.                                *)
(***************************************************************************)
EXTENDS FileSync_proofs

Task == 1..MaxRefreshes

-----------------------------------------------------------------------------
(***************************************************************************)
(* The invariant.                                                          *)
(***************************************************************************)

\* Nothing is of a version that the disk has not had, and a content that is fetched
\* because of an event is no older than the event.
VersionsOK ==
  /\ newest.stat <= disk.version /\ newest.content <= disk.version
  /\ lastState.version <= disk.version
  /\ \A i \in 1..Len(events) : events[i].version <= disk.version
  /\ query.version <= disk.version /\ op.version <= disk.version
  /\ \A r \in Task :
       /\ refreshes[r].event.version <= disk.version
       /\ refreshes[r].version <= disk.version
       /\ refreshes[r].pc = "answered" => refreshes[r].event.version <= refreshes[r].version

\* The latest version is known to the watchers, or will be.
Noticed == "polling" \in dirty \/ reading # {} \/ lastState.version = disk.version

\* News of the latest version are on their way.
Announced ==
  \/ \E i \in 1..Len(events) : events[i].version = disk.version
  \/ \E r \in Task : refreshes[r].pc # "idle" /\ refreshes[r].event.version = disk.version

\* Content c of version v is cached, or will be when an answer is taken.
Holds(c, v) ==
  \/ cache # NoValue /\ c = cache /\ v = newest.content
  \/ op.pc = "written" /\ c = op.value /\ v = op.version
  \/ /\ query.pc = "answered" /\ query.of = "content" /\ query.content # Gone
     /\ c = query.content /\ v = query.version
  \/ \E r \in Task : /\ refreshes[r].pc = "answered" /\ refreshes[r].content # Gone
                     /\ c = refreshes[r].content /\ v = refreshes[r].version

ContentFresh(c, v) ==
  /\ subscribed
  /\ v = disk.version => c = disk.content
  /\ v # disk.version => Noticed
  /\ v # disk.version /\ lastState.version = disk.version =>
       Announced \/ newest.content = disk.version

NoContentRace == races \cap {"overtaken", "masked", "unsubscribed"} = {}

ContentsFresh ==
  /\ \A r \in Task : refreshes[r].pc # "idle" => subscribed
  /\ \A c, v : Holds(c, v) => ContentFresh(c, v)

ContentOK == NoContentRace => ContentsFresh

\* That the file exists as of version v, or does not, is cached or will be.
Claims(e, v) ==
  \/ stat # "unknown" /\ e = stat /\ v = newest.stat
  \/ /\ query.pc = "answered" /\ query.of = "stat"
     /\ e = (IF query.content = Gone THEN "no" ELSE "yes") /\ v = query.version
  \/ \E r \in Task : /\ refreshes[r].pc # "idle"
                     /\ e = refreshes[r].event.exists /\ v = refreshes[r].event.version

StatFresh(e, v) ==
  /\ v = disk.version => (e = "yes") = (disk.content # Gone)
  /\ v # disk.version => Noticed
  /\ v # disk.version /\ lastState.version = disk.version =>
       Announced \/ newest.stat = disk.version

NoStatRace == races \subseteq {"early"}

\* An event counts for a client that is subscribed.
StatsFresh ==
  /\ \A e, v : Claims(e, v) => subscribed /\ StatFresh(e, v)
  /\ subscribed => \A i \in 1..Len(events) : StatFresh(events[i].exists, events[i].version)

StatOK == NoStatRace => StatsFresh

FInv == IInv /\ VersionsOK /\ ContentOK /\ StatOK

\* Races are never forgotten.
LEMMA RacesStay ==
  ASSUME races \subseteq races'
  PROVE  (NoContentRace' => NoContentRace) /\ (NoStatRace' => NoStatRace)
BY DEF NoContentRace, NoStatRace

\* The types that the proofs below need.
LEMMA VersionTypes ==
  ASSUME IInv
  PROVE  /\ disk.version \in Nat /\ disk.content \in OnDisk /\ lastState.version \in Nat
         /\ newest.stat \in Nat /\ newest.content \in Nat
         /\ newest = [stat |-> newest.stat, content |-> newest.content]
         /\ query.version \in Nat /\ op.version \in Nat
         /\ Len(events) \in Nat
         /\ \A i \in 1..Len(events) : events[i] \in Event /\ events[i].version \in Nat
         /\ \A r \in Task : /\ refreshes[r] \in Refresh
                            /\ refreshes[r].version \in Nat
                            /\ refreshes[r].event \in Event
                            /\ refreshes[r].event.version \in Nat
<1>1. ServerOK /\ CacheOK /\ TasksOK /\ WritesOK
  BY DEF IInv
<1>2. \A i \in 1..Len(events) : events[i] \in Event
  BY <1>1 DEF ServerOK
<1>3. \A r \in Task : refreshes[r] \in Refresh
  BY <1>1 DEF TasksOK, Task
<1>4. Len(events) \in Nat
  BY <1>1 DEF ServerOK
<1>5. newest = [stat |-> newest.stat, content |-> newest.content]
      /\ newest.stat \in Nat /\ newest.content \in Nat
  BY <1>1 DEF CacheOK
<1>6. disk.version \in Nat /\ disk.content \in OnDisk /\ lastState.version \in Nat
  BY <1>1 DEF ServerOK
<1>7. query.version \in Nat /\ op.version \in Nat
  BY <1>1 DEF TasksOK, WritesOK, Query, Op
<1>8. QED
  BY <1>2, <1>3, <1>4, <1>5, <1>6, <1>7 DEF Refresh, Event

\* The conclusions.
LEMMA FInvIsStronger == FInv => ContentIsFresh /\ ExistenceIsFresh
<1> SUFFICES ASSUME FInv PROVE ContentIsFresh /\ ExistenceIsFresh
  OBVIOUS
<1> USE DEF FInv
<1>0. ASSUME Quiet PROVE ~Announced /\ (Noticed => lastState.version = disk.version)
  <2>1. Len(events) = 0
    BY <1>0 DEF Quiet
  <2>2. QED
    BY <1>0, <2>1 DEF Quiet, Announced, Noticed, Task
<1>1. ContentIsFresh
  <2> SUFFICES ASSUME Quiet, cache # NoValue, NoContentRace PROVE cache = disk.content
    BY DEF ContentIsFresh, NoContentRace
  <2>1. ContentFresh(cache, newest.content)
    BY DEF Holds, ContentOK, ContentsFresh
  <2>2. QED
    BY <1>0, <2>1 DEF ContentFresh
<1>2. ExistenceIsFresh
  <2> SUFFICES ASSUME Quiet, stat # "unknown", NoStatRace
               PROVE  (stat = "yes") = (disk.content # Gone)
    BY DEF ExistenceIsFresh, NoStatRace
  <2>1. StatFresh(stat, newest.stat)
    BY DEF Claims, StatOK, StatsFresh
  <2>2. QED
    BY <1>0, <2>1 DEF StatFresh
<1>3. QED
  BY <1>1, <1>2

-----------------------------------------------------------------------------
(***************************************************************************)
(* What the kinds of steps do to the invariant.                            *)
(***************************************************************************)

seen == <<stat, cache, newest, query, refreshes>>
watched == <<disk, subscribed, dirty, reading, lastState, events>>

\* A write operation does not get to its "written" by itself.
OpGoesOn ==
  /\ op'.version <= disk'.version
  /\ op'.pc = "written" => op.pc = "written" /\ op'.value = op.value
                             /\ op'.version = op.version

\* Steps that only move the write operation on.
LEMMA MovingOnKeepsFresh ==
  ASSUME FInv, IInv', UNCHANGED <<watched, seen>>, races \subseteq races', OpGoesOn
  PROVE  FInv'
<1> USE DEF FInv, OpGoesOn, watched, seen
<1>1. VersionsOK'
  BY DEF VersionsOK
<1>2. ContentOK'
  <2> SUFFICES ASSUME NoContentRace' PROVE ContentsFresh'
    BY DEF ContentOK
  <2>1. ContentsFresh
    BY RacesStay DEF ContentOK
  <2>2. ASSUME NEW c, NEW v, Holds(c, v)' PROVE Holds(c, v)
    BY <2>2 DEF Holds
  <2>3. QED
    BY <2>1, <2>2 DEF ContentsFresh, ContentFresh, Noticed, Announced
<1>3. StatOK'
  <2> SUFFICES ASSUME NoStatRace' PROVE StatsFresh'
    BY DEF StatOK
  <2>1. StatsFresh
    BY RacesStay DEF StatOK
  <2>2. ASSUME NEW e, NEW v, Claims(e, v)' PROVE Claims(e, v)
    BY <2>2 DEF Claims
  <2>3. ASSUME NEW e, NEW v, StatFresh(e, v) PROVE StatFresh(e, v)'
    BY <2>3 DEF StatFresh, Noticed, Announced
  <2>4. QED
    BY <2>1, <2>2, <2>3 DEF StatsFresh
<1>4. QED
  BY <1>1, <1>2, <1>3

\* A change of the disk makes everything that is held stale; the polling watcher will notice.
LEMMA ChangeKeepsFresh ==
  ASSUME FInv, IInv', NEW content \in OnDisk, ChangeDisk(content),
         UNCHANGED <<subscribed, reading, lastState, events, seen>>, races \subseteq races',
         op'.version <= disk'.version,
         op'.pc = "written" =>
           \/ op.pc = "written" /\ op'.value = op.value /\ op'.version = op.version
           \/ /\ op'.value = disk'.content /\ op'.version = disk'.version
              /\ NoContentRace' => subscribed
  PROVE  FInv'
<1> USE VersionTypes DEF FInv, seen
<1>1. disk' = [content |-> content, version |-> disk.version + 1]
      /\ disk'.version = disk.version + 1 /\ disk'.content = content
  BY DEF ChangeDisk, Read
<1>2. subscribed => "polling" \in dirty'
  BY DEF ChangeDisk, Watcher
<1>3. VersionsOK'
  BY <1>1 DEF VersionsOK
<1>4. lastState'.version # disk'.version
  BY <1>1 DEF VersionsOK
<1>5. ContentOK'
  <2> SUFFICES ASSUME NoContentRace' PROVE ContentsFresh'
    BY DEF ContentOK
  <2>1. ContentsFresh
    BY RacesStay DEF ContentOK
  <2>2. ASSUME NEW c, NEW v, Holds(c, v)' PROVE ContentFresh(c, v)'
    <3>1. CASE Holds(c, v)
      <4>1. subscribed /\ v # disk'.version
        <5>1. v \in Nat /\ v <= disk.version
          BY <3>1 DEF Holds, VersionsOK
        <5>2. QED
          BY <1>1, <2>1, <3>1, <5>1 DEF ContentsFresh, ContentFresh
      <4>2. QED
        BY <1>2, <1>4, <4>1 DEF ContentFresh, Noticed
    <3>2. CASE c = disk'.content /\ v = disk'.version /\ subscribed
      BY <3>2 DEF ContentFresh
    <3>3. QED
      BY <2>2, <3>1, <3>2 DEF Holds
  <2>3. QED
    BY <2>1, <2>2 DEF ContentsFresh
<1>6. StatOK'
  <2> SUFFICES ASSUME NoStatRace' PROVE StatsFresh'
    BY DEF StatOK
  <2>1. StatsFresh
    BY RacesStay DEF StatOK
  <2>2. ASSUME NEW e, NEW v \in Nat, v <= disk.version, subscribed PROVE StatFresh(e, v)'
    BY <1>1, <1>2, <1>4, <2>2 DEF StatFresh, Noticed
  <2>3. ASSUME NEW e, NEW v, Claims(e, v)' PROVE subscribed' /\ StatFresh(e, v)'
    <3>1. Claims(e, v)
      BY <2>3 DEF Claims
    <3>2. v \in Nat /\ v <= disk.version
      BY <3>1 DEF Claims, VersionsOK
    <3>3. QED
      BY <2>1, <2>2, <3>1, <3>2 DEF StatsFresh
  <2>4. ASSUME subscribed, NEW i \in 1..Len(events)
        PROVE  StatFresh(events[i].exists, events[i].version)'
    BY <2>2, <2>4 DEF VersionsOK
  <2>5. QED
    BY <2>3, <2>4 DEF StatsFresh
<1>7. QED
  BY <1>3, <1>5, <1>6

\* The watchers know of the latest version, and tell it a client that holds another one.
LEMMA ReportKeepsFresh ==
  ASSUME FInv, IInv', NEW exists \in Exists, exists = "no" => disk.content = Gone,
         Report(exists), UNCHANGED <<disk, subscribed, op, seen>>
  PROVE  FInv'
<1> USE VersionTypes DEF FInv, seen
<1>1. lastState' = disk /\ lastState'.version = disk.version /\ races \subseteq races'
  BY DEF Report
<1>2. Noticed'
  BY <1>1 DEF Noticed
<1> DEFINE event == [exists |-> exists, version |-> disk.version]
<1>3. \/ events' = Append(events, event)
      \/ events' = events /\ (subscribed => disk.content = lastState.content)
  BY DEF Report
<1>4. \A i \in 1..Len(events) : i \in 1..Len(events') /\ events'[i] = events[i]
  BY <1>3 DEF IInv, ServerOK
<1>5. \A i \in 1..Len(events') : i \in 1..Len(events) \/ events'[i] = event
  BY <1>3 DEF IInv, ServerOK
<1>6. VersionsOK'
  <2>1. \A i \in 1..Len(events') : events'[i].version <= disk'.version
    BY <1>4, <1>5 DEF VersionsOK
  <2>2. QED
    BY <1>1, <2>1 DEF VersionsOK
<1>7. CASE events' = Append(events, event)
  <2>1. Announced'
    <3>1. Len(events') \in 1..Len(events') /\ events'[Len(events')] = event
      BY <1>7 DEF IInv, ServerOK
    <3>2. QED
      BY <3>1 DEF Announced
  <2>2. ContentOK'
    <3> SUFFICES ASSUME NoContentRace' PROVE ContentsFresh'
      BY DEF ContentOK
    <3>1. ContentsFresh
      BY <1>1, RacesStay DEF ContentOK
    <3>2. ASSUME NEW c, NEW v, Holds(c, v)' PROVE Holds(c, v)
      BY <3>2 DEF Holds
    <3>3. QED
      BY <1>2, <2>1, <3>1, <3>2 DEF ContentsFresh, ContentFresh
  <2>3. StatOK'
    <3> SUFFICES ASSUME NoStatRace' PROVE StatsFresh'
      BY DEF StatOK
    <3>1. StatsFresh
      BY <1>1, RacesStay DEF StatOK
    <3>2. ASSUME NEW e, NEW v, Claims(e, v)' PROVE Claims(e, v)
      BY <3>2 DEF Claims
    <3>3. ASSUME NEW e, NEW v, StatFresh(e, v) PROVE StatFresh(e, v)'
      BY <1>2, <2>1, <3>3 DEF StatFresh
    <3>4. exists = "yes" => disk.content # Gone
      BY DEF Report, NoStatRace
    <3>5. StatFresh(event.exists, event.version)'
      BY <3>4 DEF StatFresh, Exists
    <3>6. ASSUME subscribed, NEW i \in 1..Len(events')
          PROVE  StatFresh(events[i].exists, events[i].version)'
      <4>1. CASE i \in 1..Len(events)
        <5>1. StatFresh(events[i].exists, events[i].version)
          BY <3>1, <3>6, <4>1 DEF StatsFresh
        <5>2. QED
          BY <1>4, <3>3, <4>1, <5>1
      <4>2. CASE events'[i] = event
        BY <3>5, <4>2
      <4>3. QED
        BY <1>5, <4>1, <4>2
    <3>7. QED
      BY <3>1, <3>2, <3>3, <3>6 DEF StatsFresh
  <2>4. QED
    BY <1>6, <2>2, <2>3
<1>8. CASE events' = events /\ (subscribed => disk.content = lastState.content)
  <2>1. Announced' = Announced
    BY <1>8 DEF Announced
  <2>2. subscribed /\ "masked" \notin races' => lastState.version = disk.version
    BY <1>8 DEF Report
  <2>3. ContentOK'
    <3> SUFFICES ASSUME NoContentRace' PROVE ContentsFresh'
      BY DEF ContentOK
    <3>1. ContentsFresh
      BY <1>1, RacesStay DEF ContentOK
    <3>2. ASSUME NEW c, NEW v, Holds(c, v)' PROVE Holds(c, v)
      BY <3>2 DEF Holds
    <3>3. "masked" \notin races'
      BY DEF NoContentRace
    <3>4. QED
      BY <1>2, <2>1, <2>2, <3>1, <3>2, <3>3 DEF ContentsFresh, ContentFresh
  <2>4. StatOK'
    <3> SUFFICES ASSUME NoStatRace' PROVE StatsFresh'
      BY DEF StatOK
    <3>1. StatsFresh
      BY <1>1, RacesStay DEF StatOK
    <3>2. ASSUME NEW e, NEW v, Claims(e, v)' PROVE Claims(e, v)
      BY <3>2 DEF Claims
    <3>3. "masked" \notin races'
      BY DEF NoStatRace
    <3>4. ASSUME subscribed, NEW e, NEW v, StatFresh(e, v) PROVE StatFresh(e, v)'
      BY <1>2, <2>1, <2>2, <3>3, <3>4 DEF StatFresh
    <3>5. QED
      BY <1>8, <3>1, <3>2, <3>4 DEF StatsFresh
  <2>5. QED
    BY <1>6, <2>3, <2>4
<1>9. QED
  BY <1>3, <1>7, <1>8

\* A handler that reads the file keeps the watchers busy.
LEMMA ReadingKeepsFresh ==
  ASSUME FInv, IInv', UNCHANGED <<disk, subscribed, lastState, events, races, op, seen>>,
         reading' # {}
  PROVE  FInv'
<1> USE DEF FInv, seen
<1>1. VersionsOK'
  BY DEF VersionsOK
<1>2. Noticed' /\ Announced' = Announced
  BY DEF Noticed, Announced
<1>3. ContentOK'
  <2>1. ASSUME NEW c, NEW v, Holds(c, v)' PROVE Holds(c, v)
    BY <2>1 DEF Holds
  <2>2. QED
    BY <1>2, <2>1 DEF ContentOK, ContentsFresh, ContentFresh, NoContentRace
<1>4. StatOK'
  <2>1. ASSUME NEW e, NEW v, Claims(e, v)' PROVE Claims(e, v)
    BY <2>1 DEF Claims
  <2>2. ASSUME NEW e, NEW v, StatFresh(e, v) PROVE StatFresh(e, v)'
    BY <1>2, <2>2 DEF StatFresh
  <2>3. QED
    BY <2>1, <2>2 DEF StatOK, StatsFresh, NoStatRace
<1>5. QED
  BY <1>1, <1>3, <1>4

-----------------------------------------------------------------------------
(***************************************************************************)
(* Steps of the client's tasks.                                            *)
(***************************************************************************)

server == <<disk, subscribed, dirty, reading, lastState>>

\* What is held after a step was held before, or is what is on disk.
LEMMA ContentsCarry ==
  ASSUME ContentsFresh, UNCHANGED server,
         Announced \/ newest.content = disk.version =>
           (Announced \/ newest.content = disk.version)',
         \A r \in Task : refreshes'[r].pc # "idle" => subscribed,
         \A c, v : Holds(c, v)' =>
           \/ Holds(c, v)
           \/ c = disk.content /\ v = disk.version /\ subscribed
  PROVE  ContentsFresh'
<1> USE DEF server
<1>1. ASSUME NEW c, NEW v, Holds(c, v)' PROVE ContentFresh(c, v)'
  <2>1. CASE Holds(c, v)
    <3>1. ContentFresh(c, v)
      BY <2>1 DEF ContentsFresh
    <3>2. QED
      BY <3>1 DEF ContentFresh, Noticed
  <2>2. CASE c = disk.content /\ v = disk.version /\ subscribed
    BY <2>2 DEF ContentFresh
  <2>3. QED
    BY <1>1, <2>1, <2>2
<1>2. QED
  BY <1>1 DEF ContentsFresh

\* What is claimed after a step was claimed before, by an event perhaps, or is right.
LEMMA StatsCarry ==
  ASSUME StatsFresh, UNCHANGED server,
         Announced \/ newest.stat = disk.version =>
           (Announced \/ newest.stat = disk.version)',
         \A e, v : Claims(e, v)' =>
           \/ Claims(e, v)
           \/ /\ subscribed
              /\ \E i \in 1..Len(events) : e = events[i].exists /\ v = events[i].version
           \/ subscribed /\ v = disk.version /\ (e = "yes") = (disk.content # Gone),
         \A i \in 1..Len(events') : \E j \in 1..Len(events) : events'[i] = events[j]
  PROVE  StatsFresh'
<1> USE DEF server
<1>1. ASSUME NEW e, NEW v, StatFresh(e, v) PROVE StatFresh(e, v)'
  BY <1>1 DEF StatFresh, Noticed
<1>2. ASSUME NEW e, NEW v, Claims(e, v)' PROVE subscribed' /\ StatFresh(e, v)'
  <2>1. CASE Claims(e, v)
    BY <1>1, <2>1 DEF StatsFresh
  <2>2. CASE /\ subscribed
             /\ \E i \in 1..Len(events) : e = events[i].exists /\ v = events[i].version
    BY <1>1, <2>2 DEF StatsFresh
  <2>3. CASE subscribed /\ v = disk.version /\ (e = "yes") = (disk.content # Gone)
    BY <2>3 DEF StatFresh
  <2>4. QED
    BY <1>2, <2>1, <2>2, <2>3
<1>3. ASSUME subscribed, NEW i \in 1..Len(events')
      PROVE  StatFresh(events[i].exists, events[i].version)'
  <2>1. PICK j \in 1..Len(events) : events'[i] = events[j]
    OBVIOUS
  <2>2. StatFresh(events[j].exists, events[j].version)
    BY <1>3 DEF StatsFresh
  <2>3. QED
    BY <1>1, <2>1, <2>2
<1>4. QED
  BY <1>2, <1>3 DEF StatsFresh

\* The server answers with what is on disk.
LEMMA ServerAnswersKeepsFresh == FInv /\ IInv' /\ ServerAnswers => FInv'
<1> SUFFICES ASSUME FInv, IInv', ServerAnswers PROVE FInv'
  OBVIOUS
<1> USE VersionTypes DEF FInv, server, serverVars, cacheVars, writeVars
<1>0. UNCHANGED <<server, stat, cache, newest, events, op>> /\ races \subseteq races'
      /\ ("unsubscribed" \notin races' => subscribed)
  BY DEF ServerAnswers, Unsubscribed
<1>1. \/ query' = Answered(query) /\ refreshes' = refreshes
      \/ /\ query' = query
         /\ \E r \in Task : /\ refreshes[r].pc = "ask"
                            /\ refreshes' = [refreshes EXCEPT ![r] = Answered(@)]
  BY DEF ServerAnswers, Task
<1>2. \A q : q = Answered(query) =>
        (query \in Query => q.pc = "answered" /\ q.of = query.of
                            /\ q.content = disk.content /\ q.version = disk.version)
  BY DEF Answered, Query
<1>3. \A r \in Task :
        \/ refreshes'[r] = refreshes[r]
        \/ /\ refreshes[r].pc = "ask" /\ refreshes'[r].pc = "answered"
           /\ refreshes'[r].event = refreshes[r].event
           /\ refreshes'[r].content = disk.content /\ refreshes'[r].version = disk.version
  <2>1. CASE refreshes' = refreshes
    BY <2>1
  <2>2. ASSUME NEW s \in Task, refreshes[s].pc = "ask",
               refreshes' = [refreshes EXCEPT ![s] = Answered(@)]
        PROVE  <1>3
    <3>1. refreshes' = [r \in Task |-> IF r = s THEN Answered(refreshes[s]) ELSE refreshes[r]]
      BY <2>2 DEF IInv, TasksOK, Task
    <3>2. /\ Answered(refreshes[s]).pc = "answered"
          /\ Answered(refreshes[s]).event = refreshes[s].event
          /\ Answered(refreshes[s]).content = disk.content
          /\ Answered(refreshes[s]).version = disk.version
      BY DEF Answered, Refresh
    <3>3. QED
      BY <2>2, <3>1, <3>2
  <2>3. QED
    BY <1>1, <2>1, <2>2
<1>4. \A r \in Task : (refreshes'[r].pc = "idle") = (refreshes[r].pc = "idle")
                      /\ refreshes'[r].event = refreshes[r].event
  BY <1>3
<1>5. query \in Query
  BY DEF IInv, TasksOK
<1>6. VersionsOK'
  <2>1. query'.version <= disk.version
    BY <1>1, <1>2, <1>5 DEF VersionsOK
  <2>2. \A r \in Task :
          /\ refreshes'[r].event.version <= disk.version
          /\ refreshes'[r].version <= disk.version
          /\ refreshes'[r].pc = "answered" =>
               refreshes'[r].event.version <= refreshes'[r].version
    BY <1>3 DEF VersionsOK
  <2>3. QED
    BY <1>0, <2>1, <2>2 DEF VersionsOK
<1>7. Announced' = Announced
  BY <1>0, <1>4 DEF Announced
<1>8. ContentOK'
  <2> SUFFICES ASSUME NoContentRace' PROVE ContentsFresh'
    BY DEF ContentOK
  <2>1. ContentsFresh /\ subscribed
    BY <1>0, RacesStay DEF ContentOK, NoContentRace
  <2>2. ASSUME NEW c, NEW v, Holds(c, v)'
        PROVE  Holds(c, v) \/ (c = disk.content /\ v = disk.version)
    <3>1. CASE \E r \in Task : /\ refreshes'[r].pc = "answered"
                               /\ c = refreshes'[r].content /\ v = refreshes'[r].version
                               /\ refreshes'[r].content # Gone
      BY <1>3, <3>1 DEF Holds
    <3>2. CASE /\ query'.pc = "answered" /\ query'.of = "content" /\ query'.content # Gone
               /\ c = query'.content /\ v = query'.version
      BY <1>1, <1>2, <1>5, <3>2 DEF Holds
    <3>3. QED
      BY <1>0, <2>2, <3>1, <3>2 DEF Holds
  <2>3. QED
    BY <1>0, <1>7, <2>1, <2>2, ContentsCarry
<1>9. StatOK'
  <2> SUFFICES ASSUME NoStatRace' PROVE StatsFresh'
    BY DEF StatOK
  <2>1. StatsFresh /\ subscribed
    BY <1>0, RacesStay DEF StatOK, NoStatRace
  <2>2. ASSUME NEW e, NEW v, Claims(e, v)'
        PROVE  Claims(e, v) \/ (v = disk.version /\ (e = "yes") = (disk.content # Gone))
    <3>1. CASE \E r \in Task : /\ refreshes'[r].pc # "idle"
                               /\ e = refreshes'[r].event.exists
                               /\ v = refreshes'[r].event.version
      BY <1>4, <3>1 DEF Claims
    <3>2. CASE /\ query'.pc = "answered" /\ query'.of = "stat"
               /\ e = (IF query'.content = Gone THEN "no" ELSE "yes") /\ v = query'.version
      <4>1. CASE query' = query
        BY <3>2, <4>1 DEF Claims
      <4>2. CASE query' = Answered(query)
        BY <1>2, <1>5, <3>2, <4>2
      <4>3. QED
        BY <1>1, <4>1, <4>2
    <3>3. QED
      BY <1>0, <2>2, <3>1, <3>2 DEF Claims
  <2>3. \A i \in 1..Len(events') : \E j \in 1..Len(events) : events'[i] = events[j]
    BY <1>0
  <2>4. QED
    BY <1>0, <1>7, <2>1, <2>2, <2>3, StatsCarry
<1>10. QED
  BY <1>6, <1>8, <1>9

\* What is taken was held already, and is of the newest version unless it was overtaken.
LEMMA TakeAnswerKeepsFresh == FInv /\ IInv' /\ TakeAnswer => FInv'
<1> SUFFICES ASSUME FInv, IInv', TakeAnswer PROVE FInv'
  OBVIOUS
<1> USE VersionTypes DEF FInv, server, serverVars, cacheVars, writeVars
<1> DEFINE q == query
<1>0. UNCHANGED <<server, events, refreshes, op>> /\ races \subseteq races'
      /\ q.pc = "answered" /\ query' = NoQuery /\ NoQuery.pc = "idle" /\ NoQuery.version = 0
  BY DEF TakeAnswer, NoQuery
<1>1. Announced' = Announced
  BY <1>0 DEF Announced
<1>2. CASE q.of = "stat"
  <2>1. /\ stat' = (IF q.content = Gone THEN "no" ELSE "yes") /\ cache' = cache
        /\ newest' = [newest EXCEPT !.stat = Later(q.version, @)]
        /\ races' = races \cup Overtaken(q.version, newest.stat) \cup Unsubscribed
    BY <1>2 DEF TakeAnswer
  <2>2. newest'.content = newest.content /\ newest'.stat = Later(q.version, newest.stat)
    BY <2>1
  <2>3. newest'.stat \in Nat /\ newest'.stat <= disk.version /\ newest.stat <= newest'.stat
    BY <2>2 DEF Later, VersionsOK
  <2>4. VersionsOK'
    BY <1>0, <2>2, <2>3 DEF VersionsOK
  <2>5. ContentOK'
    <3> SUFFICES ASSUME NoContentRace' PROVE ContentsFresh'
      BY DEF ContentOK
    <3>1. ContentsFresh
      BY <1>0, RacesStay DEF ContentOK
    <3>2. \A c, v : Holds(c, v)' => Holds(c, v)
      BY <1>0, <2>1, <2>2 DEF Holds
    <3>3. QED
      BY <1>0, <1>1, <2>2, <3>1, <3>2, ContentsCarry DEF ContentsFresh
  <2>6. StatOK'
    <3> SUFFICES ASSUME NoStatRace' PROVE StatsFresh'
      BY DEF StatOK
    <3>1. StatsFresh
      BY <1>0, RacesStay DEF StatOK
    <3>2. newest'.stat = q.version
      BY <2>1, <2>2 DEF NoStatRace, Overtaken, Later
    <3>3. \A e, v : Claims(e, v)' => Claims(e, v)
      BY <1>0, <1>2, <2>1, <3>2 DEF Claims
    <3>4. newest.stat = disk.version => newest'.stat = disk.version
      BY <2>3
    <3>5. QED
      BY <1>0, <1>1, <3>1, <3>3, <3>4, StatsCarry
  <2>7. QED
    BY <2>4, <2>5, <2>6
<1>3. CASE q.of = "content" /\ q.content # Gone
  <2>1. /\ stat' = stat /\ cache' = q.content
        /\ newest' = [newest EXCEPT !.content = Later(q.version, @)]
        /\ races' = races \cup Overtaken(q.version, newest.content) \cup Unsubscribed
    BY <1>3 DEF TakeAnswer, HearOfContent
  <2>2. newest'.stat = newest.stat /\ newest'.content = Later(q.version, newest.content)
    BY <2>1
  <2>3. /\ newest'.content \in Nat
        /\ newest'.content <= disk.version /\ newest.content <= newest'.content
    BY <2>2 DEF Later, VersionsOK
  <2>4. VersionsOK'
    BY <1>0, <2>2, <2>3 DEF VersionsOK
  <2>5. ContentOK'
    <3> SUFFICES ASSUME NoContentRace' PROVE ContentsFresh'
      BY DEF ContentOK
    <3>1. ContentsFresh
      BY <1>0, RacesStay DEF ContentOK
    <3>2. newest'.content = q.version
      BY <2>1, <2>2 DEF NoContentRace, Overtaken, Later
    <3>3. \A c, v : Holds(c, v)' => Holds(c, v)
      BY <1>0, <1>3, <2>1, <3>2 DEF Holds
    <3>4. newest.content = disk.version => newest'.content = disk.version
      BY <2>3
    <3>5. QED
      BY <1>0, <1>1, <3>1, <3>3, <3>4, ContentsCarry DEF ContentsFresh
  <2>6. StatOK'
    <3> SUFFICES ASSUME NoStatRace' PROVE StatsFresh'
      BY DEF StatOK
    <3>1. StatsFresh
      BY <1>0, RacesStay DEF StatOK
    <3>2. \A e, v : Claims(e, v)' => Claims(e, v)
      BY <1>0, <2>1, <2>2 DEF Claims
    <3>3. QED
      BY <1>0, <1>1, <2>2, <3>1, <3>2, StatsCarry
  <2>7. QED
    BY <2>4, <2>5, <2>6
<1>4. CASE q.of = "content" /\ q.content = Gone
  <2>1. UNCHANGED <<stat, cache, newest, races>>
    BY <1>4 DEF TakeAnswer
  <2>2. VersionsOK'
    BY <1>0, <2>1 DEF VersionsOK
  <2>3. \A c, v : Holds(c, v)' => Holds(c, v)
    BY <1>0, <2>1 DEF Holds
  <2>4. \A e, v : Claims(e, v)' => Claims(e, v)
    BY <1>0, <2>1 DEF Claims
  <2>5. ContentOK'
    BY <1>0, <1>1, <2>1, <2>3, ContentsCarry DEF ContentOK, NoContentRace, ContentsFresh
  <2>6. StatOK'
    BY <1>0, <1>1, <2>1, <2>4, StatsCarry DEF StatOK, NoStatRace
  <2>7. QED
    BY <2>2, <2>5, <2>6
<1>5. QED
  BY <1>2, <1>3, <1>4 DEF IInv, TasksOK, Query

\* So is what was written.
LEMMA WriteAnsweredKeepsFresh == FInv /\ IInv' /\ WriteAnswered => FInv'
<1> SUFFICES ASSUME FInv, IInv', WriteAnswered PROVE FInv'
  OBVIOUS
<1> USE VersionTypes DEF FInv, server, serverVars, cacheVars, taskVars
<1>0. UNCHANGED <<server, events, query, refreshes, stat>> /\ races \subseteq races'
      /\ op.pc = "written" /\ cache' = op.value
      /\ newest' = [newest EXCEPT !.content = Later(op.version, @)]
      /\ races' = races \cup Overtaken(op.version, newest.content) \cup Unsubscribed
  BY DEF WriteAnswered, HearOfContent
<1>1. op'.pc # "written" /\ op'.version <= disk.version
  <2>1. CASE FinishOp
    BY <2>1 DEF FinishOp, StartOp, NoOp
  <2>2. CASE op' = [op EXCEPT !.pc = "confirm"]
    BY <2>2 DEF IInv, WritesOK, Op, VersionsOK
  <2>3. QED
    BY <2>1, <2>2 DEF WriteAnswered
<1>2. newest'.stat = newest.stat /\ newest'.content = Later(op.version, newest.content)
  BY <1>0
<1>3. /\ newest'.content \in Nat
      /\ newest'.content <= disk.version /\ newest.content <= newest'.content
  BY <1>2 DEF Later, VersionsOK
<1>4. Announced' = Announced
  BY <1>0 DEF Announced
<1>5. VersionsOK'
  BY <1>0, <1>1, <1>2, <1>3 DEF VersionsOK
<1>6. ContentOK'
  <2> SUFFICES ASSUME NoContentRace' PROVE ContentsFresh'
    BY DEF ContentOK
  <2>1. ContentsFresh
    BY <1>0, RacesStay DEF ContentOK
  <2>2. newest'.content = op.version
    BY <1>0, <1>2 DEF NoContentRace, Overtaken, Later
  <2>3. \A c, v : Holds(c, v)' => Holds(c, v)
    BY <1>0, <1>1, <2>2 DEF Holds
  <2>4. newest.content = disk.version => newest'.content = disk.version
    BY <1>3
  <2>5. QED
    BY <1>0, <1>4, <2>1, <2>3, <2>4, ContentsCarry DEF ContentsFresh
<1>7. StatOK'
  <2> SUFFICES ASSUME NoStatRace' PROVE StatsFresh'
    BY DEF StatOK
  <2>1. StatsFresh
    BY <1>0, RacesStay DEF StatOK
  <2>2. \A e, v : Claims(e, v)' => Claims(e, v)
    BY <1>0, <1>2 DEF Claims
  <2>3. QED
    BY <1>0, <1>2, <1>4, <2>1, <2>2, StatsCarry
<1>8. QED
  BY <1>5, <1>6, <1>7

\* A refreshed cache leaves a write operation in its place, or ends it.
LEMMA FlipMovesOp ==
  ASSUME FInv, NEW event, NEW content, NEW version, Flip(event, content, version),
         UNCHANGED server
  PROVE  OpGoesOn /\ races \subseteq races'
<1>1. disk' = disk /\ op \in Op /\ op.version <= disk.version /\ disk.version \in Nat
      /\ races \subseteq races'
  BY VersionTypes DEF FInv, IInv, WritesOK, VersionsOK, server, Flip
<1>2. CASE UNCHANGED op
  BY <1>1, <1>2 DEF OpGoesOn
<1>3. CASE FinishOp
  BY <1>1, <1>3 DEF FinishOp, StartOp, NoOp, OpGoesOn
<1>4. CASE op' = [op EXCEPT !.confirmed = TRUE]
  BY <1>1, <1>4 DEF OpGoesOn, Op
<1>5. QED
  BY <1>2, <1>3, <1>4 DEF Flip, writeVars

\* The head of the events, and what is left of them.
LEMMA EventsMoveUp ==
  ASSUME IInv, events # <<>>, events' = Tail(events)
  PROVE  /\ 1 \in 1..Len(events) /\ Head(events) = events[1]
         /\ \A i \in 1..Len(events') : i + 1 \in 1..Len(events) /\ events'[i] = events[i + 1]
         /\ \A i \in 1..Len(events) : i # 1 => i - 1 \in 1..Len(events')
                                             /\ events'[i - 1] = events[i]
BY DEF IInv, ServerOK

\* An event is applied at once, or fetches the content first.
LEMMA HandleChangeKeepsFresh == FInv /\ IInv' /\ HandleChange => FInv'
<1> SUFFICES ASSUME FInv, IInv', HandleChange PROVE FInv'
  OBVIOUS
<1> USE VersionTypes DEF FInv, server
<1> DEFINE event == Head(events)
<1>0. UNCHANGED <<server, query>> /\ events # <<>> /\ events' = Tail(events)
  BY DEF HandleChange
<1>1. /\ 1 \in 1..Len(events) /\ event = events[1]
      /\ event \in Event /\ event.version \in Nat /\ event.version <= disk.version
  BY <1>0, EventsMoveUp DEF VersionsOK
<1>2. \A i \in 1..Len(events') : \E j \in 1..Len(events) : events'[i] = events[j]
  BY <1>0, EventsMoveUp
<1>3. \A i \in 1..Len(events') : events'[i].version <= disk.version
  BY <1>2 DEF VersionsOK
<1>4. ASSUME NEW i \in 1..Len(events), events[i].version = disk.version
      PROVE  \/ event.version = disk.version
             \/ \E j \in 1..Len(events') : events'[j].version = disk.version
  <2>1. CASE i = 1
    BY <1>1, <1>4, <2>1
  <2>2. CASE i # 1
    BY <1>0, <1>4, <2>2, EventsMoveUp
  <2>3. QED
    BY <2>1, <2>2
<1>5. CASE event.exists = "yes" /\ cache # NoValue
  <2>1. UNCHANGED <<stat, cache, newest, op, races>>
    BY <1>5 DEF HandleChange, cacheVars, writeVars
  <2>2. PICK r \in Task :
          /\ refreshes[r].pc = "idle"
          /\ refreshes' = [refreshes EXCEPT ![r].pc = "ask", ![r].event = event]
    BY <1>5 DEF HandleChange, Task
  <2>3. /\ refreshes'[r].pc = "ask" /\ refreshes'[r].event = event
        /\ refreshes'[r].version = refreshes[r].version
        /\ \A s \in Task : s # r => refreshes'[s] = refreshes[s]
    BY <2>2 DEF IInv, TasksOK, Task, Refresh
  <2>4. VersionsOK'
    <3>1. \A s \in Task :
            /\ refreshes'[s].event.version <= disk.version
            /\ refreshes'[s].version <= disk.version
            /\ refreshes'[s].pc = "answered" =>
                 refreshes'[s].event.version <= refreshes'[s].version
      BY <1>1, <2>3 DEF VersionsOK
    <3>2. QED
      BY <1>0, <1>3, <2>1, <3>1 DEF VersionsOK
  <2>5. Announced => Announced'
    <3>1. CASE \E s \in Task : refreshes[s].pc # "idle"
                               /\ refreshes[s].event.version = disk.version
      BY <1>0, <2>2, <2>3, <3>1 DEF Announced
    <3>2. CASE \E i \in 1..Len(events) : events[i].version = disk.version
      BY <1>0, <1>4, <2>3, <3>2 DEF Announced
    <3>3. QED
      BY <3>1, <3>2 DEF Announced
  <2>6. ContentOK'
    <3> SUFFICES ASSUME NoContentRace' PROVE ContentsFresh'
      BY DEF ContentOK
    <3>1. ContentsFresh
      BY <2>1, RacesStay DEF ContentOK
    <3>2. subscribed
      BY <1>5, <3>1 DEF ContentsFresh, Holds, ContentFresh
    <3>3. \A c, v : Holds(c, v)' => Holds(c, v)
      BY <1>0, <2>1, <2>3 DEF Holds
    <3>4. QED
      BY <1>0, <2>1, <2>5, <3>1, <3>2, <3>3, ContentsCarry
  <2>7. StatOK'
    <3> SUFFICES ASSUME NoStatRace' PROVE StatsFresh'
      BY DEF StatOK
    <3>1. StatsFresh /\ ContentsFresh
      BY <2>1, RacesStay DEF StatOK, ContentOK, NoStatRace, NoContentRace
    <3>2. subscribed
      BY <1>5, <3>1 DEF ContentsFresh, Holds, ContentFresh
    <3>3. ASSUME NEW e, NEW v, Claims(e, v)'
          PROVE  Claims(e, v) \/ (e = event.exists /\ v = event.version)
      BY <1>0, <2>1, <2>3, <3>3 DEF Claims
    <3>4. QED
      BY <1>0, <1>1, <1>2, <2>1, <2>5, <3>1, <3>2, <3>3, StatsCarry
  <2>8. QED
    BY <2>4, <2>6, <2>7
<1>6. CASE ~(event.exists = "yes" /\ cache # NoValue)
  <2>1. Flip(event, NoValue, event.version) /\ UNCHANGED refreshes
    BY <1>6 DEF HandleChange
  <2>2. OpGoesOn /\ races \subseteq races'
    BY <1>0, <2>1, FlipMovesOp
  <2>3. /\ stat' = event.exists /\ cache' = NoValue
        /\ newest'.stat = Later(event.version, newest.stat)
        /\ newest'.content = Later(event.version, newest.content)
    BY <2>1 DEF Flip
  <2>4. /\ newest'.stat \in Nat /\ newest'.content \in Nat
        /\ newest'.stat <= disk.version /\ newest.stat <= newest'.stat
        /\ newest'.content <= disk.version /\ newest.content <= newest'.content
        /\ event.version <= newest'.stat /\ event.version <= newest'.content
    BY <1>1, <2>3 DEF Later, VersionsOK
  <2>5. VersionsOK'
    BY <1>0, <1>3, <2>1, <2>2, <2>4 DEF VersionsOK, OpGoesOn
  <2>6. Announced => Announced' \/ event.version = disk.version
    BY <1>0, <1>4, <2>1 DEF Announced
  <2>7. ContentOK'
    <3> SUFFICES ASSUME NoContentRace' PROVE ContentsFresh'
      BY DEF ContentOK
    <3>1. ContentsFresh
      BY <2>2, RacesStay DEF ContentOK
    <3>2. \A c, v : Holds(c, v)' => Holds(c, v)
      BY <1>0, <2>1, <2>2, <2>3 DEF Holds, OpGoesOn
    <3>3. Announced \/ newest.content = disk.version =>
            (Announced \/ newest.content = disk.version)'
      BY <1>0, <1>1, <2>4, <2>6
    <3>4. QED
      BY <1>0, <2>1, <3>1, <3>2, <3>3, ContentsCarry DEF ContentsFresh
  <2>8. StatOK'
    <3> SUFFICES ASSUME NoStatRace' PROVE StatsFresh'
      BY DEF StatOK
    <3>1. StatsFresh
      BY <2>2, RacesStay DEF StatOK
    <3>2. subscribed /\ newest'.stat = event.version
      BY <1>1, <2>1, <2>3 DEF Flip, Unsubscribed, Overtaken, Later, NoStatRace
    <3>3. ASSUME NEW e, NEW v, Claims(e, v)'
          PROVE  Claims(e, v) \/ (e = event.exists /\ v = event.version)
      BY <1>0, <2>1, <2>3, <3>2, <3>3 DEF Claims
    <3>4. Announced \/ newest.stat = disk.version =>
            (Announced \/ newest.stat = disk.version)'
      BY <1>0, <1>1, <2>4, <2>6
    <3>5. QED
      BY <1>0, <1>1, <1>2, <3>1, <3>2, <3>3, <3>4, StatsCarry
  <2>9. QED
    BY <2>5, <2>7, <2>8
<1>7. QED
  BY <1>5, <1>6

\* The content that was fetched is no older than the event it was fetched for.
LEMMA RefreshEndsKeepsFresh ==
  ASSUME FInv, IInv', NEW r \in Task, RefreshEnds(r)
  PROVE  FInv'
<1> USE VersionTypes DEF FInv, server
<1> DEFINE f == refreshes[r]
<1>0. /\ UNCHANGED <<server, query, events>> /\ f.pc = "answered"
      /\ refreshes' = [refreshes EXCEPT ![r] = NoRefresh]
      /\ Flip(f.event, Fetched(f.content), f.version)
  BY DEF RefreshEnds, serverVars
<1>1. OpGoesOn /\ races \subseteq races'
  BY <1>0, FlipMovesOp
<1>2. /\ refreshes'[r].pc = "idle" /\ refreshes'[r].event.version = 0
      /\ refreshes'[r].version = 0
      /\ \A s \in Task : s # r => refreshes'[s] = refreshes[s]
  BY <1>0 DEF IInv, TasksOK, Task, NoRefresh
<1>3. /\ stat' = f.event.exists /\ cache' = Fetched(f.content)
      /\ newest'.stat = Later(f.event.version, newest.stat)
      /\ newest'.content = Later(f.version, newest.content)
  BY <1>0 DEF Flip
<1>4. /\ f.event.version \in Nat /\ f.version \in Nat
      /\ f.event.version <= f.version /\ f.version <= disk.version
      /\ f.event.version <= disk.version
  BY <1>0 DEF VersionsOK
<1>5. /\ newest'.stat \in Nat /\ newest'.content \in Nat
      /\ newest'.stat <= disk.version /\ newest.stat <= newest'.stat
      /\ newest'.content <= disk.version /\ newest.content <= newest'.content
      /\ f.event.version <= newest'.stat /\ f.event.version <= newest'.content
  BY <1>3, <1>4 DEF Later, VersionsOK
<1>6. VersionsOK'
  <2>1. \A s \in Task :
          /\ refreshes'[s].event.version <= disk.version
          /\ refreshes'[s].version <= disk.version
          /\ refreshes'[s].pc = "answered" =>
               refreshes'[s].event.version <= refreshes'[s].version
    BY <1>2 DEF VersionsOK
  <2>2. QED
    BY <1>0, <1>1, <1>5, <2>1 DEF VersionsOK, OpGoesOn
<1>7. Announced => Announced' \/ f.event.version = disk.version
  BY <1>0, <1>2 DEF Announced
<1>8. ContentOK'
  <2> SUFFICES ASSUME NoContentRace' PROVE ContentsFresh'
    BY DEF ContentOK
  <2>1. ContentsFresh
    BY <1>1, RacesStay DEF ContentOK
  <2>2. newest'.content = f.version
    BY <1>0, <1>3, <1>4 DEF Flip, Overtaken, Later, NoContentRace
  <2>3. \A c, v : Holds(c, v)' => Holds(c, v)
    BY <1>0, <1>1, <1>2, <1>3, <2>2 DEF Holds, OpGoesOn, Fetched
  <2>4. Announced \/ newest.content = disk.version =>
          (Announced \/ newest.content = disk.version)'
    BY <1>0, <1>4, <1>5, <1>7
  <2>5. \A s \in Task : refreshes'[s].pc # "idle" => subscribed
    BY <1>2, <2>1 DEF ContentsFresh
  <2>6. QED
    BY <1>0, <2>1, <2>3, <2>4, <2>5, ContentsCarry
<1>9. StatOK'
  <2> SUFFICES ASSUME NoStatRace' PROVE StatsFresh'
    BY DEF StatOK
  <2>1. StatsFresh
    BY <1>1, RacesStay DEF StatOK
  <2>2. newest'.stat = f.event.version
    BY <1>0, <1>3, <1>4 DEF Flip, Overtaken, Later, NoStatRace
  <2>3. \A e, v : Claims(e, v)' => Claims(e, v)
    BY <1>0, <1>2, <1>3, <2>2 DEF Claims
  <2>4. Announced \/ newest.stat = disk.version =>
          (Announced \/ newest.stat = disk.version)'
    BY <1>0, <1>4, <1>5, <1>7
  <2>5. QED
    BY <1>0, <2>1, <2>3, <2>4, StatsCarry
<1>10. QED
  BY <1>6, <1>8, <1>9

\* Neither a cache that is emptied nor a query that begins adds to what is held.
LEMMA FewerKeepsFresh ==
  ASSUME FInv, IInv', UNCHANGED <<server, events, newest, refreshes, op>>,
         races \subseteq races', cache' \in {cache, NoValue}, stat' \in {stat, "unknown"},
         query' = query \/ query'.pc # "answered", query'.version <= disk.version
  PROVE  FInv'
<1> USE DEF FInv, server
<1>1. VersionsOK'
  BY DEF VersionsOK
<1>2. Announced' = Announced
  BY DEF Announced
<1>3. ContentOK'
  <2> SUFFICES ASSUME NoContentRace' PROVE ContentsFresh'
    BY DEF ContentOK
  <2>1. ContentsFresh
    BY RacesStay DEF ContentOK
  <2>2. \A c, v : Holds(c, v)' => Holds(c, v)
    BY DEF Holds
  <2>3. QED
    BY <1>2, <2>1, <2>2, ContentsCarry DEF ContentsFresh
<1>4. StatOK'
  <2> SUFFICES ASSUME NoStatRace' PROVE StatsFresh'
    BY DEF StatOK
  <2>1. StatsFresh
    BY RacesStay DEF StatOK
  <2>2. \A e, v : Claims(e, v)' => Claims(e, v)
    BY DEF Claims
  <2>3. QED
    BY <1>2, <2>1, <2>2, StatsCarry
<1>5. QED
  BY <1>1, <1>3, <1>4

\* Nothing is held, and no event on its way, when the client subscribes.
LEMMA SubscribeKeepsFresh == FInv /\ IInv' /\ Subscribe => FInv'
<1> SUFFICES ASSUME FInv, IInv', Subscribe PROVE FInv'
  OBVIOUS
<1> USE VersionTypes DEF FInv, cacheVars
<1>0. /\ UNCHANGED <<disk, dirty, reading, lastState, events, stat, cache, newest, refreshes>>
      /\ subscribed' /\ races \subseteq races'
      /\ ~subscribed /\ events # <<>> => "unsubscribed" \in races'
  BY DEF Subscribe
<1>1. /\ op'.version = op.version /\ (op'.pc = "written" => op' = op)
      /\ query'.version = query.version /\ (query'.pc = "answered" => query' = query)
  BY DEF Subscribe, IInv, TasksOK, WritesOK, Op, Query
<1>2. VersionsOK'
  BY <1>0, <1>1 DEF VersionsOK
<1>3. /\ Announced' = Announced /\ Noticed' = Noticed
      /\ \A c, v : ContentFresh(c, v) => ContentFresh(c, v)'
      /\ \A e, v : StatFresh(e, v) => StatFresh(e, v)'
  BY <1>0 DEF Announced, Noticed, ContentFresh, StatFresh
<1>4. ContentOK'
  <2> SUFFICES ASSUME NoContentRace' PROVE ContentsFresh'
    BY DEF ContentOK
  <2>1. ContentsFresh
    BY <1>0, RacesStay DEF ContentOK
  <2>2. \A c, v : Holds(c, v)' => Holds(c, v)
    BY <1>0, <1>1 DEF Holds
  <2>3. QED
    BY <1>0, <1>3, <2>1, <2>2 DEF ContentsFresh
<1>5. StatOK'
  <2> SUFFICES ASSUME NoStatRace' PROVE StatsFresh'
    BY DEF StatOK
  <2>1. StatsFresh
    BY <1>0, RacesStay DEF StatOK
  <2>2. \A e, v : Claims(e, v)' => Claims(e, v)
    BY <1>0, <1>1 DEF Claims
  <2>3. CASE subscribed
    BY <1>0, <1>3, <2>1, <2>2, <2>3 DEF StatsFresh
  <2>4. CASE ~subscribed
    <3>1. Len(events') = 0
      BY <1>0, <2>4 DEF NoStatRace
    <3>2. QED
      BY <1>0, <2>1, <2>2, <2>4, <3>1 DEF StatsFresh
  <2>5. QED
    BY <2>3, <2>4
<1>6. QED
  BY <1>2, <1>4, <1>5

\* Nothing is held when the subscription ends.
LEMMA UnsubscribeKeepsFresh == FInv /\ IInv' /\ Unsubscribe => FInv'
<1> SUFFICES ASSUME FInv, IInv', Unsubscribe PROVE FInv'
  OBVIOUS
<1> USE DEF FInv, cacheVars, writeVars
<1>0. /\ UNCHANGED <<disk, dirty, reading, lastState, events, seen, op>>
      /\ ~subscribed' /\ races \subseteq races' /\ (KeptUnwatched => "unsubscribed" \in races')
  BY DEF Unsubscribe, seen, IInv, ServerOK
<1>1. VersionsOK'
  BY <1>0 DEF VersionsOK, seen
<1>2. ~KeptUnwatched => /\ \A c, v : ~Holds(c, v)'
                        /\ \A e, v : ~Claims(e, v)'
                        /\ \A r \in Task : refreshes'[r].pc = "idle"
  BY <1>0 DEF KeptUnwatched, Holds, Claims, seen, Task
<1>3. ContentOK'
  BY <1>0, <1>2 DEF ContentOK, ContentsFresh, NoContentRace
<1>4. StatOK'
  BY <1>0, <1>2 DEF StatOK, StatsFresh, NoStatRace
<1>5. QED
  BY <1>1, <1>3, <1>4

-----------------------------------------------------------------------------
(***************************************************************************)
(* The invariant and the theorems.                                         *)
(***************************************************************************)

LEMMA InitFInv == Init => FInv
<1> SUFFICES ASSUME Init PROVE FInv
  OBVIOUS
<1> USE DEF Init
<1>1. IInv
  BY InitIInv
<1>2. \A r \in Task : /\ refreshes[r].pc = "idle" /\ refreshes[r].version = 0
                     /\ refreshes[r].event.version = 0
  BY DEF Task, NoRefresh
<1>3. disk.version = 0 /\ lastState.version = 0 /\ events = <<>> /\ Len(events) = 0
  BY DEF Read
<1>4. /\ query.pc = "idle" /\ query.version = 0 /\ op.pc = "none" /\ op.version = 0
      /\ newest.stat = 0 /\ newest.content = 0
  BY DEF NoQuery, NoOp
<1>5. VersionsOK
  <2>1. 1..Len(events) = {}
    BY <1>3
  <2>2. 0 <= 0
    OBVIOUS
  <2>3. QED
    BY <1>2, <1>3, <1>4, <2>1, <2>2, Zenon DEF VersionsOK
<1>6. ContentOK /\ StatOK
  <2>1. \A c, v : ~Holds(c, v)
    BY <1>2, <1>4 DEF Holds
  <2>2. \A e, v : ~Claims(e, v)
    BY <1>2, <1>4 DEF Claims
  <2>3. QED
    BY <1>2, <1>3, <2>1, <2>2 DEF ContentOK, ContentsFresh, StatOK, StatsFresh
<1>7. QED
  BY <1>1, <1>5, <1>6 DEF FInv

\* Every step keeps the invariant.
LEMMA NextFInv == FInv /\ [Next]_vars => FInv'
<1> SUFFICES ASSUME FInv, [Next]_vars PROVE FInv'
  OBVIOUS
<1> USE DEF serverVars, cacheVars, taskVars, writeVars, watched, seen, server
<1>0. IInv' /\ IInv /\ VersionsOK
  BY NextIInv DEF FInv
<1>a. /\ op \in Op /\ op.version <= disk.version /\ op.value \in Content \cup {NoValue}
      /\ (op.pc # "none" => op.value \in Content)
      /\ query.version <= disk.version
      /\ disk.version \in Nat /\ op.version \in Nat
  BY <1>0, VersionTypes DEF IInv, WritesOK, Op, VersionsOK
<1>1. ASSUME NEW w \in Watcher, Fire(w) PROVE FInv'
  <2>1. CASE disk.content = Gone
    BY <1>0, <1>1, <2>1, ReportKeepsFresh DEF Fire, Exists
  <2>2. CASE disk.content # Gone
    BY <1>0, <1>1, <2>2, ReadingKeepsFresh DEF Fire
  <2>3. QED
    BY <2>1, <2>2
<1>2. ASSUME NEW w \in Watcher, HandlerReads(w) PROVE FInv'
  BY <1>0, <1>2, ReportKeepsFresh DEF HandlerReads, Exists
<1>3. ASSUME OtherChanges PROVE FInv'
  <2>1. PICK c \in (Content \cup {Gone}) \ {disk.content} : ChangeDisk(c)
    BY <1>3 DEF OtherChanges
  <2>2. disk'.version = disk.version + 1
    BY <2>1 DEF ChangeDisk, Read
  <2>3. QED
    BY <1>0, <1>a, <1>3, <2>1, <2>2, ChangeKeepsFresh DEF OtherChanges, OnDisk
<1>4. ASSUME WriteBegins PROVE FInv'
  <2>1. disk'.version = disk.version + 1
    BY <1>4 DEF WriteBegins, ChangeDisk, Read
  <2>2. op'.version = op.version /\ op'.pc = "writing"
    BY <1>a, <1>4 DEF WriteBegins, Op
  <2>3. QED
    BY <1>0, <1>a, <1>4, <2>1, <2>2, ChangeKeepsFresh DEF WriteBegins, OnDisk
<1>5. ASSUME WriteEnds PROVE FInv'
  <2>1. disk'.version = disk.version + 1 /\ disk'.content = op.value
    BY <1>5 DEF WriteEnds, ChangeDisk, Read
  <2>2. op'.version = disk.version + 1 /\ op'.value = op.value
    BY <1>a, <1>5 DEF WriteEnds, Op
  <2>3. NoContentRace' => subscribed
    BY <1>5 DEF WriteEnds, Unsubscribed, NoContentRace
  <2>4. op.value \in OnDisk
    BY <1>a, <1>5 DEF WriteEnds, OnDisk
  <2>5. QED
    BY <1>0, <1>a, <1>5, <2>1, <2>2, <2>3, <2>4, ChangeKeepsFresh DEF WriteEnds
<1>6. ASSUME Remove PROVE FInv'
  <2>1. disk'.version = disk.version + 1
    BY <1>6 DEF Remove, ChangeDisk, Read
  <2>2. QED
    BY <1>0, <1>a, <1>6, <2>1, ChangeKeepsFresh DEF Remove, OnDisk
<1>7. ASSUME FinishOp PROVE op'.pc # "written" /\ op'.version = 0
  BY <1>7 DEF FinishOp, StartOp, NoOp
<1>8. ASSUME WriteFails PROVE FInv'
  BY <1>0, <1>a, <1>7, <1>8, MovingOnKeepsFresh DEF WriteFails, OpGoesOn
<1>9. ASSUME ConfirmTimeout PROVE FInv'
  BY <1>0, <1>a, <1>7, <1>9, MovingOnKeepsFresh DEF ConfirmTimeout, OpGoesOn
<1>10. ASSUME CalmDown PROVE FInv'
  <2>1. op'.pc # "written" /\ op'.version = op.version
    BY <1>a, <1>10 DEF CalmDown, AfterEnsureWatches, Op
  <2>2. QED
    BY <1>0, <1>a, <1>10, <2>1, MovingOnKeepsFresh DEF CalmDown, OpGoesOn
<1>11. ASSUME NEW value \in Content, SetAndAwait(value) PROVE FInv'
  <2>1. op'.pc # "written" /\ op'.version = 0
    BY <1>11 DEF SetAndAwait, StartOp, NoOp
  <2>2. UNCHANGED <<watched, seen, races>>
    BY <1>11 DEF SetAndAwait
  <2>3. OpGoesOn
    BY <1>a, <2>1, <2>2 DEF OpGoesOn
  <2>4. QED
    BY <1>0, <2>2, <2>3, MovingOnKeepsFresh
<1>12. ASSUME NEW value \in Content, SetLazily(value) PROVE FInv'
  <2>1. \/ op'.pc # "written" /\ op'.version = 0
        \/ op'.pc = op.pc /\ op'.value = op.value /\ op'.version = op.version
    BY <1>a, <1>12 DEF SetLazily, StartOp, NoOp, Op
  <2>2. QED
    BY <1>0, <1>a, <1>12, <2>1, MovingOnKeepsFresh DEF SetLazily, OpGoesOn
<1>13. ASSUME NEW of \in {"stat", "content"}, BeginQuery(of) PROVE FInv'
  <2>1. query'.pc # "answered" /\ query'.version = 0
    BY <1>13 DEF BeginQuery, AfterEnsureWatches, NoQuery
  <2>2. QED
    BY <1>0, <1>a, <1>13, <2>1, FewerKeepsFresh DEF BeginQuery
<1>14. ASSUME Cleanup PROVE FInv'
  BY <1>0, <1>a, <1>14, FewerKeepsFresh DEF Cleanup
<1>15. ASSUME CleanupEnds PROVE FInv'
  BY <1>0, <1>a, <1>15, MovingOnKeepsFresh DEF CleanupEnds, OpGoesOn
<1>16. CASE ServerAnswers
  BY <1>0, <1>16, ServerAnswersKeepsFresh
<1>17. CASE TakeAnswer
  BY <1>0, <1>17, TakeAnswerKeepsFresh
<1>18. CASE WriteAnswered
  BY <1>0, <1>18, WriteAnsweredKeepsFresh
<1>19. CASE HandleChange
  BY <1>0, <1>19, HandleChangeKeepsFresh
<1>20. ASSUME NEW r \in 1..MaxRefreshes, RefreshEnds(r) PROVE FInv'
  BY <1>0, <1>20, RefreshEndsKeepsFresh DEF Task
<1>21. CASE Subscribe
  BY <1>0, <1>21, SubscribeKeepsFresh
<1>22. CASE Unsubscribe
  BY <1>0, <1>22, UnsubscribeKeepsFresh
<1>23. CASE UNCHANGED vars
  BY <1>0, <1>a, <1>23, MovingOnKeepsFresh DEF vars, OpGoesOn
<1>24. QED
  BY <1>1, <1>2, <1>3, <1>4, <1>5, <1>6, <1>8, <1>9, <1>10, <1>11, <1>12, <1>13, <1>14,
     <1>15, <1>16, <1>17, <1>18, <1>19, <1>20, <1>21, <1>22, <1>23
  DEF Next, ServerStep, ClientStep, UserStep

\* The invariant holds throughout.
THEOREM FreshInvariance == Spec => []FInv
BY InitFInv, NextFInv, PTL DEF Spec

\* When everything has settled, the content that the File object has cached is the one on
\* disk, whatever has been written, changed, removed and fetched in between, unless an answer
\* was overtaken, a change was masked, or something was cached without a subscription.
THEOREM ContentStaysFresh == Spec => []ContentIsFresh
<1>1. FInv => ContentIsFresh
  BY FInvIsStronger
<1>2. QED
  BY <1>1, FreshInvariance, PTL

\* Then also what the File object says of the existence of the file is true, unless one of
\* these races has happened, or a handler has found the file and could not read it any more.
THEOREM ExistenceStaysFresh == Spec => []ExistenceIsFresh
<1>1. FInv => ExistenceIsFresh
  BY FInvIsStronger
<1>2. QED
  BY <1>1, FreshInvariance, PTL
=============================================================================
