------------------------------ MODULE FileSync ------------------------------
(***************************************************************************)
(* One file that the client watches live: the client's File object         *)
(* (model/File.ts), the session's file methods (ElectrifiedSession.ts) and *)
(* the server's SaferFileWatcher, with other writers of the same file.     *)
(*                                                                         *)
(* The client and the server run one callback at a time and interleave at  *)
(* awaits.  A remote call is the moment at which the server executes it    *)
(* and the one at which the client takes its answer: answers overtake each *)
(* other and the change events.  Events arrive in order.  Of a stat, all   *)
(* that counts is whether the file exists.  One encoding; no directories.  *)
(***************************************************************************)
EXTENDS Naturals, Sequences

CONSTANTS
  Content,      \* what is written to the file
  Torn,         \* a half-written content
  Gone,         \* there is no file
  NoValue,
  MaxCalls,     \* bound: calls of setStringContent and remove, changes by others
  MaxRefreshes  \* bound: runs of changeOnDiskHandler at a time

ASSUME FileSyncAssumption ==
  /\ Torn \notin Content /\ Gone \notin Content /\ NoValue \notin Content
  /\ Torn # Gone /\ Torn # NoValue /\ Gone # NoValue
  /\ MaxCalls \in Nat /\ MaxRefreshes \in Nat

VARIABLES
  \* The server:
  disk,         \* content and version; every change makes a new version
  subscribed,   \* is the client among the listeners of the SaferFileWatcher?
  dirty,        \* the chokidar watchers that have still to fire
  reading,      \* those whose event handler has found the file and reads it
  lastState,    \* lastFileState, with its version
  events,       \* calls of the listener on their way to the client
  \* The File object:
  stat,         \* cache_stat
  cache,        \* cache_stringContent
  uncommitted,  \* cache_stringContent_unCommitted
  watching,     \* watchesForChanges
  op,           \* setStringContent_writeOperation
  query,        \* the query behind getStats or getStringContent
  refreshes,    \* the runs of changeOnDiskHandler that await a content
  removal,      \* removeOperation
  \* History:
  informed,     \* since the cache was replaced, have the change listeners been called,
                \* or has a writer got an error?
  assigned,     \* the last value set without awaiting its commit, until its write begins
  newest,       \* the newest version the client has heard of
  races,        \* the races that have happened
  calls

serverVars == <<subscribed, dirty, reading, lastState, events>>
cacheVars == <<stat, cache, informed, newest>>
taskVars == <<query, refreshes, removal>>
writeVars == <<uncommitted, op, assigned>>
vars == <<disk, serverVars, cacheVars, watching, taskVars, writeVars, races, calls>>

Watcher == {"direct", "polling"}
Exists == {"yes", "no"}
Race == {"overtaken", "masked", "halfSeen", "unsubscribed", "early"}
MaybeExists == Exists \cup {"unknown"}
OnDisk == Content \cup {Torn, Gone}
Known == Content \cup {Torn, NoValue}

Read(c, v) == [content |-> c, version |-> v]
Query == [pc : {"idle", "subscribe", "ask", "answered"}, of : {"stat", "content"},
          content : OnDisk, version : Nat]
NoQuery == [pc |-> "idle", of |-> "stat", content |-> Gone, version |-> 0]

\* What a listener is called with; the version is history.
Event == [exists : Exists, version : Nat]

Refresh == [pc : {"idle", "ask", "answered"}, event : Event, content : OnDisk, version : Nat]
NoRefresh == [pc |-> "idle", event |-> [exists |-> "no", version |-> 0],
              content |-> Gone, version |-> 0]

\* lazy: awaited by doWrite.  next: the value that onFinishedFn writes.
Op == [pc : {"none", "calm", "subscribe", "request", "writing", "written", "confirm"},
       value : Content \cup {NoValue}, lazy : BOOLEAN, confirmed : BOOLEAN,
       next : Content \cup {NoValue}, version : Nat]
NoOp == [pc |-> "none", value |-> NoValue, lazy |-> FALSE, confirmed |-> FALSE,
         next |-> NoValue, version |-> 0]
StartOp(value, lazy) == [NoOp EXCEPT !.pc = "calm", !.value = value, !.lazy = lazy]

Init ==
  /\ disk \in [content : Content \cup {Gone}, version : {0}]
  /\ subscribed = FALSE
  /\ dirty = {}
  /\ reading = {}
  /\ lastState = Read(NoValue, 0)
  /\ events = <<>>
  /\ stat = "unknown"
  /\ cache = NoValue
  /\ uncommitted = NoValue
  /\ watching = FALSE
  /\ op = NoOp
  /\ query = NoQuery
  /\ refreshes = [r \in 1..MaxRefreshes |-> NoRefresh]
  /\ removal = "idle"
  /\ informed = TRUE
  /\ assigned = NoValue
  /\ newest = [stat |-> 0, content |-> 0]
  /\ races = {}
  /\ calls = 0

-----------------------------------------------------------------------------
(***************************************************************************)
(* The disk and the SaferFileWatcher.  Its watchers exist once the file    *)
(* has been subscribed to; the listener is gone after offFileChanged.      *)
(***************************************************************************)

Later(v, w) == IF v < w THEN w ELSE v

\* "It was observed that the direct file watcher does not fire anymore."
ChangeDisk(content) ==
  /\ disk' = Read(content, disk.version + 1)
  /\ IF subscribed \/ lastState.content # NoValue
       THEN \E missing \in SUBSET {"direct"} : dirty' = Watcher \ (missing \ dirty)
       ELSE UNCHANGED dirty

\* Another process replaces or removes the file.
OtherChanges ==
  /\ calls < MaxCalls
  /\ \E c \in (Content \cup {Gone}) \ {disk.content} : ChangeDisk(c)
  /\ calls' = calls + 1
  /\ UNCHANGED <<subscribed, reading, lastState, events, cacheVars, watching, taskVars,
                 writeVars, races>>

\* Only an actual change is reported to the listeners.  Two races: the file went between
\* stat and read; the content is that of the last event, but was another one in between.
Report(exists) ==
  /\ lastState' = disk
  /\ events' = IF subscribed /\ disk.content # lastState.content
       THEN Append(events, [exists |-> exists, version |-> disk.version]) ELSE events
  /\ races' = races
       \cup (IF exists = "yes" /\ disk.content = Gone THEN {"halfSeen"} ELSE {})
       \cup (IF disk.content = lastState.content /\ disk.version # lastState.version
             THEN {"masked"} ELSE {})

\* Nothing is reported without a file.
BugFire(w) ==
  /\ w \in dirty \ reading
  /\ dirty' = dirty \ {w}
  /\ IF disk.content = Gone
       THEN UNCHANGED reading
       ELSE reading' = reading \cup {w}
  /\ UNCHANGED <<disk, subscribed, lastState, events, cacheVars, watching, taskVars,
                 writeVars, races, calls>>

\* A watcher fires, for all changes since it did so last, and stats the file.  Without
\* one there is nothing to read.
Fire(w) ==
  /\ w \in dirty \ reading
  /\ dirty' = dirty \ {w}
  /\ IF disk.content = Gone
       THEN Report("no") /\ UNCHANGED reading
       ELSE reading' = reading \cup {w} /\ UNCHANGED <<lastState, events, races>>
  /\ UNCHANGED <<disk, subscribed, cacheVars, watching, taskVars, writeVars, calls>>

\* The rest of the handler; an error of readFile counts as no file.
HandlerReads(w) ==
  /\ w \in reading
  /\ reading' = reading \ {w}
  /\ Report("yes")
  /\ UNCHANGED <<disk, subscribed, dirty, cacheVars, watching, taskVars, writeVars,
                 calls>>

-----------------------------------------------------------------------------
(***************************************************************************)
(* Write operations.                                                       *)
(***************************************************************************)

\* ensureWatchesForChangesOnDisk: watchesForChanges is set before the subscription is
\* awaited, so a second caller goes on at once.
AfterEnsureWatches(next) == IF watching THEN next ELSE "subscribe"

\* setStringContent with awaitCommit, also when the caller is run again after the
\* commit.  With an operation for the same value it awaits that one.
SetAndAwait(value) ==
  /\ calls < MaxCalls
  /\ cache # value
  /\ op.pc = "none"
  /\ op' = StartOp(value, FALSE)
  /\ assigned' = NoValue
  /\ calls' = calls + 1
  /\ UNCHANGED <<disk, serverVars, cacheVars, watching, taskVars, uncommitted, races>>

\* setStringContent without awaitCommit: doWrite, now or as the operation's onFinishedFn.
SetLazily(value) ==
  /\ calls < MaxCalls
  /\ uncommitted' = value
  /\ IF op.pc = "none"
       THEN op' = StartOp(value, TRUE) /\ assigned' = NoValue
       ELSE op' = [op EXCEPT !.next = value] /\ assigned' = value
  /\ calls' = calls + 1
  /\ UNCHANGED <<disk, serverVars, cacheVars, watching, taskVars, races>>

\* Without the finally of doWrite.
BugFinishOp ==
  /\ op' = IF op.next = NoValue THEN NoOp ELSE StartOp(op.next, TRUE)
  /\ assigned' = IF op.next = assigned THEN NoValue ELSE assigned
  /\ UNCHANGED uncommitted

\* The end of the operation, with or without an error: onFinishedFn starts the next one,
\* and then doWrite deletes the uncommitted value, whichever that is.
FinishOp ==
  /\ op' = IF op.next = NoValue THEN NoOp ELSE StartOp(op.next, TRUE)
  /\ assigned' = IF op.next = assigned THEN NoValue ELSE assigned
  /\ uncommitted' = IF op.lazy THEN NoValue ELSE uncommitted

\* _calmDownAfterChangeEvent has waited.
CalmDown ==
  /\ op.pc = "calm"
  /\ op' = [op EXCEPT !.pc = AfterEnsureWatches("request")]
  /\ watching' = TRUE
  /\ UNCHANGED <<disk, serverVars, cacheVars, taskVars, uncommitted, assigned, races,
                 calls>>

\* The race of what the server does for a client that it does not notify.
Unsubscribed == IF subscribed THEN {} ELSE {"unsubscribed"}

\* setFileContent: writeFile empties the file first.
WriteBegins ==
  /\ op.pc = "request"
  /\ ChangeDisk(Torn)
  /\ op' = [op EXCEPT !.pc = "writing"]
  /\ races' = races \cup Unsubscribed
  /\ UNCHANGED <<subscribed, reading, lastState, events, cacheVars, watching, taskVars,
                 uncommitted, assigned, calls>>

WriteEnds ==
  /\ op.pc = "writing"
  /\ ChangeDisk(op.value)
  /\ op' = [op EXCEPT !.pc = "written", !.version = disk.version + 1]
  /\ races' = races \cup Unsubscribed
  /\ UNCHANGED <<subscribed, reading, lastState, events, cacheVars, watching, taskVars,
                 uncommitted, assigned, calls>>

\* onFinishedFn is not called after an error.
BugWriteFails ==
  /\ op.pc \in {"request", "writing"}
  /\ op' = NoOp
  /\ uncommitted' = IF op.lazy THEN NoValue ELSE uncommitted
  /\ informed' = TRUE
  /\ UNCHANGED <<disk, serverVars, stat, cache, newest, watching, taskVars, assigned,
                 races, calls>>

\* No quorum, /etc/pve is not mounted, or writeFile fails.
WriteFails ==
  /\ op.pc \in {"request", "writing"}
  /\ FinishOp
  /\ informed' = TRUE
  /\ UNCHANGED <<disk, serverVars, stat, cache, newest, watching, taskVars, races,
                 calls>>

Overtaken(version, than) == IF version < than THEN {"overtaken"} ELSE {}

HearOfContent(version) ==
  newest' = [newest EXCEPT !.content = Later(version, @)]

\* The client takes the answer of setFileContent.  A change event may have confirmed the
\* operation already.
WriteAnswered ==
  /\ op.pc = "written"
  /\ cache' = op.value
  /\ HearOfContent(op.version)
  /\ races' = races \cup Overtaken(op.version, newest.content) \cup Unsubscribed
  /\ IF op.confirmed
       THEN FinishOp
       ELSE /\ op' = [op EXCEPT !.pc = "confirm"]
            /\ UNCHANGED <<uncommitted, assigned>>
  /\ UNCHANGED <<disk, serverVars, stat, informed, watching, taskVars, calls>>

\* WRITE_CONFIRM_TIMEOUT.
ConfirmTimeout ==
  /\ op.pc = "confirm"
  /\ FinishOp
  /\ informed' = TRUE
  /\ UNCHANGED <<disk, serverVars, stat, cache, newest, watching, taskVars, races,
                 calls>>

-----------------------------------------------------------------------------
(***************************************************************************)
(* Queries.                                                                *)
(***************************************************************************)

\* getStats without a cached stat, getStringContent without a cached or uncommitted
\* content.
BeginQuery(of) ==
  /\ query.pc = "idle"
  /\ IF of = "stat" THEN stat = "unknown"
                    ELSE stat = "yes" /\ uncommitted = NoValue /\ cache = NoValue
  /\ query' = [NoQuery EXCEPT !.pc = AfterEnsureWatches("ask"), !.of = of]
  /\ watching' = TRUE
  /\ UNCHANGED <<disk, serverVars, cacheVars, refreshes, removal, writeVars, races,
                 calls>>

\* onFileChanged, for whoever awaits it.  Events of an earlier subscription may still be on
\* their way.
Subscribe ==
  /\ \/ /\ op.pc = "subscribe"
        /\ op' = [op EXCEPT !.pc = "request"]
        /\ UNCHANGED query
     \/ /\ query.pc = "subscribe"
        /\ query' = [query EXCEPT !.pc = "ask"]
        /\ UNCHANGED op
  /\ subscribed' = TRUE
  /\ races' = races \cup (IF ~subscribed /\ events # <<>> THEN {"unsubscribed"} ELSE {})
  /\ UNCHANGED <<disk, dirty, reading, lastState, events, cacheVars, watching, refreshes,
                 removal, uncommitted, assigned, calls>>

Answered(task) ==
  [task EXCEPT !.pc = "answered", !.content = disk.content, !.version = disk.version]

\* getFileStat and getFileContent on the server.
ServerAnswers ==
  /\ \/ /\ query.pc = "ask"
        /\ query' = Answered(query)
        /\ UNCHANGED refreshes
     \/ /\ \E r \in 1..MaxRefreshes :
             /\ refreshes[r].pc = "ask"
             /\ refreshes' = [refreshes EXCEPT ![r] = Answered(@)]
        /\ UNCHANGED query
  /\ races' = races \cup Unsubscribed
  /\ UNCHANGED <<disk, serverVars, cacheVars, watching, removal, writeVars, calls>>

\* The client takes the answer.  An error of readFile leaves the cache as it is.
TakeAnswer ==
  LET q == query IN
  /\ q.pc = "answered"
  /\ query' = NoQuery
  /\ CASE q.of = "stat" ->
            /\ stat' = IF q.content = Gone THEN "no" ELSE "yes"
            /\ newest' = [newest EXCEPT !.stat = Later(q.version, @)]
            /\ races' = races \cup Overtaken(q.version, newest.stat) \cup Unsubscribed
            /\ UNCHANGED cache
       [] q.of = "content" /\ q.content # Gone ->
            /\ cache' = q.content
            /\ HearOfContent(q.version)
            /\ races' = races \cup Overtaken(q.version, newest.content) \cup Unsubscribed
            /\ UNCHANGED stat
       [] OTHER -> UNCHANGED <<stat, cache, newest, races>>
  /\ UNCHANGED <<disk, serverVars, informed, watching, refreshes, removal, writeVars,
                 calls>>

-----------------------------------------------------------------------------
(***************************************************************************)
(* changeOnDiskHandler.                                                    *)
(***************************************************************************)

\* The write operation that is confirmed keeps its content from the listeners.
BugInforms(content) == op.pc = "none"

\* Listeners are skipped while a write operation waits for another content.
Informs(content) == op.pc = "none" \/ op.value = content

\* The race of a write operation that is confirmed by a version from before its write.
Early(content, version) ==
  IF op.pc # "none" /\ op.value = content /\ (op.version = 0 \/ version < op.version)
    THEN {"early"} ELSE {}

\* "Atomically flip fields at once", then the write operation, then the listeners.
Flip(event, content, version) ==
  /\ stat' = event.exists
  /\ cache' = content
  /\ newest' = [stat |-> Later(event.version, newest.stat),
                content |-> Later(version, newest.content)]
  /\ races' = races \cup Overtaken(event.version, newest.stat)
                    \cup Overtaken(version, newest.content) \cup Unsubscribed
                    \cup Early(content, version)
  /\ informed' = Informs(content)
  /\ IF op.pc = "none" \/ op.value # content
       THEN UNCHANGED writeVars
       ELSE IF op.pc = "confirm"
         THEN FinishOp
         ELSE /\ op' = [op EXCEPT !.confirmed = TRUE]
              /\ UNCHANGED <<uncommitted, assigned>>

\* An event arrives.  Only a content that is cached is fetched again.
HandleChange ==
  /\ events # <<>>
  /\ LET event == Head(events) IN
     IF event.exists = "yes" /\ cache # NoValue
       THEN /\ \E r \in 1..MaxRefreshes :
                 /\ refreshes[r].pc = "idle"
                 /\ \A s \in 1..(r - 1) : refreshes[s].pc # "idle"
                 /\ refreshes' = [refreshes EXCEPT ![r].pc = "ask", ![r].event = event]
            /\ UNCHANGED <<cacheVars, writeVars, races>>
       ELSE /\ Flip(event, NoValue, event.version)
            /\ UNCHANGED refreshes
  /\ events' = Tail(events)
  /\ UNCHANGED <<disk, subscribed, dirty, reading, lastState, watching, query, removal,
                 calls>>

BugFetched(content) == content

\* An error of readFile is dropped ("i.e. the file was deleted").
Fetched(content) == IF content = Gone THEN NoValue ELSE content

\* A content that is cached is not replaced by what was fetched.
BugRefreshEnds(r) ==
  LET f == refreshes[r] IN
  /\ f.pc = "answered"
  /\ Flip(f.event, cache, f.version)
  /\ refreshes' = [refreshes EXCEPT ![r] = NoRefresh]
  /\ UNCHANGED <<disk, serverVars, watching, query, removal, calls>>

\* The content has come.
RefreshEnds(r) ==
  LET f == refreshes[r] IN
  /\ f.pc = "answered"
  /\ Flip(f.event, Fetched(f.content), f.version)
  /\ refreshes' = [refreshes EXCEPT ![r] = NoRefresh]
  /\ UNCHANGED <<disk, serverVars, watching, query, removal, calls>>

-----------------------------------------------------------------------------
(***************************************************************************)
(* remove and cleanup.                                                     *)
(***************************************************************************)

\* remove up to the deletion; one that fails, because there is no quorum or no file any
\* more, changes nothing.
Remove ==
  /\ calls < MaxCalls
  /\ stat = "yes"
  /\ disk.content # Gone
  /\ removal = "idle"
  /\ ChangeDisk(Gone)
  /\ removal' = "removed"
  /\ calls' = calls + 1
  /\ UNCHANGED <<subscribed, reading, lastState, events, cacheVars, watching, query,
                 refreshes, writeVars, races>>

\* cleanup up to offFileChanged.
Cleanup ==
  /\ removal = "removed"
  /\ stat' = "unknown"
  /\ cache' = NoValue
  /\ uncommitted' = NoValue
  /\ informed' = TRUE
  /\ removal' = IF watching THEN "off" ELSE "idle"
  /\ UNCHANGED <<disk, serverVars, newest, watching, query, refreshes, op, assigned,
                 races, calls>>

\* Something is cached, or about to be, without a subscription.
KeptUnwatched ==
  \/ stat # "unknown" \/ cache # NoValue
  \/ query.pc # "idle" \/ op.pc # "none"
  \/ \E r \in 1..MaxRefreshes : refreshes[r].pc # "idle"

Unsubscribe ==
  /\ removal = "off"
  /\ subscribed' = FALSE
  /\ removal' = "offDone"
  /\ races' = races \cup (IF KeptUnwatched THEN {"unsubscribed"} ELSE {})
  /\ UNCHANGED <<disk, dirty, reading, lastState, events, cacheVars, watching, query,
                 refreshes, writeVars, calls>>

CleanupEnds ==
  /\ removal = "offDone"
  /\ watching' = FALSE
  /\ removal' = "idle"
  /\ UNCHANGED <<disk, serverVars, cacheVars, query, refreshes, writeVars, races, calls>>

-----------------------------------------------------------------------------
ServerStep ==
  \/ \E w \in Watcher : Fire(w) \/ HandlerReads(w)
  \/ WriteEnds \/ Subscribe \/ ServerAnswers \/ Unsubscribe

ClientStep ==
  \/ CalmDown \/ WriteAnswered \/ ConfirmTimeout
  \/ TakeAnswer
  \/ HandleChange \/ \E r \in 1..MaxRefreshes : RefreshEnds(r)
  \/ Cleanup \/ CleanupEnds

UserStep ==
  \/ \E value \in Content : SetAndAwait(value) \/ SetLazily(value)
  \/ \E of \in {"stat", "content"} : BeginQuery(of)
  \/ Remove

Next ==
  \/ ServerStep \/ ClientStep \/ UserStep
  \/ WriteBegins \/ WriteFails
  \/ OtherChanges

Spec == Init /\ [][Next]_vars

-----------------------------------------------------------------------------
(***************************************************************************)
(* Properties.                                                             *)
(***************************************************************************)

\* Every variable stays in its domain.
TypeOK ==
  /\ disk \in [content : OnDisk, version : Nat]
  /\ subscribed \in BOOLEAN
  /\ dirty \subseteq Watcher
  /\ reading \subseteq Watcher
  /\ lastState \in [content : OnDisk \cup {NoValue}, version : Nat]
  /\ events \in Seq(Event)
  /\ stat \in MaybeExists
  /\ cache \in Known
  /\ uncommitted \in Content \cup {NoValue}
  /\ watching \in BOOLEAN
  /\ op \in Op
  /\ query \in Query
  /\ refreshes \in [1..MaxRefreshes -> Refresh]
  /\ removal \in {"idle", "removed", "off", "offDone"}
  /\ informed \in BOOLEAN
  /\ assigned \in Content \cup {NoValue}
  /\ newest \in [stat : Nat, content : Nat]
  /\ races \subseteq Race
  /\ calls \in 0..MaxCalls

\* Nothing is under way: no event, no remote call, no write.
Quiet ==
  /\ dirty = {} /\ reading = {} /\ events = <<>>
  /\ query.pc = "idle"
  /\ \A r \in 1..MaxRefreshes : refreshes[r].pc = "idle"
  /\ op.pc = "none" /\ removal = "idle"

\* When everything has settled, the content that the File object shows is the one on
\* disk, whoever wrote it and in whatever steps, half-written contents included.  The
\* only ways to a content that stays stale: an older answer is applied after a newer
\* one, the content changes and changes back before a watcher looks, or something is
\* cached while the server does not notify the client.
ContentIsFresh ==
  Quiet /\ cache # NoValue /\ races \cap {"overtaken", "masked", "unsubscribed"} = {}
    => cache = disk.content

\* Likewise for the existence of the file.  It may also be removed between the stat and the
\* readFile of an event handler, which then tells the clients that there is a file, keeps
\* that there is none, and drops the next event: this does no harm to the content.
ExistenceIsFresh ==
  Quiet /\ stat # "unknown" /\ races \subseteq {"early"} => (stat = "yes") = (disk.content # Gone)

\* A value that was set without awaiting its commit gets its write operation, whatever
\* becomes of those before it, unless a later value is set.
NoAssignmentLost == op.pc = "none" => assigned = NoValue

\* An uncommitted value, which hides what is on disk from all readers, is that of the
\* last operation in line: it neither outlives its write nor shows an abandoned value.
UncommittedIsWrittenLast ==
  uncommitted # NoValue =>
    /\ op.pc # "none"
    /\ uncommitted = IF op.next = NoValue THEN op.value ELSE op.next

\* Once everything has settled, the listeners have been called for what the cache now
\* holds, though calls are skipped during a write, or the writer has got an error.  Not so
\* when the write is confirmed early, by the same content of an earlier version: it then
\* ends although the listeners were skipped for its own event.
ListenersAreInformed == Quiet /\ races = {} => informed
=============================================================================
