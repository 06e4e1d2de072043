--------------------------- MODULE SerialBuilds ---------------------------
(***************************************************************************)
(* What AppServer.buildWeb promises to its callers, without saying how:    *)
(* builds run one at a time and in the order they were requested, a build  *)
(* that a newer request has superseded is never published, and as soon as  *)
(* a new build is requested nothing is published until a build succeeds.   *)
(* WebBuild implements this module.                                        *)
(***************************************************************************)
EXTENDS Naturals

VARIABLES
  requested,  \* the number of builds requested so far: builds are 1..requested
  active,     \* the builds that are running: at most one
  finished,   \* the builds that have ended, well or not
  published   \* the build whose result is served, 0 for the diagnosis page

vars == <<requested, active, finished, published>>

Init ==
  /\ requested = 1
  /\ active = {1}    \* there is nothing to wait for
  /\ finished = {}
  /\ published = 0

\* A new build supersedes every older one: its predecessor is no longer served.
Request ==
  /\ requested' = requested + 1
  /\ published' = 0
  /\ UNCHANGED <<active, finished>>

\* It is the turn of b: nothing runs and every older build has ended.
Turn(b) ==
  /\ active = {}
  /\ b \in (1..requested) \ finished
  /\ 1..(b - 1) \subseteq finished

Begin(b) ==
  /\ Turn(b)
  /\ active' = {b}
  /\ UNCHANGED <<requested, finished, published>>

\* A build that was superseded before its turn never begins.
Skip(b) ==
  /\ Turn(b)
  /\ b < requested
  /\ finished' = finished \cup {b}
  /\ UNCHANGED <<requested, active, published>>

Publish(b) ==
  /\ active = {b}
  /\ b = requested
  /\ active' = {}
  /\ finished' = finished \cup {b}
  /\ published' = b
  /\ UNCHANGED requested

Fail(b) ==
  /\ active = {b}
  /\ active' = {}
  /\ finished' = finished \cup {b}
  /\ UNCHANGED <<requested, published>>

Serve == \E b \in 1..requested : Begin(b) \/ Skip(b) \/ Publish(b) \/ Fail(b)

Next == Request \/ Serve

Spec == Init /\ [][Next]_vars

\* With the builds' own progress: whatever was requested is served in the end.
FairSpec == Spec /\ WF_vars(Serve)
=============================================================================
