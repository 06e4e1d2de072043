---------------------------- MODULE GuestBatches ----------------------------
(***************************************************************************)
(* What bulk actions on guests promise, without saying how: each of them   *)
(* deals with its guests one start order after the other, with an order    *)
(* only after the tasks of all earlier ones have ended, and at most        *)
(* MaxWorkers of its tasks run at a time.  BulkActions implements this     *)
(* module.                                                                 *)
(***************************************************************************)
EXTENDS Integers, FiniteSets

CONSTANTS Run, Guest, MaxWorkers

VARIABLES
  order,   \* of each run: when it is a guest's turn
  phase    \* "waiting", "active" while its task runs, "over"

vars == <<order, phase>>

Init ==
  /\ order \in [Run -> [Guest -> Int]]
  /\ phase = [r \in Run |-> [g \in Guest |-> "waiting"]]

Active(r) == {g \in Guest : phase[r][g] = "active"}

\* All earlier orders are over, and there is room for another task.
Turn(r, g) ==
  /\ phase[r][g] = "waiting"
  /\ \A h \in Guest : order[r][h] < order[r][g] => phase[r][h] = "over"
  /\ Cardinality(Active(r)) < MaxWorkers

\* A guest needs a task.
Begin(r, g) ==
  /\ Turn(r, g)
  /\ phase' = [phase EXCEPT ![r][g] = "active"]
  /\ UNCHANGED order

\* It needs none, or cannot have one.
Skip(r, g) ==
  /\ Turn(r, g)
  /\ phase' = [phase EXCEPT ![r][g] = "over"]
  /\ UNCHANGED order

End(r, g) ==
  /\ phase[r][g] = "active"
  /\ phase' = [phase EXCEPT ![r][g] = "over"]
  /\ UNCHANGED order

Next == \E r \in Run, g \in Guest : Begin(r, g) \/ Skip(r, g) \/ End(r, g)

Spec == Init /\ [][Next]_vars
=============================================================================
