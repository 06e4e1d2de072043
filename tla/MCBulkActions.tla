---------------------------- MODULE MCBulkActions ----------------------------
(***************************************************************************)
(* BulkActions for TLC: every kind of run, on two guests of one order and  *)
(* one of the next.                                                        *)
(***************************************************************************)
EXTENDS BulkActions

Orders == [g \in Guest |-> IF g = 3 THEN 2 ELSE 1]
Kinds == ClusterKind \cup NodeKind
=============================================================================
