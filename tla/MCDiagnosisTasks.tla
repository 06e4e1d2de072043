------------------------- MODULE MCDiagnosisTasks -------------------------
(***************************************************************************)
(* DiagnosisTasks for TLC: one task that only watches and one that also    *)
(* runs in an interval.                                                    *)
(***************************************************************************)
EXTENDS DiagnosisTasks
=============================================================================
