------------------------------- MODULE MCJobs -------------------------------
(***************************************************************************)
(* Jobs for TLC: one job that repeats missed runs and one that does not.   *)
(***************************************************************************)
EXTENDS Jobs
=============================================================================
