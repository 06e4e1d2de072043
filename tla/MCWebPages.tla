----------------------------- MODULE MCWebPages -----------------------------
(***************************************************************************)
(* WebPages for TLC.  Pages do not influence each other or the builds: one *)
(* of them has all the races with builds that several have.                *)
(***************************************************************************)
EXTENDS WebPages
=============================================================================
