---------------------------- MODULE MCWebBuild ----------------------------
(***************************************************************************)
(* WebBuild for TLC.  One plugin already distinguishes every pair of       *)
(* contents of electrified.json that the code tells apart.                 *)
(***************************************************************************)
EXTENDS WebBuild
=============================================================================
