----------------------------- MODULE MCFileSync -----------------------------
(***************************************************************************)
(* FileSync for TLC: two contents, which are interchangeable.              *)
(***************************************************************************)
EXTENDS FileSync, TLC

Contents == Permutations(Content)

\* ContentIsFresh, ExistenceIsFresh and ListenersAreInformed promise nothing after certain
\* races, so TLC stops at the first race.  What is said of writes holds after all races, and
\* freshness after some: FileSync_proofs and FileFreshness_proofs show it for all behaviours.
NoRaceYet == races = {}
=============================================================================
