---------------------------- MODULE MCMergeTurn ----------------------------
(***************************************************************************)
(* TLC instances of MergeTurn.                                             *)
(***************************************************************************)
EXTENDS MergeTurn, TLC

MergeSymmetry == Permutations(Procs) \cup Permutations(Units)
=============================================================================
