----------------------------- MODULE MCRunRecord -----------------------------
(***************************************************************************)
(* TLC instances of RunRecord.                                             *)
(***************************************************************************)
EXTENDS RunRecord, TLC
=============================================================================
