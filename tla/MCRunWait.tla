----------------------------- MODULE MCRunWait -----------------------------
(***************************************************************************)
(* A small instance of RunWait: two result codes, which the wait treats    *)
(* alike, so that they may be exchanged.                                   *)
(***************************************************************************)
EXTENDS RunWait, TLC

Symmetry == Permutations(Codes)
=============================================================================
