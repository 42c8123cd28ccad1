----------------------------- MODULE MCTransfer -----------------------------
(***************************************************************************)
(* Small instances of Transfer for TLC.  Two calls over two accounts meet  *)
(* in every way; the third account is for transfers that share one row.    *)
(***************************************************************************)
EXTENDS Transfer, TLC

Symmetry == Permutations(Calls)
=============================================================================
