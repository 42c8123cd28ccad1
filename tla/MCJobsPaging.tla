---------------------------- MODULE MCJobsPaging ----------------------------
(***************************************************************************)
(* Small instances of JobsPaging for TLC: one sample of each of two        *)
(* companies, inserted by two starts within two seconds.                   *)
(***************************************************************************)
EXTENDS JobsPaging, TLC

CONSTANTS m1, m2

TwoCompanies == <<m1, m2>>

Symmetry == Permutations(Starts)
=============================================================================
