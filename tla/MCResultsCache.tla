--------------------------- MODULE MCResultsCache ---------------------------
(***************************************************************************)
(* Small instances of ResultsCache for TLC.  The entries of two polls do   *)
(* not interact except through the clock, which ages both.                 *)
(***************************************************************************)
EXTENDS ResultsCache, TLC

CONSTANTS p1, p2, b1, b2

OnePoll  == (b1 :> p1 @@ b2 :> p1)
TwoPolls == (b1 :> p1 @@ b2 :> p2)

Symmetry == Permutations(Readers)
=============================================================================
