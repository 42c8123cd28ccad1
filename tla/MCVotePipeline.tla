--------------------------- MODULE MCVotePipeline ---------------------------
(***************************************************************************)
(* Small instances of VotePipeline for TLC: one poll p1 with the options   *)
(* o1 and o2; oX belongs to no poll, so that a vote for it meets the       *)
(* composite foreign key.                                                  *)
(***************************************************************************)
EXTENDS VotePipeline, TLC

CONSTANTS p1, o1, o2, oX

OneOption  == (p1 :> {o1})
TwoOptions == (p1 :> {o1, o2})

Symmetry == Permutations(Requests) \cup Permutations(Users) \cup Permutations(Workers)
=============================================================================
