---------------------------- MODULE MCPollAdmin ----------------------------
(***************************************************************************)
(* Small instances of PollAdmin for TLC: one id, that is free at first or  *)
(* has a poll already, and two instants to set its dates to.               *)
(***************************************************************************)
EXTENDS PollAdmin, TLC

\* An offset to either side of UTC.
Zones == {-1, 0, 1}

Symmetry == Permutations(Requests) \cup Permutations(Titles)
=============================================================================
