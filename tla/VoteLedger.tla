----------------------------- MODULE VoteLedger -----------------------------
(***************************************************************************)
(* What the voting side of the polling system promises, without handlers,  *)
(* queue, workers or process: a user votes at most once in a poll that     *)
(* exists, every vote is counted at most once, one at a time, and deleting *)
(* a poll takes its votes and its tallies along.  VotePipeline implements  *)
(* it as long as no increment is applied whose reply is then lost.         *)
(***************************************************************************)
EXTENDS Naturals

CONSTANTS Users, Polls, Options

Vote == [poll : Polls, option : Options, user : Users]

VARIABLES
    live,       \* the polls that exist
    votes,      \* the votes that are stored
    counted,    \* those of them that the results show
    tally       \* what the results say for each option of each poll

vars == <<live, votes, counted, tally>>

Init ==
    /\ live = Polls
    /\ votes = {} /\ counted = {}
    /\ tally = [x \in Polls \X Options |-> 0]

Cast(v) ==
    /\ v.poll \in live
    /\ \A x \in votes : ~(x.poll = v.poll /\ x.user = v.user)
    /\ votes' = votes \cup {v}
    /\ UNCHANGED <<live, counted, tally>>

Count(v) ==
    /\ v \in votes \ counted
    /\ counted' = counted \cup {v}
    /\ tally' = [tally EXCEPT ![<<v.poll, v.option>>] = @ + 1]
    /\ UNCHANGED <<live, votes>>

Remove(p) ==
    /\ p \in live
    /\ live' = live \ {p}
    /\ votes' = {v \in votes : v.poll # p}
    /\ counted' = {v \in counted : v.poll # p}
    /\ tally' = [x \in Polls \X Options |-> IF x[1] = p THEN 0 ELSE tally[x]]

Next ==
    \/ \E v \in Vote : Cast(v) \/ Count(v)
    \/ \E p \in Polls : Remove(p)

Spec == Init /\ [][Next]_vars
=============================================================================
