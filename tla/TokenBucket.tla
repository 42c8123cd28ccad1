---------------------------- MODULE TokenBucket ----------------------------
(***************************************************************************)
(* What the rate limiter of the vote endpoint promises: every client has a *)
(* bucket of its own, for ever, that gains a unit of time with each tick   *)
(* and pays Period units for a request; a request is turned away only      *)
(* where the bucket of its client holds less.                              *)
(***************************************************************************)
EXTENDS Naturals

CONSTANTS Clients, Period, Burst

Full == Burst * Period

VARIABLES
    level,      \* per client: what its bucket holds, in units of time
    verdict     \* the client answered last, and how

vars == <<level, verdict>>

Init ==
    /\ level = [c \in Clients |-> Full]
    /\ verdict = <<>>

Tick ==
    /\ level' = [c \in Clients |-> IF level[c] < Full THEN level[c] + 1 ELSE Full]
    /\ UNCHANGED verdict

Pass(c) ==
    /\ level[c] >= Period
    /\ level' = [level EXCEPT ![c] = @ - Period]
    /\ verdict' = <<c, "passed">>

Refuse(c) ==
    /\ level[c] < Period
    /\ verdict' = <<c, "refused">>
    /\ UNCHANGED level

Next == Tick \/ \E c \in Clients : Pass(c) \/ Refuse(c)

Spec == Init /\ [][Next]_vars
=============================================================================
