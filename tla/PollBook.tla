------------------------------ MODULE PollBook ------------------------------
(***************************************************************************)
(* What the endpoints for polls promise to administrators and readers: a   *)
(* request changes one poll in one step, the step in which it is answered, *)
(* and no answer but "error" lies about what it did.  A poll appears whole *)
(* and as a draft, keeps its options, and does not come back once deleted. *)
(***************************************************************************)
EXTENDS Naturals

CONSTANTS Requests, Polls

VARIABLES
    book,       \* the polls
    answer      \* per request: the answer and the poll it is about, if answered

vars == <<book, answer>>

Status    == {"draft", "active", "closed"}
Exists(p) == book[p].status \in Status

Init ==
    /\ \A p \in Polls : book[p].status # "unused" =>
                            book[p].status = "draft" /\ book[p].options >= 2
    /\ answer = [r \in Requests |-> <<>>]

Tell(r, a, p) ==
    /\ answer[r] = <<>>
    /\ answer' = [answer EXCEPT ![r] = <<a, p>>]

\* Whoever changed something may be told that he failed.
Done(r, a, p) == Tell(r, a, p) \/ Tell(r, "error", p)

\* Poll p changes and no other.
Turns(p) == \A q \in Polls \ {p} : book'[q] = book[q]

Publish(r, p) ==
    /\ book[p].status = "unused"
    /\ book'[p].status = "draft" /\ book'[p].options >= 2 /\ Turns(p)
    /\ Done(r, "created", p)

\* Title and dates change, or the status does.
Revise(r, p) ==
    /\ Exists(p) /\ Exists(p)'
    /\ book'[p].options = book[p].options /\ Turns(p)
    /\ \/ book'[p].status = book[p].status
       \/ \E s \in Status : book'[p] = [book[p] EXCEPT !.status = s]
    /\ Done(r, "ok", p)

Remove(r, p) ==
    /\ Exists(p)
    /\ book'[p].status = "deleted" /\ Turns(p)
    /\ Done(r, "ok", p)

\* A reader is told of a poll that is there or was when it asked.
Show(r, p)   == book[p].status # "unused" /\ Tell(r, "got", p) /\ UNCHANGED book
Miss(r, p)   == ~Exists(p) /\ Tell(r, "notFound", p) /\ UNCHANGED book
Refuse(r, p) == (Tell(r, "invalid", p) \/ Tell(r, "error", p)) /\ UNCHANGED book

Next == \E r \in Requests, p \in Polls :
            Publish(r, p) \/ Revise(r, p) \/ Remove(r, p)
                \/ Show(r, p) \/ Miss(r, p) \/ Refuse(r, p)

Spec == Init /\ [][Next]_vars
=============================================================================
