----------------------------- MODULE PollAdmin -----------------------------
(***************************************************************************)
(* The administrator's side of the polls: creating one with its options in *)
(* a transaction, changing its fields, its status, deleting it             *)
(* (http/poll_handler.go, domain/poll/service.go,                          *)
(* repository/postgres/poll_repo.go), and reading it back.  Several        *)
(* administrators work at a time; every statement is a step of its own.    *)
(*                                                                         *)
(* A date of a request is an instant and the offset of its RFC 3339 zone.  *)
(* The columns starts_at and ends_at are TIMESTAMP: what they keep is the  *)
(* reading of the clock in that zone, and the offset is gone.              *)
(***************************************************************************)
EXTENDS Integers, FiniteSets

CONSTANTS
    Requests,       \* the requests of administrators and readers
    Polls,          \* ids; SERIAL gives each of them out once
    Titles,         \* titles that are not empty
    Instants, Offsets,
    OptionCounts,   \* how many options a request to create a poll may list
    NoDate          \* NULL

ASSUME AdminAssumption ==
    /\ Instants \subseteq Int /\ Offsets \subseteq Int /\ OptionCounts \subseteq Nat
    /\ NoDate \notin Int /\ NoDate \notin [at : Int, off : Int]

VARIABLES
    poll,           \* the rows of polls, with the number of their options
    reserved,       \* ids that the sequence has given out
    pc, target, sent,   \* the requests: where they are, their poll and their fields
    found,          \* what the request has read
    inserted,       \* the options its transaction has inserted
    resp,
    \* history
    raced,          \* polls whose dates were last updated on the ground of a
                    \* date that had changed since it was read
    shifted,        \* polls whose dates were last given with an offset to UTC
    cut             \* requests whose rows ended early

history == <<raced, shifted, cut>>
vars == <<poll, reserved, pc, target, sent, found, inserted, resp, history>>

Status  == {"draft", "active", "closed"}
Columns == {"title", "starts", "ends"}
Date    == {NoDate} \cup [at : Instants, off : Offsets]
Stamp   == {NoDate} \cup Int
Field   == [title |-> Titles, starts |-> Date, ends |-> Date]

Row    == [status : Status, title : Titles, starts : Stamp, ends : Stamp, options : Nat]
Absent == {[status |-> "unused"], [status |-> "deleted"]}
Exists(p) == poll[p].status \in Status

\* What the driver writes to a TIMESTAMP column, and what comes back from one:
\* an instant in UTC that reads like the clock did in the zone of the request.
Wall(d)    == IF d = NoDate THEN NoDate ELSE d.at + d.off
Instant(d) == IF d = NoDate THEN NoDate ELSE d.at

EndsBeforeStart(starts, ends) == starts # NoDate /\ ends # NoDate /\ ends < starts

Column(c, d) == IF c = "title" THEN d ELSE Wall(d)

\* The dates of the polls that are there at first.
Stamps == {NoDate} \cup Instants

Init ==
    /\ poll \in [Polls -> {[status |-> "unused"]} \cup
                   {row \in [status : {"draft"}, title : Titles, starts : Stamps,
                            ends : Stamps, options : {2}] :
                       ~EndsBeforeStart(row.starts, row.ends)}]
    /\ reserved = {p \in Polls : Exists(p)}
    /\ pc = [r \in Requests |-> "idle"]
    /\ target \in [Requests -> Polls]
    /\ sent = [r \in Requests |-> <<>>]
    /\ found = [r \in Requests |-> <<>>]
    /\ inserted = [r \in Requests |-> 0]
    /\ resp = [r \in Requests |-> "none"]
    /\ raced = {} /\ shifted = {} /\ cut = {}
-----------------------------------------------------------------------------
\* A request keeps its fields until it is answered.
Goto(r, l, in) ==
    /\ pc' = [pc EXCEPT ![r] = l]
    /\ sent' = [sent EXCEPT ![r] = in]
    /\ UNCHANGED resp

Answer(r, a) ==
    /\ pc' = [pc EXCEPT ![r] = "done"]
    /\ sent' = [sent EXCEPT ![r] = <<>>]
    /\ resp' = [resp EXCEPT ![r] = a]

\* A statement, or the transaction around it, fails: nothing of it stays.
StatementFails(r) ==
    /\ pc[r] \in {"insert", "options", "commit", "check", "write", "get", "rows"}
    /\ Answer(r, "error")
    /\ UNCHANGED <<poll, reserved, target, found, inserted, history>>

(* POST /polls                                                             *)

\* The handler's checks: a title, two options, dates in order as instants.
Create(r, title, starts, ends, n) ==
    /\ pc[r] = "idle"
    /\ IF n < 2 \/ EndsBeforeStart(Instant(starts), Instant(ends))
         THEN Answer(r, "invalid")
         ELSE Goto(r, "insert", [title |-> title, starts |-> starts, ends |-> ends,
                                 options |-> n])
    /\ UNCHANGED <<poll, reserved, target, found, inserted, history>>

\* Mutant: the row is written outside of the transaction.
InsertPollAtOnce(r, p) ==
    /\ pc[r] = "insert" /\ p \notin reserved
    /\ reserved' = reserved \cup {p}
    /\ target' = [target EXCEPT ![r] = p]
    /\ poll' = [poll EXCEPT ![p] = [status |-> "draft", title |-> sent[r].title,
                  starts |-> Wall(sent[r].starts), ends |-> Wall(sent[r].ends),
                  options |-> 0]]
    /\ Goto(r, "options", sent[r])
    /\ UNCHANGED <<found, inserted, history>>

\* Mutant: an id that is computed from the table and not taken from a sequence.
InsertPollUnreserved(r, p) ==
    /\ pc[r] = "insert" /\ p \notin reserved
    /\ target' = [target EXCEPT ![r] = p]
    /\ Goto(r, "options", sent[r])
    /\ UNCHANGED <<poll, reserved, found, inserted, history>>

\* BEGIN, INSERT INTO polls ... RETURNING id: nobody else sees the row yet.
InsertPoll(r, p) ==
    /\ pc[r] = "insert" /\ p \notin reserved
    /\ reserved' = reserved \cup {p}
    /\ target' = [target EXCEPT ![r] = p]
    /\ Goto(r, "options", sent[r])
    /\ UNCHANGED <<poll, found, inserted, history>>

InsertOption(r) ==
    /\ pc[r] = "options"
    /\ inserted' = [inserted EXCEPT ![r] = @ + 1]
    /\ Goto(r, IF inserted[r] + 1 < sent[r].options THEN "options" ELSE "commit", sent[r])
    /\ UNCHANGED <<poll, reserved, target, found, history>>

Dates == {"starts", "ends"}

\* A request that gives a date to its poll with an offset to UTC; one that gives
\* none leaves what was noted of the last that did.
Shift(r) ==
    shifted' = IF DOMAIN sent[r] \cap Dates = {} THEN shifted
               ELSE IF \E c \in DOMAIN sent[r] \cap Dates :
                          sent[r][c] # NoDate /\ sent[r][c].off # 0
               THEN shifted \cup {target[r]} ELSE shifted \ {target[r]}

\* Every new poll is a draft.  The reply to COMMIT may be lost.
CommitPoll(r) ==
    /\ pc[r] = "commit"
    /\ poll' = [poll EXCEPT ![target[r]] =
                  [status |-> "draft", title |-> sent[r].title,
                   starts |-> Wall(sent[r].starts), ends |-> Wall(sent[r].ends),
                   options |-> inserted[r]]]
    /\ Shift(r)
    /\ Answer(r, "created") \/ Answer(r, "error")
    /\ UNCHANGED <<reserved, target, found, inserted, raced, cut>>

(* PATCH /polls/{id}, PATCH /polls/{id}/status, DELETE /polls/{id}         *)

\* in gives a value to each column that the body sets; a body that sets none
\* and a title that is empty are refused before the service is called.
Update(r, p, in) ==
    /\ pc[r] = "idle"
    /\ target' = [target EXCEPT ![r] = p]
    /\ IF DOMAIN in = {} THEN Answer(r, "invalid")
       ELSE Goto(r, IF DOMAIN in \subseteq {"title"} THEN "write" ELSE "check", in)
    /\ UNCHANGED <<poll, reserved, found, inserted, history>>

\* Mutant: a date that is not sent is taken to be NULL.
MergedIgnoringRow(r, row, c) == IF c \in DOMAIN sent[r] THEN Instant(sent[r][c]) ELSE NoDate

\* The dates that would result: what was sent, else what was read.
Merged(r, row, c) == IF c \in DOMAIN sent[r] THEN Instant(sent[r][c]) ELSE row[c]

CheckDates(r) ==
    /\ pc[r] = "check"
    /\ LET row == poll[target[r]] IN
       IF ~Exists(target[r]) THEN Answer(r, "notFound") /\ UNCHANGED found
       ELSE /\ found' = [found EXCEPT ![r] = row]
            /\ IF EndsBeforeStart(Merged(r, row, "starts"), Merged(r, row, "ends"))
                 THEN Answer(r, "invalid") ELSE Goto(r, "write", sent[r])
    /\ UNCHANGED <<poll, reserved, target, inserted, history>>

\* A request that moves one date while the other is no longer what it read.
Stale(r) ==
    LET row == poll[target[r]] IN
    \E c \in Dates \ DOMAIN sent[r] : found[r][c] # row[c]

\* A request that changes the dates of its poll, whether Stale or not.
Race(r) ==
    raced' = IF DOMAIN sent[r] \cap Dates = {} THEN raced
             ELSE IF Stale(r) THEN raced \cup {target[r]} ELSE raced \ {target[r]}

\* Mutant: the row that was read is written back whole.
WriteUpdateWholeRow(r) ==
    /\ pc[r] = "write" /\ Exists(target[r])
    /\ LET old == IF found[r] = <<>> THEN poll[target[r]] ELSE found[r]
           new == [c \in Columns |-> IF c \in DOMAIN sent[r] THEN Column(c, sent[r][c])
                                     ELSE old[c]]
       IN poll' = [poll EXCEPT ![target[r]].title = new["title"],
                               ![target[r]].starts = new["starts"],
                               ![target[r]].ends = new["ends"]]
    /\ Race(r) /\ Shift(r)
    /\ Answer(r, "ok")
    /\ UNCHANGED <<reserved, target, found, inserted, cut>>

\* UPDATE polls SET, of the columns that were sent and no others.
WriteUpdate(r) ==
    /\ pc[r] = "write"
    /\ LET p == target[r] IN
       IF ~Exists(p) THEN Answer(r, "notFound") /\ UNCHANGED <<poll, raced, shifted>>
       ELSE /\ poll' = [poll EXCEPT ![p] =
                          [c \in DOMAIN poll[p] |->
                             IF c \in DOMAIN sent[r] THEN Column(c, sent[r][c])
                                                     ELSE poll[p][c]]]
            /\ Race(r) /\ Shift(r)
            /\ Answer(r, "ok") \/ Answer(r, "error")
    /\ UNCHANGED <<reserved, target, found, inserted, cut>>

\* Mutant: an UPDATE that found no row is taken for done.
UpdateStatusUnasked(r, p, s) ==
    /\ pc[r] = "idle"
    /\ target' = [target EXCEPT ![r] = p]
    /\ \/ s \notin Status /\ Answer(r, "invalid") /\ UNCHANGED poll
       \/ s \in Status /\ Answer(r, "ok")
            /\ poll' = IF Exists(p) THEN [poll EXCEPT ![p].status = s] ELSE poll
    /\ UNCHANGED <<reserved, found, inserted, history>>

\* One statement; any status may follow any other.
UpdateStatus(r, p, s) ==
    /\ pc[r] = "idle"
    /\ target' = [target EXCEPT ![r] = p]
    /\ \/ s \notin Status /\ Answer(r, "invalid") /\ UNCHANGED poll
       \/ s \in Status /\ ~Exists(p) /\ Answer(r, "notFound") /\ UNCHANGED poll
       \/ s \in Status /\ Answer(r, "error") /\ UNCHANGED poll
       \/ s \in Status /\ Exists(p) /\ (Answer(r, "ok") \/ Answer(r, "error"))
            /\ poll' = [poll EXCEPT ![p].status = s]
    /\ UNCHANGED <<reserved, found, inserted, history>>

\* ON DELETE CASCADE takes the options along.
Delete(r, p) ==
    /\ pc[r] = "idle"
    /\ target' = [target EXCEPT ![r] = p]
    /\ \/ ~Exists(p) /\ Answer(r, "notFound") /\ UNCHANGED poll
       \/ Answer(r, "error") /\ UNCHANGED poll
       \/ Exists(p) /\ (Answer(r, "ok") \/ Answer(r, "error"))
            /\ poll' = [poll EXCEPT ![p] = [status |-> "deleted"]]
    /\ UNCHANGED <<reserved, found, inserted, history>>

(* GET /polls/{id}                                                         *)

Get(r, p) ==
    /\ pc[r] = "idle"
    /\ target' = [target EXCEPT ![r] = p]
    /\ Goto(r, "get", <<>>)
    /\ UNCHANGED <<poll, reserved, found, inserted, history>>

SelectPoll(r) ==
    /\ pc[r] = "get"
    /\ IF Exists(target[r])
         THEN found' = [found EXCEPT ![r] = poll[target[r]]] /\ Goto(r, "rows", <<>>)
         ELSE Answer(r, "notFound") /\ UNCHANGED found
    /\ UNCHANGED <<poll, reserved, target, inserted, history>>

\* The options are a second statement, and GetByID does not ask rows.Err: rows
\* that end because the connection broke look like all there are.
SelectOptions(r) ==
    /\ pc[r] = "rows"
    /\ LET all == IF Exists(target[r]) THEN poll[target[r]].options ELSE 0 IN
       \E n \in 0..all :
          /\ found' = [found EXCEPT ![r].options = n]
          /\ cut' = IF n < all THEN cut \cup {r} ELSE cut
    /\ Answer(r, "got")
    /\ UNCHANGED <<poll, reserved, target, inserted, raced, shifted>>
-----------------------------------------------------------------------------
Inputs == UNION {{f \in [D -> UNION {Field[c] : c \in D}] : \A c \in D : f[c] \in Field[c]} :
                   D \in SUBSET Columns}

Next ==
    \E r \in Requests :
        \/ \E t \in Titles, s, e \in Date, n \in OptionCounts : Create(r, t, s, e, n)
        \/ \E p \in Polls : \/ InsertPoll(r, p) \/ Delete(r, p) \/ Get(r, p)
                            \/ \E in \in Inputs : Update(r, p, in)
                            \/ \E s \in Status \cup {"other"} : UpdateStatus(r, p, s)
        \/ InsertOption(r) \/ CommitPoll(r) \/ CheckDates(r) \/ WriteUpdate(r)
        \/ SelectPoll(r) \/ SelectOptions(r) \/ StatementFails(r)

Spec == Init /\ [][Next]_vars
-----------------------------------------------------------------------------
(* Properties.                                                             *)

TypeOK ==
    /\ poll \in [Polls -> Row \cup Absent] /\ reserved \subseteq Polls
    /\ \A p \in Polls : poll[p].status # "unused" => p \in reserved
    /\ pc \in [Requests -> {"idle", "insert", "options", "commit", "check", "write",
                            "get", "rows", "done"}]
    /\ target \in [Requests -> Polls]
    /\ inserted \in [Requests -> Nat]
    /\ resp \in [Requests -> {"none", "invalid", "notFound", "error", "created", "ok",
                              "got"}]
    /\ raced \subseteq Polls /\ shifted \subseteq Polls /\ cut \subseteq Requests

\* A poll that is read has all its options: it was created whole, and only a
\* deletion between the two statements, or rows that ended early, leave a
\* reader with fewer than the two options every poll has.
ReadIsWhole ==
    \A r \in Requests :
        resp[r] = "got" => found[r].options >= 2 \/ r \in cut \/ ~Exists(target[r])

\* However the statements of several requests interleave and fail: each request
\* changes one poll in one step, the one that answers it, and an answer other
\* than "error" is true of that step; a poll appears whole, as a draft, keeps
\* its options and does not come back.
Book == INSTANCE PollBook WITH
            book <- poll,
            answer <- [r \in Requests |-> IF resp[r] = "none" THEN <<>>
                                          ELSE <<resp[r], target[r]>>]
ImplementsBook == Book!Spec

\* Whatever administrators do at the same time, a request changes no column
\* that it did not send: none takes back what another has just changed.
OnlySentColumnsChange ==
    [][\A p \in Polls, c \in Columns :
         Exists(p) /\ Exists(p)' /\ poll'[p][c] # poll[p][c] =>
            \E r \in Requests : /\ pc[r] = "write" /\ pc'[r] = "done"
                                /\ target[r] = p /\ c \in DOMAIN sent[r]]_vars

\* Dates that only the zones they were given in put out of order.
WithinOffsets(starts, ends) == \E o, q \in Offsets \cup {0} : starts - o <= ends - q

\* A poll ends before it starts only while the last change of its dates is one
\* that raced with another, or one that came with an offset to UTC and then by
\* no more than the offsets of its two dates differ: the next change that no
\* other interferes with, in UTC, puts the dates in order.
DatesOrderedUnlessRaced ==
    \A p \in Polls : Exists(p) /\ EndsBeforeStart(poll[p].starts, poll[p].ends) =>
        p \in raced \/ (p \in shifted /\ WithinOffsets(poll[p].starts, poll[p].ends))

\* domain/poll/service.go: "ends_at must be after starts_at".
DatesOrdered ==
    \A p \in Polls : Exists(p) => ~EndsBeforeStart(poll[p].starts, poll[p].ends)
=============================================================================
