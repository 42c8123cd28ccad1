-------------------------- MODULE PollAdminProofs --------------------------
(***************************************************************************)
(* Theorems about PollAdmin, for every number of requests, polls, titles,  *)
(* instants and offsets.                                                   *)
(***************************************************************************)
EXTENDS PollAdmin, TLAPS

\* The body of a request that creates a poll, past the checks of its handler.
Body == [title : Titles, starts : Date, ends : Date, options : OptionCounts]

Creating(r) == pc[r] \in {"options", "commit"}

\* What the variables that TypeOK leaves out hold.
FieldsInv ==
    /\ sent = [r \in Requests |-> sent[r]]
    /\ found \in [Requests -> Row \cup {<<>>}]
    /\ \A r \in Requests :
          /\ pc[r] \in {"insert", "options", "commit"} =>
                /\ sent[r] \in Body /\ sent[r].options >= 2
                /\ ~EndsBeforeStart(Instant(sent[r].starts), Instant(sent[r].ends))
          /\ pc[r] \in {"check", "write"} => sent[r] \in Inputs
          /\ pc[r] = "rows" => found[r] \in Row

\* A poll appears once, from the transaction that alone has its id, when all its
\* options are inserted.
BirthInv ==
    /\ \A p \in Polls : Exists(p) => poll[p].options >= 2
    /\ \A r \in Requests :
          /\ pc[r] \in {"idle", "insert"} => inserted[r] = 0
          /\ pc[r] = "options" => inserted[r] < sent[r].options
          /\ pc[r] = "commit" => inserted[r] = sent[r].options
          /\ Creating(r) => target[r] \in reserved /\ poll[target[r]].status = "unused"
    /\ \A r, s \in Requests : r # s /\ Creating(r) /\ Creating(s) => target[r] # target[s]

\* A poll that a reader has found is there or was deleted: it does not come back.
ReaderInv ==
    \A r \in Requests :
        /\ resp[r] # "none" => pc[r] = "done"
        /\ pc[r] = "rows" \/ resp[r] = "got" => poll[target[r]].status # "unused"

\* A request that is about to write dates has seen that they are in order.
CheckedInv ==
    \A r \in Requests : pc[r] = "write" =>
        \/ DOMAIN sent[r] \subseteq {"title"}
        \/ /\ found[r] \in Row
           /\ ~EndsBeforeStart(Merged(r, found[r], "starts"), Merged(r, found[r], "ends"))

IInv == TypeOK /\ FieldsInv /\ BirthInv /\ ReaderInv /\ ReadIsWhole
          /\ CheckedInv /\ DatesOrderedUnlessRaced
-----------------------------------------------------------------------------
(* Rows and requests.                                                      *)

\* The rows of Init are rows, and a row is neither of the marks of an id
\* without one, nor the answer of nothing.
LEMMA RowNotEmpty == ASSUME NEW row \in Row PROVE row # <<>>
  <1>1. "status" \in DOMAIN row
    BY DEF Row
  <1>2. "status" \notin DOMAIN <<>>
    OBVIOUS
  <1> QED BY <1>1, <1>2

LEMMA ExistingRow ==
    ASSUME TypeOK, NEW p \in Polls
    PROVE  /\ Exists(p) => poll[p] \in Row
           /\ poll[p] \in Row => Exists(p)
           /\ ~Exists(p) => poll[p].status \in {"unused", "deleted"}
  BY DEF TypeOK, Exists, Row, Absent, Status

\* What the body of an update gives to each of its columns.
LEMMA InputType ==
    ASSUME NEW in \in Inputs
    PROVE  /\ DOMAIN in \subseteq Columns
           /\ \A c \in DOMAIN in : in[c] \in Field[c]
  BY DEF Inputs

LEMMA WallType ==
    ASSUME NEW d \in Date
    PROVE  Wall(d) \in Stamp /\ Instant(d) \in Stamp
  BY AdminAssumption DEF Wall, Instant, Date, Stamp

\* a is what a column shows of the instant s when it was given at the offset o.
Reads(a, s, o) == IF s = NoDate THEN a = NoDate ELSE s \in Int /\ a = s + o

\* A date is off by the offset of its zone, and by nothing in UTC.
OffsetOf(d) == IF d = NoDate THEN 0 ELSE d.off

LEMMA DateReads ==
    ASSUME NEW d \in Date
    PROVE  OffsetOf(d) \in Offsets \cup {0} /\ Reads(Wall(d), Instant(d), OffsetOf(d))
  <1>1. CASE d = NoDate
    BY <1>1 DEF Reads, Wall, Instant, OffsetOf
  <1>2. CASE d # NoDate
    <2>1. d.at \in Int /\ d.off \in Offsets /\ d.at # NoDate
      BY <1>2, AdminAssumption DEF Date
    <2> QED BY <1>2, <2>1 DEF Reads, Wall, Instant, OffsetOf
  <1> QED BY <1>1, <1>2

LEMMA StampReads == ASSUME NEW s \in Stamp PROVE Reads(s, s, 0)
  BY AdminAssumption DEF Reads, Stamp

\* Dates in order are put out of it by their offsets only, and by no more.
LEMMA ReadsOrder ==
    ASSUME NEW a, NEW b, NEW s, NEW e, NEW o \in Offsets \cup {0}, NEW q \in Offsets \cup {0},
           Reads(a, s, o), Reads(b, e, q), ~EndsBeforeStart(s, e), EndsBeforeStart(a, b)
    PROVE  WithinOffsets(a, b) /\ (o # 0 \/ q # 0)
  <1>1. /\ o \in Int /\ q \in Int /\ s \in Int /\ e \in Int
        /\ a = s + o /\ b = e + q /\ s <= e /\ b < a
    BY AdminAssumption DEF Reads, EndsBeforeStart
  <1> QED BY <1>1 DEF WithinOffsets

\* The row that WriteUpdate writes.
Written(row, in) ==
    [c \in DOMAIN row |-> IF c \in DOMAIN in THEN Column(c, in[c]) ELSE row[c]]

LEMMA WrittenRow ==
    ASSUME NEW row \in Row, NEW in \in Inputs
    PROVE  /\ Written(row, in) \in Row
           /\ Written(row, in).status = row.status
           /\ Written(row, in).options = row.options
           /\ \A c \in Columns : Written(row, in)[c] =
                IF c \in DOMAIN in THEN Column(c, in[c]) ELSE row[c]
  <1> DEFINE new == Written(row, in)
  <1>1. DOMAIN row = {"status", "title", "starts", "ends", "options"}
    BY DEF Row
  <1>2. DOMAIN in \subseteq Columns
    BY InputType
  <1>3. new.status = row.status /\ new.options = row.options
    BY <1>1, <1>2 DEF Written, Columns
  <1>4. \A c \in Columns : new[c] = IF c \in DOMAIN in THEN Column(c, in[c]) ELSE row[c]
    BY <1>1 DEF Written, Columns
  <1>5. new.title \in Titles
    BY <1>4, InputType DEF Columns, Column, Field, Row
  <1>6. new.starts \in Stamp
    <2>1. "starts" \in DOMAIN in => in["starts"] \in Date
      BY InputType DEF Field
    <2> QED BY <1>4, <2>1, WallType DEF Columns, Column, Row
  <1>7. new.ends \in Stamp
    <2>1. "ends" \in DOMAIN in => in["ends"] \in Date
      BY InputType DEF Field
    <2> QED BY <1>4, <2>1, WallType DEF Columns, Column, Row
  <1>8. new = [status |-> new.status, title |-> new.title, starts |-> new.starts,
               ends |-> new.ends, options |-> new.options]
    BY <1>1 DEF Written
  <1>9. new \in Row
    BY <1>3, <1>5, <1>6, <1>7, <1>8 DEF Row
  <1> QED BY <1>3, <1>4, <1>9
-----------------------------------------------------------------------------
(* What a step of a request leaves alone, and what it makes of the rows.   *)

Step(r) ==
    \/ \E t \in Titles, s, e \in Date, n \in OptionCounts : Create(r, t, s, e, n)
    \/ \E p \in Polls : \/ InsertPoll(r, p) \/ Delete(r, p) \/ Get(r, p)
                        \/ \E in \in Inputs : Update(r, p, in)
                        \/ \E s \in Status \cup {"other"} : UpdateStatus(r, p, s)
    \/ InsertOption(r) \/ CommitPoll(r) \/ CheckDates(r) \/ WriteUpdate(r)
    \/ SelectPoll(r) \/ SelectOptions(r) \/ StatementFails(r)

\* What Goto and Answer do to the request and to no other.
LEMMA GotoEffect ==
    ASSUME TypeOK, FieldsInv, NEW r \in Requests, NEW l, NEW in, Goto(r, l, in)
    PROVE  /\ pc'[r] = l /\ sent'[r] = in /\ UNCHANGED resp
           /\ \A s \in Requests \ {r} : pc'[s] = pc[s] /\ sent'[s] = sent[s]
           /\ pc' = [s \in Requests |-> pc'[s]] /\ sent' = [s \in Requests |-> sent'[s]]
  BY DEF Goto, TypeOK, FieldsInv

LEMMA AnswerEffect ==
    ASSUME TypeOK, FieldsInv, NEW r \in Requests, NEW a, Answer(r, a)
    PROVE  /\ pc'[r] = "done" /\ resp'[r] = a
           /\ \A s \in Requests \ {r} : /\ pc'[s] = pc[s] /\ sent'[s] = sent[s]
                                        /\ resp'[s] = resp[s]
           /\ pc' = [s \in Requests |-> pc'[s]] /\ sent' = [s \in Requests |-> sent'[s]]
           /\ resp' = [s \in Requests |-> resp'[s]]
  BY DEF Answer, TypeOK, FieldsInv

LEMMA OthersStay ==
    ASSUME TypeOK, FieldsInv, NEW r \in Requests, Step(r)
    PROVE  /\ sent' = [s \in Requests |-> sent'[s]]
           /\ \A s \in Requests \ {r} : /\ pc'[s] = pc[s] /\ sent'[s] = sent[s]
                                        /\ resp'[s] = resp[s] /\ target'[s] = target[s]
                                        /\ found'[s] = found[s] /\ inserted'[s] = inserted[s]
  <1>1. \/ \E l, in : Goto(r, l, in)
        \/ \E a : Answer(r, a)
    BY DEF Step, Create, InsertPoll, Delete, Get, Update, UpdateStatus, InsertOption,
           CommitPoll, CheckDates, WriteUpdate, SelectPoll, SelectOptions, StatementFails
  <1>2. /\ sent' = [s \in Requests |-> sent'[s]]
        /\ \A s \in Requests \ {r} : /\ pc'[s] = pc[s] /\ sent'[s] = sent[s]
                                     /\ resp'[s] = resp[s]
    <2>1. ASSUME NEW l, NEW in, Goto(r, l, in) PROVE <1>2!1 /\ <1>2!2
      BY <2>1, GotoEffect
    <2>2. ASSUME NEW a, Answer(r, a) PROVE <1>2!1 /\ <1>2!2
      BY <2>2, AnswerEffect
    <2> QED BY <1>1, <2>1, <2>2
  <1>3. \A s \in Requests \ {r} : /\ target'[s] = target[s]
                                  /\ inserted'[s] = inserted[s]
    BY DEF Step, Create, InsertPoll, Delete, Get, Update, UpdateStatus, InsertOption,
           CommitPoll, CheckDates, WriteUpdate, SelectPoll, SelectOptions, StatementFails,
           TypeOK
  <1>4. \A s \in Requests \ {r} : found'[s] = found[s]
    BY DEF Step, Create, InsertPoll, Delete, Get, Update, UpdateStatus, InsertOption,
           CommitPoll, CheckDates, WriteUpdate, SelectPoll, SelectOptions, StatementFails,
           FieldsInv
  <1> QED BY <1>2, <1>3, <1>4

\* A row comes from a commit, keeps its options, and goes by a deletion.
RowMoves(r, p) ==
    \/ poll'[p] = poll[p]
    \/ /\ pc[r] = "commit" /\ p = target[r] /\ poll'[p] \in Row
       /\ poll'[p].options = inserted[r] /\ poll'[p].status = "draft"
    \/ Exists(p) /\ poll'[p] = [status |-> "deleted"]
    \/ Exists(p) /\ poll'[p] \in Row /\ poll'[p].options = poll[p].options

LEMMA RowsMove ==
    ASSUME TypeOK, FieldsInv, NEW r \in Requests, Step(r)
    PROVE  /\ poll' = [p \in Polls |-> poll'[p]]
           /\ \A p \in Polls : RowMoves(r, p)
  <1>1. CASE UNCHANGED poll
    BY <1>1 DEF RowMoves, TypeOK
  <1>2. CASE CommitPoll(r)
    <2>1. sent[r] \in Body /\ target[r] \in Polls /\ inserted[r] \in Nat
      BY <1>2 DEF CommitPoll, FieldsInv, TypeOK
    <2>2. Wall(sent[r].starts) \in Stamp /\ Wall(sent[r].ends) \in Stamp
      BY <2>1, WallType DEF Body
    <2> DEFINE row == [status |-> "draft", title |-> sent[r].title,
                       starts |-> Wall(sent[r].starts), ends |-> Wall(sent[r].ends),
                       options |-> inserted[r]]
    <2>3. row \in Row /\ row.options = inserted[r] /\ row.status = "draft"
      BY <2>1, <2>2 DEF Body, Row, Status
    <2>4. poll' = [poll EXCEPT ![target[r]] = row] /\ pc[r] = "commit"
      BY <1>2 DEF CommitPoll
    <2> HIDE DEF row
    <2> QED BY <2>1, <2>3, <2>4 DEF RowMoves, TypeOK
  <1>3. CASE WriteUpdate(r) /\ Exists(target[r])
    <2>1. target[r] \in Polls /\ poll[target[r]] \in Row /\ sent[r] \in Inputs
      BY <1>3, ExistingRow DEF WriteUpdate, FieldsInv, TypeOK
    <2>2. poll' = [poll EXCEPT ![target[r]] = Written(poll[target[r]], sent[r])]
      BY <1>3 DEF WriteUpdate, Written
    <2>3. /\ Written(poll[target[r]], sent[r]) \in Row
          /\ Written(poll[target[r]], sent[r]).options = poll[target[r]].options
      BY <2>1, WrittenRow
    <2>4. PICK row \in Row : /\ poll' = [poll EXCEPT ![target[r]] = row]
                             /\ row.options = poll[target[r]].options
      BY <2>2, <2>3
    <2> QED BY <1>3, <2>1, <2>4 DEF RowMoves, TypeOK
  <1>4. ASSUME NEW p \in Polls, NEW s \in Status, Exists(p),
               poll' = [poll EXCEPT ![p].status = s]
        PROVE  /\ poll' = [q \in Polls |-> poll'[q]]
               /\ \A q \in Polls : RowMoves(r, q)
    <2>1. poll[p] \in Row
      BY <1>4, ExistingRow
    <2>2. poll' = [poll EXCEPT ![p] = [poll[p] EXCEPT !.status = s]]
      BY <1>4
    <2>3. /\ [poll[p] EXCEPT !.status = s] \in Row
          /\ [poll[p] EXCEPT !.status = s].options = poll[p].options
      BY <2>1 DEF Row
    <2> QED BY <1>4, <2>2, <2>3 DEF RowMoves, TypeOK
  <1>5. ASSUME NEW p \in Polls, Exists(p), poll' = [poll EXCEPT ![p] = [status |-> "deleted"]]
        PROVE  /\ poll' = [q \in Polls |-> poll'[q]]
               /\ \A q \in Polls : RowMoves(r, q)
    BY <1>5 DEF RowMoves, TypeOK
  <1> QED
    BY <1>1, <1>2, <1>3, <1>4, <1>5 DEF Step, Create, InsertPoll, Delete, Get, Update,
       UpdateStatus, InsertOption, CheckDates, WriteUpdate, SelectPoll, SelectOptions,
       StatementFails
-----------------------------------------------------------------------------
(* The invariants, one at a time.                                          *)

LEMMA TypeStep ==
    ASSUME IInv, NEW r \in Requests, Step(r)
    PROVE  TypeOK'
  <1> USE DEF IInv
  <1>1. poll' \in [Polls -> Row \cup Absent]
    <2>1. ASSUME NEW p \in Polls PROVE poll'[p] \in Row \cup Absent
      BY RowsMove DEF RowMoves, TypeOK, Absent
    <2> QED BY <2>1, RowsMove
  <1>2. /\ reserved' \subseteq Polls /\ reserved \subseteq reserved'
        /\ raced' \subseteq Polls /\ shifted' \subseteq Polls /\ cut' \subseteq Requests
    <2>1. CASE /\ UNCHANGED history
               /\ \/ UNCHANGED reserved
                  \/ \E p \in Polls : reserved' = reserved \cup {p}
      BY <2>1 DEF history, TypeOK
    <2>2. CASE CommitPoll(r) \/ WriteUpdate(r) \/ SelectOptions(r)
      <3>1. target[r] \in Polls /\ UNCHANGED reserved
        BY <2>2 DEF CommitPoll, WriteUpdate, SelectOptions, TypeOK
      <3>2. raced' \in {raced, raced \cup {target[r]}, raced \ {target[r]}}
        BY <2>2 DEF CommitPoll, WriteUpdate, SelectOptions, Race
      <3>3. shifted' \in {shifted, shifted \cup {target[r]}, shifted \ {target[r]}}
        BY <2>2 DEF CommitPoll, WriteUpdate, SelectOptions, Shift
      <3>4. cut' \in {cut, cut \cup {r}}
        BY <2>2 DEF CommitPoll, WriteUpdate, SelectOptions
      <3> QED BY <3>1, <3>2, <3>3, <3>4 DEF TypeOK
    <2> QED
      BY <2>1, <2>2 DEF Step, Create, InsertPoll, Delete, Get, Update, UpdateStatus,
         InsertOption, CheckDates, SelectPoll, StatementFails
  <1>3. \A p \in Polls : poll'[p].status # "unused" => p \in reserved'
    <2> SUFFICES ASSUME NEW p \in Polls, poll'[p].status # "unused" PROVE p \in reserved
      BY <1>2
    <2>1. pc[r] = "commit" => target[r] \in reserved
      BY DEF BirthInv, Creating
    <2> QED BY <2>1, RowsMove DEF RowMoves, TypeOK, Exists, Status
  <1>4. /\ pc' \in [Requests -> {"idle", "insert", "options", "commit", "check", "write",
                                 "get", "rows", "done"}]
        /\ resp' \in [Requests -> {"none", "invalid", "notFound", "error", "created",
                                   "ok", "got"}]
    BY DEF Step, Create, InsertPoll, Delete, Get, Update, UpdateStatus, InsertOption,
           CommitPoll, CheckDates, WriteUpdate, SelectPoll, SelectOptions, StatementFails,
           Goto, Answer, TypeOK
  <1>5. target' \in [Requests -> Polls] /\ inserted' \in [Requests -> Nat]
    <2>1. /\ target' = target \/ \E p \in Polls : target' = [target EXCEPT ![r] = p]
          /\ inserted' = inserted \/ inserted' = [inserted EXCEPT ![r] = @ + 1]
      BY DEF Step, Create, InsertPoll, Delete, Get, Update, UpdateStatus, InsertOption,
             CommitPoll, CheckDates, WriteUpdate, SelectPoll, SelectOptions, StatementFails
    <2> QED BY <2>1 DEF TypeOK
  <1> QED BY <1>1, <1>2, <1>3, <1>4, <1>5 DEF TypeOK

LEMMA FieldsStep ==
    ASSUME IInv, NEW r \in Requests, Step(r)
    PROVE  FieldsInv'
  <1> USE DEF IInv
  <1> DEFINE Fields(s) ==
        /\ pc[s] \in {"insert", "options", "commit"} =>
              /\ sent[s] \in Body /\ sent[s].options >= 2
              /\ ~EndsBeforeStart(Instant(sent[s].starts), Instant(sent[s].ends))
        /\ pc[s] \in {"check", "write"} => sent[s] \in Inputs
        /\ pc[s] = "rows" => found[s] \in Row
  <1>1. sent' = [s \in Requests |-> sent'[s]]
    BY OthersStay
  <1>2. found' \in [Requests -> Row \cup {<<>>}]
    <2>1. CASE UNCHANGED found
      BY <2>1 DEF FieldsInv
    <2>2. ASSUME NEW row \in Row, found' = [found EXCEPT ![r] = row]
          PROVE  found' \in [Requests -> Row \cup {<<>>}]
      BY <2>2 DEF FieldsInv
    <2>3. CASE CheckDates(r) \/ SelectPoll(r)
      <3>1. Exists(target[r]) => poll[target[r]] \in Row
        BY ExistingRow DEF TypeOK
      <3> QED BY <2>1, <2>2, <2>3, <3>1 DEF CheckDates, SelectPoll
    <2>4. CASE SelectOptions(r)
      <3>1. found[r] \in Row
        BY <2>4 DEF SelectOptions, FieldsInv
      <3>a. target[r] \in Polls
        BY DEF TypeOK
      <3>b. Exists(target[r]) => poll[target[r]].options \in Nat
        BY <3>a, ExistingRow DEF Row
      <3> DEFINE all == IF Exists(target[r]) THEN poll[target[r]].options ELSE 0
      <3>c. \E n \in 0..all : found' = [found EXCEPT ![r].options = n]
        BY <2>4 DEF SelectOptions
      <3>d. \A n \in 0..all : n \in Nat
        BY <3>b
      <3> HIDE DEF all
      <3>2. PICK n \in Nat : found' = [found EXCEPT ![r].options = n]
        BY <3>c, <3>d, Zenon
      <3>3. found' = [found EXCEPT ![r] = [found[r] EXCEPT !.options = n]]
        BY <3>2
      <3>4. [found[r] EXCEPT !.options = n] \in Row
        BY <3>1 DEF Row
      <3> QED BY <2>2, <3>3, <3>4
    <2> QED
      BY <2>1, <2>3, <2>4 DEF Step, Create, InsertPoll, Delete, Get, Update, UpdateStatus,
         InsertOption, CommitPoll, WriteUpdate, StatementFails
  <1>3. ASSUME NEW s \in Requests \ {r} PROVE Fields(s)'
    <2>1. Fields(s)
      BY DEF FieldsInv
    <2> QED BY <2>1, OthersStay
  <1>4. Fields(r)'
    <2>1. ASSUME NEW a, Answer(r, a) PROVE Fields(r)'
      BY <2>1, AnswerEffect
    <2>2. ASSUME NEW t \in Titles, NEW b \in Date, NEW e \in Date, NEW n \in OptionCounts,
                 Create(r, t, b, e, n)
          PROVE  Fields(r)'
      <3> DEFINE in == [title |-> t, starts |-> b, ends |-> e, options |-> n]
      <3>1. CASE ~(n < 2 \/ EndsBeforeStart(Instant(b), Instant(e))) /\ Goto(r, "insert", in)
        <4>1. in \in Body /\ in.options >= 2
                /\ ~EndsBeforeStart(Instant(in.starts), Instant(in.ends))
          BY <3>1, AdminAssumption DEF Body
        <4>2. pc'[r] = "insert" /\ sent'[r] = in
          BY <3>1, GotoEffect
        <4> QED BY <4>1, <4>2
      <3> QED BY <2>1, <2>2, <3>1 DEF Create
    <2>3. ASSUME NEW l \in {"options", "commit"}, Goto(r, l, sent[r]),
                 pc[r] \in {"insert", "options"}
          PROVE  Fields(r)'
      BY <2>3, GotoEffect DEF FieldsInv
    <2>4. ASSUME NEW l \in {"check", "write"}, NEW in \in Inputs, Goto(r, l, in)
          PROVE  Fields(r)'
      BY <2>4, GotoEffect
    <2>5. CASE SelectPoll(r)
      <3>1. CASE Goto(r, "rows", <<>>) /\ found' = [found EXCEPT ![r] = poll[target[r]]]
                   /\ Exists(target[r])
        <4>1. found'[r] \in Row
          BY <3>1, ExistingRow DEF FieldsInv, TypeOK
        <4> QED BY <3>1, <4>1, GotoEffect
      <3> QED BY <2>1, <2>5, <3>1 DEF SelectPoll
    <2>6. CASE \E p \in Polls : Get(r, p)
      BY <2>6, GotoEffect DEF Get
    <2>7. CASE CheckDates(r)
      <3>1. sent[r] \in Inputs
        BY <2>7 DEF CheckDates, FieldsInv
      <3> QED BY <2>1, <2>4, <2>7, <3>1 DEF CheckDates
    <2>8. CASE \E p \in Polls, in \in Inputs : Update(r, p, in)
      BY <2>1, <2>4, <2>8 DEF Update
    <2>9. CASE (\E p \in Polls : InsertPoll(r, p)) \/ InsertOption(r)
      BY <2>3, <2>9 DEF InsertPoll, InsertOption
    <2> HIDE DEF Fields
    <2> QED
      BY <2>1, <2>2, <2>5, <2>6, <2>7, <2>8, <2>9 DEF Step, Delete, UpdateStatus,
         CommitPoll, WriteUpdate, SelectOptions, StatementFails
  <1> QED BY <1>1, <1>2, <1>3, <1>4 DEF FieldsInv

LEMMA BirthStep ==
    ASSUME IInv, NEW r \in Requests, Step(r)
    PROVE  BirthInv'
  <1> USE DEF IInv
  <1>0. \A s \in Requests : target[s] \in Polls
    BY DEF TypeOK
  <1>1. ASSUME NEW p \in Polls, Exists(p)' PROVE poll'[p].options >= 2
    <2>1. pc[r] = "commit" => inserted[r] >= 2
      BY DEF BirthInv, FieldsInv
    <2> QED BY <1>1, <2>1, RowsMove DEF RowMoves, BirthInv, Exists, Status
  \* An id that a transaction has stays without a row until its own commit.
  <1>2. ASSUME NEW s \in Requests \ {r}, Creating(s)
        PROVE  target[s] \in reserved' /\ poll'[target[s]].status = "unused"
    <2>1. target[s] \in reserved /\ poll[target[s]].status = "unused"
      BY <1>2 DEF BirthInv
    <2>2. reserved \subseteq reserved'
      BY DEF Step, Create, InsertPoll, Delete, Get, Update, UpdateStatus, InsertOption,
             CommitPoll, CheckDates, WriteUpdate, SelectPoll, SelectOptions,
             StatementFails, history
    <2>3. pc[r] = "commit" => target[r] # target[s]
      BY <1>2 DEF BirthInv, Creating
    <2> QED BY <1>0, <2>1, <2>2, <2>3, RowsMove DEF RowMoves, Exists, Status
  <1>3. ASSUME NEW s \in Requests \ {r}
        PROVE  /\ pc'[s] \in {"idle", "insert"} => inserted'[s] = 0
               /\ pc'[s] = "options" => inserted'[s] < sent'[s].options
               /\ pc'[s] = "commit" => inserted'[s] = sent'[s].options
               /\ Creating(s)' => /\ target'[s] \in reserved'
                                  /\ poll'[target'[s]].status = "unused"
    BY <1>2, OthersStay DEF BirthInv, Creating
  <1> DEFINE Alone == \A s \in Requests \ {r} : Creating(s) => target[s] # target'[r]
             Born == /\ pc'[r] \in {"idle", "insert"} => inserted'[r] = 0
                     /\ pc'[r] = "options" => inserted'[r] < sent'[r].options
                     /\ pc'[r] = "commit" => inserted'[r] = sent'[r].options
                     /\ Creating(r)' => /\ target'[r] \in reserved'
                                        /\ poll'[target'[r]].status = "unused"
                                        /\ Alone
  <1>4. Born
    <2>1. CASE pc'[r] \notin {"idle", "insert", "options", "commit"}
      BY <2>1 DEF Creating
    <2>2. ASSUME NEW a, Answer(r, a) PROVE Born
      <3>1. pc'[r] = "done"
        BY <2>2, AnswerEffect
      <3> QED BY <2>1, <3>1
    <2>3. ASSUME NEW l, l \notin {"idle", "insert", "options", "commit"}, NEW in, Goto(r, l, in)
          PROVE  Born
      <3>1. pc'[r] = l
        BY <2>3, GotoEffect
      <3> QED BY <2>1, <2>3, <3>1
    <2>4. ASSUME NEW t \in Titles, NEW b \in Date, NEW e \in Date, NEW n \in OptionCounts,
                 Create(r, t, b, e, n)
          PROVE  Born
      <3>1. CASE \E in : Goto(r, "insert", in)
        <4>1. pc'[r] = "insert" /\ inserted'[r] = 0
          BY <2>4, <3>1, GotoEffect DEF Create, BirthInv
        <4> QED BY <4>1 DEF Creating
      <3> QED BY <2>2, <2>4, <3>1 DEF Create
    <2>5. ASSUME NEW p \in Polls, InsertPoll(r, p) PROVE Born
      <3>1. /\ pc[r] = "insert" /\ p \notin reserved /\ p \in reserved'
            /\ target'[r] = p /\ UNCHANGED <<poll, inserted>>
        BY <2>5 DEF InsertPoll, TypeOK
      <3>2. pc'[r] = "options" /\ sent'[r] = sent[r]
        BY <2>5, GotoEffect DEF InsertPoll
      <3>3. sent[r].options \in Nat /\ sent[r].options >= 2 /\ inserted[r] = 0
        BY <3>1, AdminAssumption DEF FieldsInv, BirthInv, Body
      <3>4. poll[p].status = "unused" /\ Alone
        BY <3>1 DEF TypeOK, BirthInv
      <3> QED BY <3>1, <3>2, <3>3, <3>4 DEF Creating
    <2>6. CASE InsertOption(r)
      <3>1. /\ pc[r] = "options" /\ inserted'[r] = inserted[r] + 1
            /\ UNCHANGED <<poll, reserved, target>>
        BY <2>6 DEF InsertOption, TypeOK
      <3>2. /\ pc'[r] = (IF inserted[r] + 1 < sent[r].options THEN "options" ELSE "commit")
            /\ sent'[r] = sent[r]
        BY <2>6, GotoEffect DEF InsertOption
      <3>3. inserted[r] < sent[r].options /\ inserted[r] \in Nat /\ sent[r].options \in Nat
        BY <3>1, AdminAssumption DEF FieldsInv, BirthInv, Body, TypeOK
      <3>4. /\ target[r] \in reserved /\ poll[target[r]].status = "unused"
            /\ \A s \in Requests \ {r} : Creating(s) => target[s] # target[r]
        BY <3>1 DEF BirthInv, Creating
      <3>5. /\ pc'[r] \in {"options", "commit"}
            /\ pc'[r] = "options" => inserted[r] + 1 < sent[r].options
            /\ pc'[r] = "commit" => inserted[r] + 1 = sent[r].options
        BY <3>2, <3>3
      <3> QED BY <3>1, <3>2, <3>4, <3>5 DEF Creating
    <2> HIDE DEF Born
    <2> QED
      BY <2>2, <2>3, <2>4, <2>5, <2>6 DEF Step, Delete, Get, Update, UpdateStatus,
         CommitPoll, CheckDates, WriteUpdate, SelectPoll, SelectOptions, StatementFails
  <1>5. \A s \in Requests \ {r} : /\ Creating(s)' <=> Creating(s)
                                  /\ target'[s] = target[s]
    BY OthersStay DEF Creating
  <1>6. \A s, u \in Requests :
          s # u /\ Creating(s)' /\ Creating(u)' => target'[s] # target'[u]
    BY <1>4, <1>5 DEF BirthInv
  <1> QED BY <1>1, <1>3, <1>4, <1>6 DEF BirthInv

\* Of an id that had a row once, the mark is never "unused" again.
LEMMA RowsPersist ==
    ASSUME IInv, NEW r \in Requests, Step(r), NEW p \in Polls
    PROVE  /\ poll[p].status # "unused" => poll'[p].status # "unused"
           /\ poll[p].status # "unused" /\ ~Exists(p) => ~Exists(p)'
  <1>1. pc[r] = "commit" => poll[target[r]].status = "unused"
    BY DEF IInv, BirthInv, Creating
  <1>2. RowMoves(r, p) /\ TypeOK
    BY RowsMove DEF IInv
  <1> QED BY <1>1, <1>2, ExistingRow DEF RowMoves, Exists, Row, Status

LEMMA ReaderStep ==
    ASSUME IInv, NEW r \in Requests, Step(r)
    PROVE  ReaderInv' /\ ReadIsWhole'
  <1> USE DEF IInv
  <1> DEFINE Reader(s) ==
        /\ resp[s] # "none" => pc[s] = "done"
        /\ pc[s] = "rows" \/ resp[s] = "got" => poll[target[s]].status # "unused"
        /\ resp[s] = "got" =>
              found[s].options >= 2 \/ s \in cut \/ ~Exists(target[s])
  <1>0. \A s \in Requests : Reader(s) /\ target[s] \in Polls
    BY DEF ReaderInv, ReadIsWhole, TypeOK
  <1>a. cut \subseteq cut'
    BY DEF Step, Create, InsertPoll, Delete, Get, Update, UpdateStatus, InsertOption,
           CommitPoll, CheckDates, WriteUpdate, SelectPoll, SelectOptions, StatementFails,
           history
  <1>1. ASSUME NEW s \in Requests \ {r} PROVE Reader(s)'
    BY <1>0, <1>a, OthersStay, RowsPersist
  <1>2. Reader(r)'
    <2>1. resp[r] = "none"
      BY <1>0 DEF Step, Create, InsertPoll, Delete, Get, Update, UpdateStatus,
         InsertOption, CommitPoll, CheckDates, WriteUpdate, SelectPoll, SelectOptions,
         StatementFails
    <2>2. ASSUME NEW a, a # "got", Answer(r, a) PROVE Reader(r)'
      BY <2>2, AnswerEffect
    <2>3. ASSUME NEW l, NEW in, l # "rows", Goto(r, l, in) PROVE Reader(r)'
      BY <2>1, <2>3, GotoEffect
    <2>4. CASE SelectPoll(r)
      <3>1. CASE Exists(target[r]) /\ Goto(r, "rows", <<>>)
        <4>1. UNCHANGED <<poll, target>> /\ poll[target[r]].status # "unused"
          BY <2>4, <3>1 DEF SelectPoll, Exists, Status
        <4> QED BY <2>1, <3>1, <4>1, GotoEffect
      <3> QED BY <2>2, <2>4, <3>1 DEF SelectPoll
    <2>5. CASE SelectOptions(r)
      <3> DEFINE all == IF Exists(target[r]) THEN poll[target[r]].options ELSE 0
      <3>1. /\ pc[r] = "rows" /\ UNCHANGED <<poll, target>> /\ Answer(r, "got")
            /\ \E n \in 0..all : /\ found' = [found EXCEPT ![r].options = n]
                                 /\ cut' = IF n < all THEN cut \cup {r} ELSE cut
        BY <2>5 DEF SelectOptions
      <3>2. PICK n \in 0..all : /\ found' = [found EXCEPT ![r].options = n]
                                /\ cut' = IF n < all THEN cut \cup {r} ELSE cut
        BY <3>1
      <3>3. poll[target[r]].status # "unused" /\ found[r] \in Row
        BY <3>1 DEF ReaderInv, FieldsInv
      <3>4. found'[r].options = n
        <4>1. found'[r] = [found[r] EXCEPT !.options = n]
          BY <3>2 DEF FieldsInv
        <4> QED BY <3>3, <4>1 DEF Row
      <3>5. Exists(target[r]) => all \in Nat /\ all >= 2
        BY <1>0, ExistingRow DEF BirthInv, Row
      <3>6. found'[r].options >= 2 \/ r \in cut' \/ ~Exists(target[r])
        <4>1. n < all => r \in cut'
          BY <3>2
        <4> HIDE DEF all
        <4> QED BY <3>2, <3>4, <3>5, <4>1
      <3> QED BY <3>1, <3>3, <3>6, AnswerEffect DEF Exists
    <2> HIDE DEF Reader
    <2> QED
      BY <2>2, <2>3, <2>4, <2>5 DEF Step, Create, InsertPoll, Delete, Get, Update,
         UpdateStatus, InsertOption, CommitPoll, CheckDates, WriteUpdate, StatementFails
  <1>3. \A s \in Requests : Reader(s)'
    BY <1>1, <1>2
  <1> QED BY <1>3 DEF ReaderInv, ReadIsWhole

Excused(p, starts, ends) == p \in raced \/ (p \in shifted /\ WithinOffsets(starts, ends))

\* The dates that a write leaves read like those that its check compared, unless
\* one of them has changed since.
LEMMA WriteKeepsOrder ==
    ASSUME IInv, NEW r \in Requests, NEW p \in Polls, WriteUpdate(r), target[r] = p,
           Exists(p), EndsBeforeStart(poll'[p].starts, poll'[p].ends)
    PROVE  Excused(p, poll[p].starts, poll[p].ends)'
  <1> USE DEF IInv
  <1>1. /\ pc[r] = "write" /\ sent[r] \in Inputs /\ poll[p] \in Row
        /\ poll'[p] = Written(poll[p], sent[r])
        /\ Race(r) /\ Shift(r)
    <2>1. pc[r] = "write" /\ sent[r] \in Inputs /\ poll[p] \in Row
      BY ExistingRow DEF WriteUpdate, FieldsInv, TypeOK
    <2>2. poll' = [poll EXCEPT ![p] = Written(poll[p], sent[r])]
      BY DEF WriteUpdate, Written
    <2>3. Race(r) /\ Shift(r)
      BY DEF WriteUpdate
    <2> QED BY <2>1, <2>2, <2>3 DEF TypeOK
  <1>2. \A c \in Dates :
          poll'[p][c] = IF c \in DOMAIN sent[r] THEN Column(c, sent[r][c]) ELSE poll[p][c]
    BY <1>1, WrittenRow DEF Columns, Dates
  <1>3. CASE DOMAIN sent[r] \cap Dates = {}
    <2>1. poll'[p].starts = poll[p].starts /\ poll'[p].ends = poll[p].ends
      BY <1>2, <1>3 DEF Dates
    <2>2. raced' = raced /\ shifted' = shifted
      BY <1>1, <1>3 DEF Race, Shift
    <2> QED BY <2>1, <2>2 DEF DatesOrderedUnlessRaced, Excused
  <1>4. CASE DOMAIN sent[r] \cap Dates # {} /\ Stale(r)
    <2>1. p \in raced'
      BY <1>1, <1>4 DEF Race
    <2> QED BY <2>1 DEF Excused
  <1>5. CASE DOMAIN sent[r] \cap Dates # {} /\ ~Stale(r)
    <2>1. /\ found[r] \in Row
          /\ ~EndsBeforeStart(Merged(r, found[r], "starts"), Merged(r, found[r], "ends"))
      BY <1>1, <1>5 DEF CheckedInv, Dates
    <2> DEFINE off(c) == IF c \in DOMAIN sent[r] THEN OffsetOf(sent[r][c]) ELSE 0
    <2>2. ASSUME NEW c \in Dates
          PROVE  /\ off(c) \in Offsets \cup {0}
                 /\ Reads(poll'[p][c], Merged(r, found[r], c), off(c))
      <3>1. CASE c \in DOMAIN sent[r]
        <4>1. sent[r][c] \in Date
          BY <1>1, <3>1, InputType DEF Field, Dates
        <4>2. poll'[p][c] = Wall(sent[r][c]) /\ Merged(r, found[r], c) = Instant(sent[r][c])
          BY <1>2, <3>1 DEF Column, Merged, Dates
        <4> QED BY <3>1, <4>1, <4>2, DateReads
      <3>2. CASE c \notin DOMAIN sent[r]
        <4>1. poll'[p][c] = poll[p][c] /\ Merged(r, found[r], c) = found[r][c]
                /\ found[r][c] = poll[p][c]
          BY <1>1, <1>2, <1>5, <3>2 DEF Merged, Stale
        <4>2. poll[p][c] \in Stamp
          BY <1>1 DEF Row, Dates
        <4> QED BY <3>2, <4>1, <4>2, StampReads
      <3> QED BY <3>1, <3>2
    <2>3. /\ off("starts") \in Offsets \cup {0} /\ off("ends") \in Offsets \cup {0}
          /\ Reads(poll'[p].starts, Merged(r, found[r], "starts"), off("starts"))
          /\ Reads(poll'[p].ends, Merged(r, found[r], "ends"), off("ends"))
      <3> HIDE DEF off
      <3> QED BY <2>2 DEF Dates
    <2>5. /\ WithinOffsets(poll'[p].starts, poll'[p].ends)
          /\ off("starts") # 0 \/ off("ends") # 0
      <3> HIDE DEF off
      <3> QED BY <2>1, <2>3, ReadsOrder
    <2>6. p \in shifted'
      BY <1>1, <1>5, <2>5 DEF Shift, Dates, OffsetOf
    <2> QED BY <2>5, <2>6 DEF Excused, WithinOffsets
  <1> QED BY <1>3, <1>4, <1>5

LEMMA DatesStep ==
    ASSUME IInv, NEW r \in Requests, Step(r)
    PROVE  DatesOrderedUnlessRaced'
  <1> USE DEF IInv
  <1> SUFFICES ASSUME NEW p \in Polls, Exists(p)',
                      EndsBeforeStart(poll'[p].starts, poll'[p].ends)
               PROVE  Excused(p, poll[p].starts, poll[p].ends)'
    BY DEF DatesOrderedUnlessRaced, Excused
  <1>0. ASSUME ~(WriteUpdate(r) /\ Exists(p)) \/ p # target[r],
               ~CommitPoll(r) \/ p # target[r]
        PROVE  (p \in raced <=> p \in raced') /\ (p \in shifted <=> p \in shifted')
    BY <1>0 DEF Step, Create, InsertPoll, Delete, Get, Update, UpdateStatus, InsertOption,
           CommitPoll, CheckDates, WriteUpdate, SelectPoll, SelectOptions, StatementFails,
           Race, Shift, history
  <1>1. ASSUME ~(WriteUpdate(r) /\ Exists(p)) \/ p # target[r],
               ~CommitPoll(r) \/ p # target[r],
               Exists(p), poll'[p].starts = poll[p].starts, poll'[p].ends = poll[p].ends
        PROVE  Excused(p, poll[p].starts, poll[p].ends)'
    BY <1>0, <1>1 DEF DatesOrderedUnlessRaced, Excused
  <1>2. CASE UNCHANGED poll /\ ~CommitPoll(r) /\ ~WriteUpdate(r)
    BY <1>1, <1>2 DEF Exists
  <1>3. CASE CommitPoll(r)
    <2>1. CASE p = target[r]
      <3>1. /\ sent[r] \in Body
            /\ ~EndsBeforeStart(Instant(sent[r].starts), Instant(sent[r].ends))
        BY <1>3 DEF CommitPoll, FieldsInv
      <3>2. /\ poll'[p].starts = Wall(sent[r].starts)
            /\ poll'[p].ends = Wall(sent[r].ends)
        BY <1>3, <2>1 DEF CommitPoll, TypeOK
      <3>3. DOMAIN sent[r] \cap Dates = Dates
        BY <3>1 DEF Body, Dates
      <3>4. sent[r].starts \in Date /\ sent[r].ends \in Date
        BY <3>1 DEF Body
      <3> DEFINE o == OffsetOf(sent[r].starts)
                 q == OffsetOf(sent[r].ends)
      <3>5. /\ o \in Offsets \cup {0} /\ Reads(poll'[p].starts, Instant(sent[r].starts), o)
            /\ q \in Offsets \cup {0} /\ Reads(poll'[p].ends, Instant(sent[r].ends), q)
        BY <3>2, <3>4, DateReads
      <3>7. WithinOffsets(poll'[p].starts, poll'[p].ends) /\ (o # 0 \/ q # 0)
        <4> HIDE DEF o, q
        <4> QED BY <3>1, <3>5, ReadsOrder
      <3>8. p \in shifted'
        BY <1>3, <2>1, <3>3, <3>7 DEF CommitPoll, Shift, Dates, OffsetOf
      <3> QED BY <3>7, <3>8 DEF Excused, WithinOffsets
    <2>2. CASE p # target[r]
      <3>1. poll'[p] = poll[p]
        BY <1>3, <2>2 DEF CommitPoll, TypeOK
      <3> QED BY <1>1, <2>2, <3>1 DEF Exists
    <2> QED BY <2>1, <2>2
  <1>4. CASE WriteUpdate(r)
    <2>1. CASE p = target[r] /\ Exists(p)
      BY <1>4, <2>1, WriteKeepsOrder
    <2>2. CASE p # target[r] \/ ~Exists(p)
      <3>1. poll'[p] = poll[p]
        BY <1>4, <2>2 DEF WriteUpdate, TypeOK
      <3>2. p # target[r] /\ Exists(p)
        BY <2>2, <3>1 DEF Exists
      <3> QED BY <1>1, <3>1, <3>2
    <2> QED BY <2>1, <2>2
  <1>5. ASSUME NEW q \in Polls, NEW s \in Status, Exists(q),
               poll' = [poll EXCEPT ![q].status = s], ~CommitPoll(r), ~WriteUpdate(r)
        PROVE  Excused(p, poll[p].starts, poll[p].ends)'
    <2>1. poll[q] \in Row
      BY <1>5, ExistingRow
    <2>2. /\ p # q => poll'[p] = poll[p]
          /\ p = q => poll'[p] = [poll[p] EXCEPT !.status = s]
      BY <1>5 DEF TypeOK
    <2>3. Exists(p)
      BY <1>5, <2>2 DEF Exists
    <2>4. poll'[p].starts = poll[p].starts /\ poll'[p].ends = poll[p].ends
      BY <2>1, <2>2 DEF Row
    <2> QED BY <1>1, <1>5, <2>3, <2>4
  <1>6. CASE (\E q \in Polls : Delete(r, q)) /\ ~CommitPoll(r) /\ ~WriteUpdate(r)
    <2>1. poll'[p] = poll[p]
      BY <1>6 DEF Delete, Exists, Status, TypeOK
    <2> QED BY <1>1, <1>6, <2>1 DEF Exists
  <1> QED
    BY <1>2, <1>3, <1>4, <1>5, <1>6 DEF Step, Create, InsertPoll, Get, Update,
       UpdateStatus, InsertOption, CheckDates, SelectPoll, SelectOptions, StatementFails

LEMMA CheckedStep ==
    ASSUME IInv, NEW r \in Requests, Step(r)
    PROVE  CheckedInv'
  <1> USE DEF IInv
  <1> DEFINE Checked(s) == pc[s] = "write" =>
        \/ DOMAIN sent[s] \subseteq {"title"}
        \/ /\ found[s] \in Row
           /\ ~EndsBeforeStart(Merged(s, found[s], "starts"), Merged(s, found[s], "ends"))
  <1>1. ASSUME NEW s \in Requests \ {r} PROVE Checked(s)'
    BY OthersStay DEF CheckedInv, Merged
  <1>2. Checked(r)'
    <2>1. ASSUME NEW a, Answer(r, a) PROVE Checked(r)'
      BY <2>1, AnswerEffect
    <2>2. ASSUME NEW l, NEW in, l # "write", Goto(r, l, in) PROVE Checked(r)'
      BY <2>2, GotoEffect
    <2>3. ASSUME NEW in, DOMAIN in \subseteq {"title"}, Goto(r, "write", in)
          PROVE  Checked(r)'
      BY <2>3, GotoEffect
    <2>4. CASE CheckDates(r)
      <3> DEFINE row == poll[target[r]]
      <3>1. CASE /\ Exists(target[r]) /\ found' = [found EXCEPT ![r] = row]
                 /\ ~EndsBeforeStart(Merged(r, row, "starts"), Merged(r, row, "ends"))
                 /\ Goto(r, "write", sent[r])
        <4>1. row \in Row
          BY <3>1, ExistingRow DEF TypeOK
        <4>2. found'[r] = row /\ sent'[r] = sent[r]
          BY <3>1, GotoEffect DEF FieldsInv
        <4> QED BY <3>1, <4>1, <4>2 DEF Merged
      <3> QED BY <2>1, <2>4, <3>1 DEF CheckDates
    <2>5. CASE \E p \in Polls, in \in Inputs : Update(r, p, in)
      BY <2>1, <2>2, <2>3, <2>5 DEF Update
    <2>6. CASE InsertOption(r)
      BY <2>2, <2>6 DEF InsertOption
    <2> HIDE DEF Checked
    <2> QED
      BY <2>1, <2>2, <2>4, <2>5, <2>6 DEF Step, Create, InsertPoll, Delete, Get,
         UpdateStatus, CommitPoll, WriteUpdate, SelectPoll, SelectOptions, StatementFails
  <1>3. \A s \in Requests : Checked(s)'
    BY <1>1, <1>2
  <1> QED BY <1>3 DEF CheckedInv
-----------------------------------------------------------------------------
(* The theorems.                                                           *)

LEMMA InvInit == Init => IInv
  <1> SUFFICES ASSUME Init PROVE IInv
    OBVIOUS
  <1>1. Stamps \subseteq Stamp
    BY AdminAssumption DEF Stamps, Stamp
  <1>2. ASSUME NEW p \in Polls
        PROVE  \/ poll[p] = [status |-> "unused"]
               \/ /\ poll[p] \in Row /\ poll[p].options = 2 /\ poll[p].status = "draft"
                  /\ ~EndsBeforeStart(poll[p].starts, poll[p].ends)
    BY <1>1 DEF Init, Row, Status
  <1>3. poll \in [Polls -> Row \cup Absent]
    BY <1>2 DEF Init, Absent
  <1>4. TypeOK
    BY <1>2, <1>3 DEF Init, TypeOK, Exists, Status
  <1>5. BirthInv
    BY <1>2 DEF Init, BirthInv, Creating, Exists, Status
  <1>6. FieldsInv /\ ReaderInv /\ ReadIsWhole /\ CheckedInv
    BY DEF Init, FieldsInv, ReaderInv, ReadIsWhole, CheckedInv
  <1>7. DatesOrderedUnlessRaced
    BY <1>2 DEF DatesOrderedUnlessRaced, Exists, Status
  <1> QED BY <1>4, <1>5, <1>6, <1>7 DEF IInv

LEMMA StepOfNext == Next => \E r \in Requests : Step(r)
  BY DEF Next, Step

LEMMA InvStep == IInv /\ [Next]_vars => IInv'
  <1> SUFFICES ASSUME IInv, [Next]_vars PROVE IInv'
    OBVIOUS
  <1>1. CASE UNCHANGED vars
    BY <1>1 DEF vars, history, IInv, TypeOK, FieldsInv, BirthInv, ReaderInv, ReadIsWhole,
       CheckedInv, DatesOrderedUnlessRaced, Exists, Creating, Merged
  <1>2. ASSUME NEW r \in Requests, Step(r) PROVE IInv'
    BY <1>2, TypeStep, FieldsStep, BirthStep, ReaderStep, CheckedStep, DatesStep DEF IInv
  <1> QED BY <1>1, <1>2, StepOfNext

\* The invariant, of which the next three theorems name the parts.
LEMMA InvCorrect == Spec => []IInv
  BY InvInit, InvStep, PTL DEF Spec

\* The rows and the requests keep their types; an id with a row was given out.
THEOREM AdminTypeCorrect == Spec => []TypeOK
  <1>1. IInv => TypeOK
    BY DEF IInv
  <1> QED BY <1>1, InvCorrect, PTL

\* A poll becomes visible with all its options, so that only a deletion or rows
\* that ended early give a reader fewer than two.
THEOREM ReadsAreWhole == Spec => []ReadIsWhole
  <1>1. IInv => ReadIsWhole
    BY DEF IInv
  <1> QED BY <1>1, InvCorrect, PTL

\* The check of the dates fails only by the race that polls_dates shows, or by
\* the difference of two offsets, and the next change of the dates with neither
\* mends it: everything else that administrators do keeps them in order.
THEOREM DatesAreOrdered == Spec => []DatesOrderedUnlessRaced
  <1>1. IInv => DatesOrderedUnlessRaced
    BY DEF IInv
  <1> QED BY <1>1, InvCorrect, PTL

\* No update takes back a column of another.
THEOREM UpdatesAreSeparate == Spec => OnlySentColumnsChange
  <1> DEFINE A == \A p \in Polls, c \in Columns :
                    Exists(p) /\ Exists(p)' /\ poll'[p][c] # poll[p][c] =>
                       \E r \in Requests : /\ pc[r] = "write" /\ pc'[r] = "done"
                                           /\ target[r] = p /\ c \in DOMAIN sent[r]
  <1>1. ASSUME IInv, NEW r \in Requests, Step(r), NEW p \in Polls, NEW c \in Columns,
               Exists(p), Exists(p)', poll'[p][c] # poll[p][c]
        PROVE  /\ pc[r] = "write" /\ pc'[r] = "done"
               /\ target[r] = p /\ c \in DOMAIN sent[r]
    <2> USE <1>1 DEF IInv
    <2>1. poll[p] \in Row
      BY <1>1, ExistingRow
    <2>2. CASE CommitPoll(r)
      <3>1. poll[target[r]].status = "unused"
        BY <2>2 DEF CommitPoll, BirthInv, Creating
      <3>2. p # target[r]
        BY <1>1, <3>1 DEF Exists, Status
      <3>3. poll'[p] = poll[p]
        BY <2>2, <3>2 DEF CommitPoll, TypeOK
      <3> QED BY <1>1, <3>3
    <2>3. CASE WriteUpdate(r)
      <3>0. poll' # poll
        BY <1>1
      <3>1. Exists(target[r])
        BY <2>3, <3>0 DEF WriteUpdate
      <3>2. pc[r] = "write" /\ pc'[r] = "done"
        BY <2>3, <3>1, AnswerEffect DEF WriteUpdate
      <3>3. poll' = [poll EXCEPT ![target[r]] = Written(poll[target[r]], sent[r])]
        BY <2>3, <3>1 DEF WriteUpdate, Written
      <3>a. target[r] # p => poll'[p] = poll[p]
        BY <3>3 DEF TypeOK
      <3>4. target[r] = p
        BY <1>1, <3>a
      <3>5. poll'[p] = Written(poll[p], sent[r]) /\ sent[r] \in Inputs
        BY <3>2, <3>3, <3>4 DEF TypeOK, FieldsInv
      <3>b. c \notin DOMAIN sent[r] => Written(poll[p], sent[r])[c] = poll[p][c]
        BY <2>1, <3>5, WrittenRow
      <3>6. c \in DOMAIN sent[r]
        BY <1>1, <3>5, <3>b
      <3> QED BY <3>2, <3>4, <3>6
    <2>4. ASSUME NEW q \in Polls, NEW s \in Status, poll' = [poll EXCEPT ![q].status = s]
          PROVE  FALSE
      <3>1. /\ p # q => poll'[p] = poll[p]
            /\ p = q => poll'[p] = [poll[p] EXCEPT !.status = s]
        BY <2>4 DEF TypeOK
      <3>2. [poll[p] EXCEPT !.status = s][c] = poll[p][c]
        BY <2>1 DEF Row, Columns
      <3> QED BY <1>1, <3>1, <3>2
    <2>5. ASSUME NEW q \in Polls, Delete(r, q) PROVE FALSE
      BY <1>1, <2>5 DEF Delete, Exists, Status, TypeOK
    <2> QED
      BY <1>1, <2>2, <2>3, <2>4, <2>5 DEF Step, Create, InsertPoll, Get, Update,
         UpdateStatus, InsertOption, CheckDates, SelectPoll, SelectOptions, StatementFails
  <1>2. IInv /\ [Next]_vars => [A]_vars
    BY <1>1, StepOfNext
  <1> QED BY <1>2, InvCorrect, PTL DEF Spec, OnlySentColumnsChange
-----------------------------------------------------------------------------
(* The refinement.                                                         *)

Told(r) == IF resp[r] = "none" THEN <<>> ELSE <<resp[r], target[r]>>

\* A request that is still at work tells its answer for the first time.
LEMMA AnswerTells ==
    ASSUME IInv, NEW r \in Requests, NEW a, a # "none", pc[r] # "done", Answer(r, a),
           \A s \in Requests \ {r} : target'[s] = target[s], NEW p, target'[r] = p
    PROVE  Book!Tell(r, a, p)
  <1> USE DEF IInv
  <1>1. resp[r] = "none"
    BY DEF ReaderInv
  <1>2. resp'[r] = a /\ \A s \in Requests \ {r} : resp'[s] = resp[s]
    BY AnswerEffect
  <1>3. Told(r) = <<>> /\ Told(r)' = <<a, p>>
    BY <1>1, <1>2 DEF Told
  <1>4. \A s \in Requests \ {r} : Told(s)' = Told(s)
    BY <1>2 DEF Told
  <1>5. [s \in Requests |-> Told(s)'] =
          [[s \in Requests |-> Told(s)] EXCEPT ![r] = <<a, p>>]
    <2> HIDE DEF IInv
    <2> QED BY <1>3, <1>4
  <1> QED BY <1>3, <1>5 DEF Book!Tell, Told

\* One that goes on tells nothing, whichever poll it turns to.
LEMMA GotoTellsNothing ==
    ASSUME IInv, NEW r \in Requests, NEW l, NEW in, pc[r] # "done", Goto(r, l, in),
           \A s \in Requests \ {r} : target'[s] = target[s], UNCHANGED poll
    PROVE  UNCHANGED Book!vars
  <1> USE DEF IInv
  <1>1. resp[r] = "none" /\ UNCHANGED resp
    BY GotoEffect DEF ReaderInv
  <1>2. \A s \in Requests : Told(s)' = Told(s)
    BY <1>1 DEF Told
  <1>3. [s \in Requests |-> Told(s)'] = [s \in Requests |-> Told(s)]
    BY <1>2
  <1> QED BY <1>3 DEF Book!vars, Told

\* What a step does to the book, when it is the step that answers.
LEMMA PublishStep ==
    ASSUME NEW r \in Requests, NEW p \in Polls, NEW a \in {"created", "error"},
           Book!Tell(r, a, p), Book!Turns(p), poll[p].status = "unused",
           poll'[p].status = "draft", poll'[p].options >= 2
    PROVE  Book!Next
  BY DEF Book!Next, Book!Publish, Book!Done

LEMMA ReviseStep ==
    ASSUME NEW r \in Requests, NEW p \in Polls, NEW a \in {"ok", "error"},
           Book!Tell(r, a, p), Book!Turns(p), Exists(p), Exists(p)',
           poll'[p].options = poll[p].options,
           \/ poll'[p].status = poll[p].status
           \/ \E s \in Status : poll'[p] = [poll[p] EXCEPT !.status = s]
    PROVE  Book!Next
  BY DEF Book!Next, Book!Revise, Book!Done, Book!Exists, Book!Status, Exists, Status

LEMMA RemoveStep ==
    ASSUME NEW r \in Requests, NEW p \in Polls, NEW a \in {"ok", "error"},
           Book!Tell(r, a, p), Book!Turns(p), Exists(p), poll'[p].status = "deleted"
    PROVE  Book!Next
  BY DEF Book!Next, Book!Remove, Book!Done, Book!Exists, Book!Status, Exists, Status

LEMMA TellStep ==
    ASSUME NEW r \in Requests, NEW p \in Polls, NEW a, Book!Tell(r, a, p), UNCHANGED poll,
           \/ a \in {"invalid", "error"}
           \/ a = "notFound" /\ ~Exists(p)
           \/ a = "got" /\ poll[p].status # "unused"
    PROVE  Book!Next
  BY DEF Book!Next, Book!Show, Book!Miss, Book!Refuse, Book!Exists, Book!Status, Exists,
         Status

\* Each request changes one poll in one step, and its answer is true of it.
THEOREM AdminImplementsBook == Spec => ImplementsBook
  <1>1. Init => Book!Init
    BY DEF Init, Book!Init
  <1>2. IInv /\ [Next]_vars => [Book!Next]_Book!vars
    <2> SUFFICES ASSUME IInv, [Next]_vars PROVE Book!Next \/ UNCHANGED Book!vars
      OBVIOUS
    <2> USE DEF IInv
    <2>1. CASE UNCHANGED vars
      BY <2>1 DEF vars, Book!vars
    <2>2. ASSUME NEW r \in Requests, Step(r) PROVE Book!Next \/ UNCHANGED Book!vars
      <3>1. /\ \A s \in Requests \ {r} : target'[s] = target[s]
            /\ target'[r] \in Polls
        BY <2>2, OthersStay, TypeStep DEF TypeOK
      <3>p. PICK p \in Polls : target'[r] = p
        BY <3>1
      <3>2. pc[r] # "done"
        BY <2>2 DEF Step, Create, InsertPoll, Delete, Get, Update, UpdateStatus, InsertOption,
           CommitPoll, CheckDates, WriteUpdate, SelectPoll, SelectOptions, StatementFails
      <3>3. ASSUME NEW l, NEW in, Goto(r, l, in), UNCHANGED poll
            PROVE  UNCHANGED Book!vars
        BY <3>1, <3>2, <3>3, GotoTellsNothing
      <3>4. ASSUME NEW a, Answer(r, a), a # "none" PROVE Book!Tell(r, a, p)
        BY <3>1, <3>p, <3>2, <3>4, AnswerTells
      <3>5. ASSUME NEW a \in {"invalid", "error"}, Answer(r, a), UNCHANGED poll PROVE Book!Next
        BY <3>4, <3>5, TellStep
      <3>6. ASSUME Answer(r, "notFound"), ~Exists(p), UNCHANGED poll PROVE Book!Next
        BY <3>4, <3>6, TellStep
      <3>7. ASSUME \E row : poll' = [poll EXCEPT ![p] = row] PROVE Book!Turns(p)
        BY <3>7 DEF Book!Turns, TypeOK
      <3>8. ASSUME NEW s \in Status \cup {"other"}, UpdateStatus(r, p, s) \/ Delete(r, p)
            PROVE  Book!Next
        <4>1. CASE UNCHANGED poll /\ (\/ Answer(r, "invalid") \/ Answer(r, "error")
                                      \/ Answer(r, "notFound") /\ ~Exists(p))
          BY <4>1, <3>5, <3>6
        <4>2. CASE s \in Status /\ Exists(p) /\ poll' = [poll EXCEPT ![p].status = s]
                     /\ (Answer(r, "ok") \/ Answer(r, "error"))
          <5>1. poll[p] \in Row
            BY <4>2, ExistingRow
          <5>2. poll'[p] = [poll[p] EXCEPT !.status = s]
            BY <4>2 DEF TypeOK
          <5>3. poll'[p].status = s /\ poll'[p].options = poll[p].options
            BY <5>1, <5>2 DEF Row
          <5>4. poll' = [poll EXCEPT ![p] = [poll[p] EXCEPT !.status = s]]
            BY <4>2
          <5>5. Exists(p)'
            BY <4>2, <5>3 DEF Exists
          <5>6. PICK a \in {"ok", "error"} : Book!Tell(r, a, p)
            BY <3>4, <4>2
          <5> QED BY <3>7, <4>2, <5>2, <5>3, <5>4, <5>5, <5>6, ReviseStep
        <4>3. CASE Exists(p) /\ poll' = [poll EXCEPT ![p] = [status |-> "deleted"]]
                     /\ (Answer(r, "ok") \/ Answer(r, "error"))
          <5>1. poll'[p].status = "deleted"
            BY <4>3 DEF TypeOK
          <5>2. PICK a \in {"ok", "error"} : Book!Tell(r, a, p)
            BY <3>4, <4>3
          <5> QED BY <3>7, <4>3, <5>1, <5>2, RemoveStep
        <4> QED BY <3>8, <4>1, <4>2, <4>3 DEF UpdateStatus, Delete
      <3>9. CASE CommitPoll(r)
        <4>1. pc[r] = "commit" /\ target[r] = p
          BY <3>9, <3>p DEF CommitPoll
        <4>2. poll[p].status = "unused" /\ inserted[r] >= 2
          BY <4>1 DEF BirthInv, Creating, FieldsInv
        <4>3. \E row : poll' = [poll EXCEPT ![p] = row]
          BY <3>9, <4>1 DEF CommitPoll
        <4>4. poll'[p].status = "draft" /\ poll'[p].options = inserted[r]
          BY <3>9, <4>1 DEF CommitPoll, TypeOK
        <4>5. PICK a \in {"created", "error"} : Book!Tell(r, a, p)
          BY <3>4, <3>9 DEF CommitPoll
        <4> QED BY <3>7, <4>2, <4>3, <4>4, <4>5, PublishStep
      <3>10. CASE WriteUpdate(r) /\ Exists(target[r])
        <4>1. target[r] = p /\ poll[p] \in Row /\ sent[r] \in Inputs
          BY <3>10, <3>p, ExistingRow DEF WriteUpdate, FieldsInv
        <4>2. poll' = [poll EXCEPT ![p] = Written(poll[p], sent[r])]
          BY <3>10, <4>1 DEF WriteUpdate, Written
        <4>3. poll'[p] = Written(poll[p], sent[r])
          BY <4>2 DEF TypeOK
        <4>4. poll'[p].status = poll[p].status /\ poll'[p].options = poll[p].options
          BY <4>1, <4>3, WrittenRow
        <4>5. Exists(p) /\ Exists(p)'
          BY <3>10, <4>1, <4>4 DEF Exists
        <4>6. PICK a \in {"ok", "error"} : Book!Tell(r, a, p)
          BY <3>4, <3>10 DEF WriteUpdate
        <4> QED BY <3>7, <4>2, <4>4, <4>5, <4>6, ReviseStep
      <3>11. CASE WriteUpdate(r) /\ ~Exists(target[r])
        BY <3>6, <3>p, <3>11 DEF WriteUpdate
      <3>12. CASE SelectOptions(r)
        <4>1. poll[p].status # "unused"
          BY <3>12, <3>p DEF SelectOptions, ReaderInv
        <4>2. Answer(r, "got") /\ UNCHANGED poll
          BY <3>12 DEF SelectOptions
        <4> QED BY <3>4, <4>1, <4>2, TellStep
      <3>13. CASE CheckDates(r) \/ SelectPoll(r)
        BY <3>3, <3>5, <3>6, <3>p, <3>13 DEF CheckDates, SelectPoll
      <3>14. CASE InsertOption(r) \/ StatementFails(r)
        BY <3>3, <3>5, <3>14 DEF InsertOption, StatementFails
      <3>15. ASSUME NEW t \in Titles, NEW s \in Date, NEW e \in Date, NEW n \in OptionCounts,
                    Create(r, t, s, e, n)
             PROVE  Book!Next \/ UNCHANGED Book!vars
        BY <3>3, <3>5, <3>15 DEF Create
      <3>16. ASSUME NEW q \in Polls,
                    InsertPoll(r, q) \/ Get(r, q) \/ \E in \in Inputs : Update(r, q, in)
             PROVE  Book!Next \/ UNCHANGED Book!vars
        BY <3>3, <3>5, <3>16 DEF InsertPoll, Get, Update
      <3>17. ASSUME NEW q \in Polls, Delete(r, q) \/ \E s \in Status \cup {"other"} :
                                                         UpdateStatus(r, q, s)
             PROVE  q = p
        BY <3>17, <3>p DEF Delete, UpdateStatus, TypeOK
      <3> QED
        BY <2>2, <3>17, <3>8, <3>9, <3>10, <3>11, <3>12, <3>13, <3>14, <3>15, <3>16 DEF Step
    <2> QED BY <2>1, <2>2, StepOfNext
  <1> QED BY <1>1, <1>2, InvCorrect, PTL DEF Spec, ImplementsBook, Book!Spec
=============================================================================
