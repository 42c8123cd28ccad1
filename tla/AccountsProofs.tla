--------------------------- MODULE AccountsProofs ---------------------------
(***************************************************************************)
(* Theorems about Accounts, for any number of requests, e-mails and        *)
(* passwords.  The invariants are inductive together with the types.       *)
(***************************************************************************)
EXTENDS Accounts, SequenceTheorems, TLAPS

\* What concerns the requests only.
RequestsOK ==
    /\ pc \in [Requests -> {"idle", "lookup", "insert", "login", "authorize", "act",
                            "done"}]
    /\ req \in [Requests -> {<<>>} \cup Credentials \cup Call(Nat)]
    /\ resp \in [Requests -> {"none", "invalid", "unauthorized", "forbidden", "notFound",
                              "taken", "error", "created", "ok"}]
    /\ \A r \in Requests : /\ pc[r] \in {"lookup", "insert", "login"} => req[r] \in Credentials
                           /\ Underway(r) => req[r] \in Call(Nat)

\* What concerns the rows and the tokens only.
RowsOK ==
    /\ users \in Seq(Row) /\ created \subseteq Credentials
    /\ tokens \subseteq Token /\ \A t \in tokens : Exists(t.user)

LEMMA TypeParts ==
    /\ TypeOK <=> RequestsOK /\ RowsOK /\ stood \subseteq Requests
    /\ TypeOK' <=> RequestsOK' /\ RowsOK' /\ (stood \subseteq Requests)'
  BY DEF TypeOK, RequestsOK, RowsOK, Exists, Underway

LEMMA AnswerOK ==
    ASSUME RequestsOK, NEW r \in Requests,
           NEW a \in {"invalid", "unauthorized", "forbidden", "notFound", "taken",
                      "error", "created", "ok"},
           Answer(r, a)
    PROVE  RequestsOK'
  BY DEF Answer, RequestsOK, Underway

LEMMA GotoOK ==
    ASSUME RequestsOK, NEW r \in Requests, NEW l, NEW q, Goto(r, l, q),
           \/ l = "insert" /\ q \in Credentials
           \/ l = "act" /\ q \in Call(Nat)
    PROVE  RequestsOK'
  BY DEF Goto, RequestsOK, Underway

LEMMA BeginOK ==
    ASSUME RequestsOK, NEW r \in Requests, NEW l, NEW q, Begin(r, l, q),
           \/ l \in {"lookup", "login"} /\ q \in Credentials
           \/ l = "authorize" /\ q \in Call(Nat)
    PROVE  RequestsOK'
  BY DEF Begin, RequestsOK, Underway

LEMMA TypeInit == Init => TypeOK
  <1> SUFFICES ASSUME Init PROVE TypeOK
    OBVIOUS
  <1>1. PICK p \in Passwords :
          users = <<[email |-> Seed, password |-> p, role |-> "admin", active |-> TRUE]>>
    BY DEF Init
  <1>2. users \in Seq(Row)
    BY <1>1, AccountsAssumption DEF Row, Roles
  <1> QED BY <1>2 DEF Init, TypeOK, Underway

\* A new row has a token, and the tokens that were there keep their rows.
LEMMA InsertOK ==
    ASSUME RequestsOK, RowsOK, NEW r \in Requests, pc[r] = "insert", InsertUser(r)
    PROVE  RequestsOK' /\ RowsOK'
  <1>1. req[r] \in Credentials
    BY DEF RequestsOK
  <1>2. NewUser(req[r]) \in Row
    BY <1>1 DEF NewUser, Credentials, Row, Roles
  <1>3. users' = Append(users, NewUser(req[r])) /\ users \in Seq(Row)
    BY DEF InsertUser, RowsOK
  <1>4. users' \in Seq(Row) /\ Len(users') = Len(users) + 1 /\ Len(users) \in Nat
    BY <1>2, <1>3
  <1>5. created' \subseteq Credentials
    BY <1>1 DEF InsertUser, RowsOK
  <1>6. tokens' \subseteq Token
    BY <1>4 DEF InsertUser, RowsOK, Sign, Token, Roles
  <1>7. \A t \in tokens' : Exists(t.user)'
    BY <1>4 DEF InsertUser, RowsOK, Sign, Exists
  <1>8. RequestsOK'
    BY AnswerOK DEF InsertUser
  <1> QED BY <1>4, <1>5, <1>6, <1>7, <1>8 DEF RowsOK

\* A row that is changed stays a row.
LEMMA UpdateOK ==
    ASSUME RequestsOK, RowsOK, NEW r \in Requests, UpdateRole(r) \/ Deactivate(r)
    PROVE  RequestsOK' /\ RowsOK'
  <1> DEFINE u == req[r].ask.to
  <1>1. req[r] \in Call(Nat) /\ u \in 1..Len(users)
    BY DEF RequestsOK, Underway, UpdateRole, Deactivate, Exists
  <1>0. users[u] \in Row
    BY <1>1 DEF RowsOK
  <1>2. CASE UpdateRole(r)
    <2>1. req[r].ask.role \in Roles
      BY <1>1, <1>2 DEF UpdateRole, Call, Ops
    <2>2. [users[u] EXCEPT !.role = req[r].ask.role] \in Row
      BY <1>0, <2>1 DEF Row
    <2>3. users' = [users EXCEPT ![u] = [users[u] EXCEPT !.role = req[r].ask.role]]
      BY <1>2 DEF UpdateRole
    <2>4. users' \in Seq(Row) /\ Len(users') = Len(users)
      BY <1>1, <2>2, <2>3, ExceptSeq DEF RowsOK
    <2> QED BY <1>2, <2>4, AnswerOK DEF UpdateRole, Acted, RowsOK, Exists
  <1>3. CASE Deactivate(r)
    <2>1. [users[u] EXCEPT !.active = FALSE] \in Row
      BY <1>0 DEF Row
    <2>2. users' = [users EXCEPT ![u] = [users[u] EXCEPT !.active = FALSE]]
      BY <1>3 DEF Deactivate
    <2>3. users' \in Seq(Row) /\ Len(users') = Len(users)
      BY <1>1, <2>1, <2>2, ExceptSeq DEF RowsOK
    <2> QED BY <1>3, <2>3, AnswerOK DEF Deactivate, Acted, RowsOK, Exists
  <1> QED BY <1>2, <1>3

LEMMA AuthorizeOK ==
    ASSUME RequestsOK, RowsOK, NEW r \in Requests, Authorize(r)
    PROVE  RequestsOK' /\ RowsOK'
  <1> DEFINE u == req[r].claims.user
             q == [req[r] EXCEPT !.claims.role = users[u].role]
  <1>1. req[r] \in Call(Nat)
    BY DEF RequestsOK, Underway, Authorize
  <1>2. RowsOK'
    BY DEF Authorize, RowsOK, Exists
  <1>3. ASSUME Exists(u) PROVE q \in Call(Nat)
    <2>1. users[u] \in Row
      BY <1>3 DEF RowsOK, Exists
    <2>2. users[u].role \in Roles
      BY <2>1 DEF Row
    <2> QED BY <1>1, <2>2 DEF Call, Token
  <1>4. RequestsOK'
    BY <1>3, AnswerOK, GotoOK DEF Authorize
  <1> QED BY <1>2, <1>4

LEMMA TypeStep == TypeOK /\ [Next]_vars => TypeOK'
  <1> SUFFICES ASSUME RequestsOK, RowsOK, stood \subseteq Requests, [Next]_vars
               PROVE  RequestsOK' /\ RowsOK' /\ (stood \subseteq Requests)'
    BY TypeParts
  <1>1. CASE UNCHANGED vars
    BY <1>1 DEF vars, RequestsOK, RowsOK, Underway, Exists
  <1>2. CASE Next
    <2>1. PICK r \in Requests :
            \/ Refuse(r) \/ Step(r)
            \/ \E c \in Credentials : Register(r, c) \/ Login(r, c)
            \/ \E t \in tokens, ask \in Ops(0..Len(users)) : Ask(r, t, ask)
      BY <1>2 DEF Next
    <2>2. Witness => (stood \subseteq Requests)'
      BY DEF Witness
    <2>3. UNCHANGED <<users, tokens, created>> => RowsOK'
      BY DEF RowsOK, Exists
    <2>4. CASE Refuse(r) \/ StatementFails(r) \/ Missing(r)
      BY <2>2, <2>3, <2>4, AnswerOK DEF Refuse, StatementFails, Missing
    <2>5. CASE Own(r)
      BY <2>2, <2>3, <2>5, AnswerOK DEF Own, Acted
    <2>6. CASE \E c \in Credentials : Register(r, c) \/ Login(r, c)
      BY <2>2, <2>3, <2>6, BeginOK DEF Register, Login
    <2>7. CASE \E t \in tokens, ask \in Ops(0..Len(users)) : Ask(r, t, ask)
      <3>1. PICK t \in tokens, ask \in Ops(0..Len(users)) : Ask(r, t, ask)
        BY <2>7
      <3>2. [claims |-> t, ask |-> ask] \in Call(Nat)
        BY DEF Call, Ops, RowsOK
      <3> QED BY <2>2, <2>3, <3>1, <3>2, BeginOK DEF Ask
    <2>8. CASE RegisterLookup(r)
      <3>1. req[r] \in Credentials
        BY <2>8 DEF RegisterLookup, RequestsOK
      <3>2. RequestsOK'
        <4>1. CASE Taken(req[r].email)
          BY <2>8, <4>1, AnswerOK DEF RegisterLookup
        <4>2. CASE ~Taken(req[r].email)
          <5>1. Goto(r, "insert", req[r])
            BY <2>8, <4>2 DEF RegisterLookup
          <5> QED BY <3>1, <5>1 DEF Goto, RequestsOK, Underway
        <4> QED BY <4>1, <4>2
      <3> QED BY <2>2, <2>3, <2>8, <3>2 DEF RegisterLookup
    <2>9. CASE RegisterInsert(r)
      BY <2>2, <2>3, <2>9, AnswerOK, InsertOK DEF RegisterInsert
    <2>10. CASE LoginRead(r)
      <3>1. RowsOK'
        <4>1. \A u \in 1..Len(users) : users[u] \in Row /\ u \in Nat \ {0}
          BY DEF RowsOK
        <4>2. \A u \in 1..Len(users) : users[u].role \in Roles
          BY <4>1 DEF Row
        <4> QED BY <2>3, <2>10, <4>1, <4>2 DEF LoginRead, Sign, RowsOK, Token, Exists
      <3> QED BY <2>2, <2>10, <3>1, AnswerOK DEF LoginRead
    <2>11. CASE Authorize(r)
      BY <2>2, <2>11, AuthorizeOK DEF Authorize
    <2>12. CASE UpdateRole(r) \/ Deactivate(r)
      BY <2>2, <2>12, UpdateOK DEF UpdateRole, Deactivate, Acted
    <2> QED
      BY <2>1, <2>4, <2>5, <2>6, <2>7, <2>8, <2>9, <2>10, <2>11, <2>12 DEF Step
  <1> QED BY <1>1, <1>2

\* Every state has the types TypeOK gives its variables; in particular no token
\* names a user that has no row.
THEOREM AccountsTypeCorrect == Spec => []TypeOK
  BY TypeInit, TypeStep, PTL DEF Spec
-----------------------------------------------------------------------------
\* An e-mail keeps its password, and a new row has one that was free.
LEMMA ExclusiveInit == Init => RegistrationIsExclusive
  BY DEF Init, RegistrationIsExclusive

LEMMA ExclusiveStep ==
    TypeOK /\ RegistrationIsExclusive /\ [Next]_vars => RegistrationIsExclusive'
  <1> SUFFICES ASSUME TypeOK, RegistrationIsExclusive, [Next]_vars
               PROVE  RegistrationIsExclusive'
    OBVIOUS
  <1>1. users \in Seq(Row) /\ Len(users) \in Nat
    BY DEF TypeOK
  <1>2. CASE UNCHANGED <<users, created>>
    BY <1>2 DEF RegistrationIsExclusive
  <1>3. ASSUME NEW r \in Requests, pc[r] = "insert", InsertUser(r)
        PROVE  RegistrationIsExclusive'
    <2>1. req[r] \in Credentials /\ NewUser(req[r]) \in Row
      BY <1>3 DEF TypeOK, NewUser, Credentials, Row, Roles
    <2>2. users' = Append(users, NewUser(req[r]))
      BY <1>3 DEF InsertUser
    <2>3. /\ Len(users') = Len(users) + 1
          /\ \A i \in 1..Len(users) : users'[i] = users[i]
          /\ users'[Len(users) + 1] = NewUser(req[r])
      BY <1>1, <2>1, <2>2
    <2>4. /\ NewUser(req[r]).email = req[r].email
          /\ NewUser(req[r]).password = req[r].password
      BY DEF NewUser
    <2>5. \A u \in 1..Len(users) : users[u].email # req[r].email
      BY <1>3 DEF InsertUser, Taken
    <2>6. created' \subseteq created \cup {req[r]}
      BY <1>3 DEF InsertUser
    <2>7. \A u, v \in 1..Len(users') : users'[u].email = users'[v].email => u = v
      <3> SUFFICES ASSUME NEW u \in 1..Len(users'), NEW v \in 1..Len(users'),
                          users'[u].email = users'[v].email
                   PROVE  u = v
        OBVIOUS
      <3>1. CASE u \in 1..Len(users) /\ v \in 1..Len(users)
        BY <2>3, <3>1 DEF RegistrationIsExclusive
      <3>2. CASE u = Len(users) + 1 \/ v = Len(users) + 1
        BY <1>1, <2>3, <2>4, <2>5, <3>2
      <3> QED BY <1>1, <2>3, <3>1, <3>2
    <2>8. ASSUME NEW c \in created'
          PROVE  \E u \in 1..Len(users') :
                    users'[u].email = c.email /\ users'[u].password = c.password
      <3>1. CASE c = req[r]
        BY <1>1, <2>3, <2>4, <3>1
      <3>2. CASE c \in created
        <4>1. PICK u \in 1..Len(users) :
                users[u].email = c.email /\ users[u].password = c.password
          BY <3>2 DEF RegistrationIsExclusive
        <4> QED BY <1>1, <2>3, <4>1
      <3> QED BY <2>6, <3>1, <3>2
    <2> QED BY <2>7, <2>8 DEF RegistrationIsExclusive
  <1>4. ASSUME NEW r \in Requests, UpdateRole(r) \/ Deactivate(r)
        PROVE  RegistrationIsExclusive'
    <2>1. /\ Len(users') = Len(users)
          /\ \A i \in 1..Len(users) : /\ users'[i].email = users[i].email
                                      /\ users'[i].password = users[i].password
      <3> DEFINE u == req[r].ask.to
      <3>1. u \in 1..Len(users)
        BY <1>4 DEF UpdateRole, Deactivate, Exists
      <3>2. \A i \in 1..Len(users) : users[i] \in Row
        BY <1>1
      <3>3. CASE UpdateRole(r)
        <4> DEFINE row == [users[u] EXCEPT !.role = req[r].ask.role]
        <4>1. users' = [users EXCEPT ![u] = row]
          BY <3>3 DEF UpdateRole
        <4>2. row.email = users[u].email /\ row.password = users[u].password
          BY <3>1, <3>2 DEF Row
        <4> HIDE DEF row, u
        <4> QED BY <1>1, <3>1, <4>1, <4>2
      <3>4. CASE Deactivate(r)
        <4> DEFINE row == [users[u] EXCEPT !.active = FALSE]
        <4>1. users' = [users EXCEPT ![u] = row]
          BY <3>4 DEF Deactivate
        <4>2. row.email = users[u].email /\ row.password = users[u].password
          BY <3>1, <3>2 DEF Row
        <4> HIDE DEF row, u
        <4> QED BY <1>1, <3>1, <4>1, <4>2
      <3> QED BY <1>4, <3>3, <3>4
    <2>2. created' = created
      BY <1>4 DEF UpdateRole, Deactivate, Acted
    <2> QED BY <2>1, <2>2 DEF RegistrationIsExclusive
  <1>5. [Next]_vars => \/ UNCHANGED <<users, created>>
                       \/ \E r \in Requests : \/ pc[r] = "insert" /\ InsertUser(r)
                                              \/ UpdateRole(r) \/ Deactivate(r)
    BY DEF Next, vars, Refuse, Step, Register, Login, Ask, RegisterLookup, RegisterInsert,
           LoginRead, Authorize, Missing, Own, StatementFails, Acted
  <1> QED BY <1>2, <1>3, <1>4, <1>5

\* However registrations interleave, between the look-up and the insert too, an
\* e-mail has one account, and it opens with the password of the registration
\* that was answered 201 (Service.Register, UserRepo.Create).
THEOREM RegistrationCorrect == Spec => []RegistrationIsExclusive
  <1>1. Init => TypeOK /\ RegistrationIsExclusive
    BY TypeInit, ExclusiveInit
  <1>2. TypeOK /\ RegistrationIsExclusive /\ [Next]_vars
          => (TypeOK /\ RegistrationIsExclusive)'
    BY TypeStep, ExclusiveStep
  <1> QED BY <1>1, <1>2, PTL DEF Spec
-----------------------------------------------------------------------------
\* A step moves one request; only Authorize takes one to its statement.
LEMMA OneMoves ==
    ASSUME TypeOK, Next
    PROVE  \E r \in Requests :
              /\ \A x \in Requests \ {r} : pc'[x] = pc[x] /\ req'[x] = req[x]
              /\ pc'[r] = "act" => Authorize(r)
              /\ Witness
  <1>1. PICK r \in Requests :
          \/ Refuse(r) \/ Step(r)
          \/ \E c \in Credentials : Register(r, c) \/ Login(r, c)
          \/ \E t \in tokens, ask \in Ops(0..Len(users)) : Ask(r, t, ask)
    BY DEF Next
  <1>2. /\ pc \in [Requests -> {"idle", "lookup", "insert", "login", "authorize", "act",
                                "done"}]
        /\ req \in [Requests -> {<<>>} \cup Credentials \cup Call(Nat)]
    BY DEF TypeOK
  <1>3. ASSUME NEW a, Answer(r, a)
        PROVE  /\ \A x \in Requests \ {r} : pc'[x] = pc[x] /\ req'[x] = req[x]
               /\ pc'[r] # "act"
    BY <1>2, <1>3 DEF Answer
  <1>4. ASSUME NEW l, NEW q, Begin(r, l, q) \/ Goto(r, l, q)
        PROVE  /\ \A x \in Requests \ {r} : pc'[x] = pc[x] /\ req'[x] = req[x]
               /\ pc'[r] = l
    BY <1>2, <1>4 DEF Begin, Goto
  <1> DEFINE Moved == /\ \A x \in Requests \ {r} : pc'[x] = pc[x] /\ req'[x] = req[x]
                      /\ pc'[r] = "act" => Authorize(r)
                      /\ Witness
  <1>5. CASE Refuse(r) \/ StatementFails(r) \/ Missing(r)
    BY <1>3, <1>5 DEF Refuse, StatementFails, Missing
  <1>6. CASE Own(r) \/ UpdateRole(r) \/ Deactivate(r)
    BY <1>3, <1>6 DEF Own, UpdateRole, Deactivate, Acted
  <1>7. CASE \E c \in Credentials : Register(r, c) \/ Login(r, c)
    BY <1>4, <1>7 DEF Register, Login
  <1>8. CASE \E t \in tokens, ask \in Ops(0..Len(users)) : Ask(r, t, ask)
    BY <1>4, <1>8 DEF Ask
  <1>9. CASE RegisterLookup(r)
    BY <1>3, <1>4, <1>9 DEF RegisterLookup
  <1>10. CASE RegisterInsert(r)
    BY <1>3, <1>10 DEF RegisterInsert, InsertUser
  <1>11. CASE LoginRead(r)
    BY <1>3, <1>11 DEF LoginRead
  <1>12. CASE Authorize(r)
    <2>1. Witness
      BY <1>12 DEF Authorize
    <2>2. \A x \in Requests \ {r} : pc'[x] = pc[x] /\ req'[x] = req[x]
      BY <1>3, <1>4, <1>12 DEF Authorize
    <2> QED BY <1>12, <2>1, <2>2
  <1> QED
    BY <1>1, <1>5, <1>6, <1>7, <1>8, <1>9, <1>10, <1>11, <1>12 DEF Step

\* Whoever passes the middleware is, right then, what the rows say of him.
LEMMA AuthorizeEntitles ==
    ASSUME TypeOK, NEW r \in Requests, Authorize(r), pc'[r] = "act"
    PROVE  Entitled(r)'
  <1> DEFINE u == req[r].claims.user
             q == [req[r] EXCEPT !.claims.role = users[u].role]
  <1>1. /\ pc \in [Requests -> {"idle", "lookup", "insert", "login", "authorize", "act",
                                "done"}]
        /\ req \in [Requests -> {<<>>} \cup Credentials \cup Call(Nat)]
        /\ req[r] \in Call(Nat)
    BY DEF TypeOK, Underway, Authorize
  <1>2. ASSUME NEW a, Answer(r, a)
        PROVE  FALSE
    BY <1>1, <1>2 DEF Answer
  <1>3. /\ Exists(u) /\ users[u].active /\ (ForAdmins(req[r]) => Admin(u))
        /\ Goto(r, "act", q) /\ users' = users
    BY <1>2 DEF Authorize
  <1>4. req'[r] = q
    BY <1>1, <1>3 DEF Goto
  <1>5. q.claims.user = u /\ q.ask = req[r].ask
    BY <1>1 DEF Call, Token
  <1>6. req'[r].claims.user = u /\ req'[r].ask = req[r].ask
    BY <1>4, <1>5
  <1> HIDE DEF u, q
  <1> QED BY <1>3, <1>6 DEF Entitled, ForAdmins, Admin, Exists

LEMMA StandingStep ==
    TypeOK /\ ActsWithStanding /\ [Next]_vars => ActsWithStanding'
  <1> SUFFICES ASSUME TypeOK, ActsWithStanding, [Next]_vars PROVE ActsWithStanding'
    OBVIOUS
  <1>1. CASE UNCHANGED vars
    BY <1>1 DEF vars, ActsWithStanding
  <1>2. CASE Next
    <2>1. PICK r \in Requests :
              /\ \A x \in Requests \ {r} : pc'[x] = pc[x] /\ req'[x] = req[x]
              /\ pc'[r] = "act" => Authorize(r)
              /\ Witness
      BY <1>2, OneMoves
    <2>2. ASSUME NEW x \in Requests, pc'[x] = "act"
          PROVE  x \in stood'
      <3>1. Underway(x)'
        BY <2>2 DEF Underway
      <3>2. CASE x = r
        BY <2>1, <2>2, <3>1, <3>2, AuthorizeEntitles DEF Witness
      <3>3. CASE x # r
        BY <2>1, <2>2, <3>1, <3>3 DEF Witness, ActsWithStanding
      <3> QED BY <3>2, <3>3
    <2> QED BY <2>2 DEF ActsWithStanding
  <1> QED BY <1>1, <1>2

\* A request acts only if its sender was active, and an administrator where that
\* is asked for, at some moment of the request, whatever the age of the token and
\* whoever was deactivated or demoted before (AuthMiddleware, RequireRole).
THEOREM StandingIsChecked == Spec => []ActsWithStanding
  <1>1. Init => TypeOK /\ ActsWithStanding
    BY TypeInit DEF Init, ActsWithStanding
  <1>2. TypeOK /\ ActsWithStanding /\ [Next]_vars => (TypeOK /\ ActsWithStanding)'
    BY TypeStep, StandingStep
  <1> QED BY <1>1, <1>2, PTL DEF Spec
-----------------------------------------------------------------------------
\* With nobody an administrator and no administrator's request to act, a new row
\* is a user's, and no role is given out.
LEMMA LockedOutRows ==
    ASSUME TypeOK, LockedOut, Next
    PROVE  \A u \in 1..Len(users') : ~(users'[u].active /\ users'[u].role = "admin")
  <1>1. users \in Seq(Row) /\ Len(users) \in Nat
    BY DEF TypeOK
  <1>2. \A u \in 1..Len(users) : ~(users[u].active /\ users[u].role = "admin")
    BY DEF LockedOut, Admin
  <1>3. CASE UNCHANGED users
    BY <1>2, <1>3
  <1>4. ASSUME NEW r \in Requests, UpdateRole(r) \/ Deactivate(r)
        PROVE  FALSE
    BY <1>4 DEF UpdateRole, Deactivate, LockedOut, ForAdmins
  <1>5. ASSUME NEW r \in Requests, pc[r] = "insert", InsertUser(r)
        PROVE  \A u \in 1..Len(users') : ~(users'[u].active /\ users'[u].role = "admin")
    <2>1. NewUser(req[r]) \in Row /\ NewUser(req[r]).role = "user"
      BY <1>5 DEF TypeOK, NewUser, Credentials, Row, Roles
    <2>2. users' = Append(users, NewUser(req[r]))
      BY <1>5 DEF InsertUser
    <2>3. /\ Len(users') = Len(users) + 1
          /\ \A i \in 1..Len(users) : users'[i] = users[i]
          /\ users'[Len(users) + 1] = NewUser(req[r])
      BY <1>1, <2>1, <2>2
    <2> QED BY <1>1, <1>2, <2>1, <2>3
  <1>6. \/ UNCHANGED users
        \/ \E r \in Requests : \/ pc[r] = "insert" /\ InsertUser(r)
                               \/ UpdateRole(r) \/ Deactivate(r)
    BY DEF Next, Refuse, Step, Register, Login, Ask, RegisterLookup, RegisterInsert,
           LoginRead, Authorize, Missing, Own, StatementFails
  <1> QED BY <1>3, <1>4, <1>5, <1>6

LEMMA LockedOutStep == TypeOK /\ LockedOut /\ [Next]_vars => LockedOut'
  <1> SUFFICES ASSUME TypeOK, LockedOut, [Next]_vars PROVE LockedOut'
    OBVIOUS
  <1>1. CASE UNCHANGED vars
    BY <1>1 DEF vars, LockedOut, Admin, ForAdmins
  <1>2. CASE Next
    <2>1. \A u \in 1..Len(users') : ~Admin(u)'
      BY <1>2, LockedOutRows DEF Admin
    <2>2. PICK r \in Requests :
              /\ \A x \in Requests \ {r} : pc'[x] = pc[x] /\ req'[x] = req[x]
              /\ pc'[r] = "act" => Authorize(r)
              /\ Witness
      BY <1>2, OneMoves
    <2>3. ASSUME NEW x \in Requests, pc'[x] = "act", ForAdmins(req'[x])
          PROVE  FALSE
      <3>1. CASE x = r
        <4>1. Entitled(r)'
          BY <2>2, <2>3, <3>1, AuthorizeEntitles
        <4> QED BY <2>1, <2>3, <3>1, <4>1 DEF Entitled, Exists, ForAdmins
      <3>2. CASE x # r
        BY <2>2, <2>3, <3>2 DEF LockedOut
      <3> QED BY <3>1, <3>2
    <2> QED BY <2>1, <2>3 DEF LockedOut, ForAdmins
  <1> QED BY <1>1, <1>2

\* Nobody becomes an administrator but through one: registration never makes
\* one, and once the last is gone there is none for ever (Register, UpdateRole).
THEOREM AdminsOnlyFromAdmins == Spec => AdminsComeFromAdmins
  <1>1. TypeOK /\ [Next]_vars => [LockedOut => LockedOut']_vars
    BY LockedOutStep
  <1> QED BY <1>1, TypeInit, TypeStep, PTL DEF Spec, AdminsComeFromAdmins
=============================================================================
