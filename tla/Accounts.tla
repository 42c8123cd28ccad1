------------------------------ MODULE Accounts ------------------------------
(***************************************************************************)
(* Accounts, roles and tokens (domain/user/service.go, http/auth_handler.go*)
(* http/user_handler.go, repository/postgres/user_repo.go): registration   *)
(* and login hand out tokens; every other request passes AuthMiddleware,   *)
(* which looks its user up, and RequireRole where only administrators may  *)
(* go on (http/middleware.go, http/router.go), and only then does its      *)
(* handler's statement run.  In between, administrators change roles and   *)
(* deactivate users.                                                       *)
(*                                                                         *)
(* A password stands for its hash: the two agree exactly when they are     *)
(* equal.  What handlers do with polls and votes is the subject of other   *)
(* modules; here they only act on behalf of a user.                        *)
(***************************************************************************)
EXTENDS Naturals, Sequences, FiniteSets

CONSTANTS
    Requests,       \* requests under way at a time
    Emails, Passwords,
    Seed,           \* the e-mail of the administrator the migrations create
    DBFails         \* whether statements may fail, before or after their effect

ASSUME AccountsAssumption == Seed \in Emails /\ DBFails \in BOOLEAN

VARIABLES
    users,          \* the rows of users, at the place of their id
    tokens,         \* the tokens that were handed out
    pc, req, resp,
    \* history
    stood,          \* requests whose sender was entitled to them at some moment
    created         \* the registrations that were answered 201

vars == <<users, tokens, pc, req, resp, stood, created>>

Roles       == {"admin", "user"}
Row         == [email : Emails, password : Passwords, role : Roles, active : BOOLEAN]
Credentials == [email : Emails, password : Passwords]
Token       == [user : Nat \ {0}, role : Roles]

\* What a request with a token asks for: something that every user may do, a new
\* role for a user, or a deactivation.  No user has the id 0.
Ops(ids) == {[op |-> "own"]} \cup [op : {"deactivate"}, to : ids]
                             \cup [op : {"role"}, to : ids, role : Roles]
Call(ids) == [claims : Token, ask : Ops(ids)]

\* Everything but "own" is routed through RequireRole("admin").
ForAdmins(q) == q.ask.op # "own"

Exists(u) == u \in 1..Len(users)
Taken(e)  == \E u \in 1..Len(users) : users[u].email = e

Admin(u) == users[u].active /\ users[u].role = "admin"

\* The requests that carry a token and are not answered yet.
Underway(r) == pc[r] \in {"authorize", "act"}

\* What the rows say now of the sender of request r.
Entitled(r) ==
    LET u == req[r].claims.user
    IN Exists(u) /\ users[u].active /\ (ForAdmins(req[r]) => Admin(u))

Init ==
    /\ \E p \in Passwords :
          users = <<[email |-> Seed, password |-> p, role |-> "admin", active |-> TRUE]>>
    /\ tokens = {}
    /\ pc = [r \in Requests |-> "idle"]
    /\ req = [r \in Requests |-> <<>>]
    /\ resp = [r \in Requests |-> "none"]
    /\ stood = {}
    /\ created = {}
-----------------------------------------------------------------------------
Begin(r, l, q) ==
    /\ pc[r] \in {"idle", "done"}
    /\ pc' = [pc EXCEPT ![r] = l]
    /\ req' = [req EXCEPT ![r] = q]
    /\ resp' = [resp EXCEPT ![r] = "none"]

Goto(r, l, q) ==
    /\ pc' = [pc EXCEPT ![r] = l]
    /\ req' = [req EXCEPT ![r] = q]
    /\ UNCHANGED resp

Answer(r, a) ==
    /\ pc' = [pc EXCEPT ![r] = "done"]
    /\ req' = [req EXCEPT ![r] = <<>>]
    /\ resp' = [resp EXCEPT ![r] = a]

\* Every step shows each request under way what its sender is then.
Witness == stood' = {r \in Requests : Underway(r)' /\ (r \in stood \/ Entitled(r)')}

\* A body that does not parse or lacks a field; a header without a token, or
\* with one that is not ours or is older than 24 hours.  An id or a role that is
\* none is refused behind the middleware; it ends as it begins here, in an answer.
Refuse(r) ==
    /\ pc[r] \in {"idle", "done"}
    /\ \/ Answer(r, "invalid")
       \/ Answer(r, "unauthorized")
    /\ UNCHANGED <<users, tokens, created>>
    /\ Witness

\* The statement before which request r stands fails without effect.
StatementFails(r) ==
    /\ DBFails /\ pc[r] \notin {"idle", "done"}
    /\ Answer(r, "error")
    /\ UNCHANGED <<users, tokens, created>>
    /\ Witness

(* POST /auth/register and POST /auth/login                                *)

Register(r, c) ==
    /\ Begin(r, "lookup", c)
    /\ UNCHANGED <<users, tokens, created>>
    /\ Witness

RegisterLookup(r) ==
    /\ pc[r] = "lookup"
    /\ IF Taken(req[r].email) THEN Answer(r, "taken") ELSE Goto(r, "insert", req[r])
    /\ UNCHANGED <<users, tokens, created>>
    /\ Witness

Sign(u, role) == tokens' = tokens \cup {[user |-> u, role |-> role]}

NewUser(c) == [email |-> c.email, password |-> c.password, role |-> "user",
               active |-> TRUE]

\* INSERT INTO users, where the e-mail is free.
InsertUser(r) ==
    /\ ~Taken(req[r].email)
    /\ users' = Append(users, NewUser(req[r]))
    /\ \/ /\ Sign(Len(users) + 1, "user")
          /\ created' = created \cup {req[r]}
          /\ Answer(r, "created")
       \/ /\ DBFails /\ Answer(r, "error")        \* the reply was lost
          /\ UNCHANGED <<tokens, created>>

\* Mutant: an upsert, which gives the account to the registration that comes last.
RegisterInsertUpserts(r) ==
    /\ pc[r] = "insert"
    /\ \/ InsertUser(r)
       \/ /\ \E u \in 1..Len(users) : /\ users[u].email = req[r].email
                                      /\ users' = [users EXCEPT ![u] = NewUser(req[r])]
                                      /\ Sign(u, "user")
          /\ created' = created \cup {req[r]}
          /\ Answer(r, "created")
    /\ Witness

\* Mutant: the error of the insert is not looked at, and the token is signed for
\* the id 0 that was never scanned.
RegisterInsertUnchecked(r) ==
    /\ pc[r] = "insert"
    /\ \/ InsertUser(r)
       \/ /\ Taken(req[r].email)
          /\ Sign(0, "user")
          /\ Answer(r, "created")
          /\ UNCHANGED <<users, created>>
    /\ Witness

\* The unique key decides between two that both found the e-mail free; Create
\* does not map its error, so the answer is not "taken" but an error.
RegisterInsert(r) ==
    /\ pc[r] = "insert"
    /\ \/ InsertUser(r)
       \/ Taken(req[r].email) /\ Answer(r, "error") /\ UNCHANGED <<users, tokens, created>>
    /\ Witness

Login(r, c) ==
    /\ Begin(r, "login", c)
    /\ UNCHANGED <<users, tokens, created>>
    /\ Witness

\* One read; what follows it, up to the signature, touches nothing shared.
LoginRead(r) ==
    /\ pc[r] = "login"
    /\ \/ \E u \in 1..Len(users) :
             /\ users[u].email = req[r].email /\ users[u].password = req[r].password
             /\ users[u].active
             /\ Sign(u, users[u].role)
             /\ Answer(r, "ok")
       \/ /\ \A u \in 1..Len(users) : users[u].email = req[r].email =>
                ~users[u].active \/ users[u].password # req[r].password
          /\ Answer(r, "unauthorized")
          /\ UNCHANGED tokens
    /\ UNCHANGED <<users, created>>
    /\ Witness

(* Requests with a token                                                   *)

Ask(r, t, ask) ==
    /\ t \in tokens
    /\ Begin(r, "authorize", [claims |-> t, ask |-> ask])
    /\ UNCHANGED <<users, tokens, created>>
    /\ Witness

\* Mutant: the role of the token is taken, not the role of the row.
AuthorizeByClaims(r) ==
    /\ pc[r] = "authorize"
    /\ LET claims == req[r].claims
           known  == Exists(claims.user) /\ users[claims.user].active
       IN \/ ~known /\ Answer(r, "unauthorized")
          \/ known /\ ForAdmins(req[r]) /\ claims.role # "admin" /\ Answer(r, "forbidden")
          \/ known /\ (ForAdmins(req[r]) => claims.role = "admin") /\ Goto(r, "act", req[r])
    /\ UNCHANGED <<users, tokens, created>>
    /\ Witness

\* Mutant: the route is outside of the group that requires the role.
AuthorizeAnyRole(r) ==
    /\ pc[r] = "authorize"
    /\ LET claims == req[r].claims
           known  == Exists(claims.user) /\ users[claims.user].active
       IN \/ ~known /\ Answer(r, "unauthorized")
          \/ known /\ Goto(r, "act", req[r])
    /\ UNCHANGED <<users, tokens, created>>
    /\ Witness

\* AuthMiddleware and RequireRole: the row is read once, and its role replaces
\* the one that the token claims.
Authorize(r) ==
    /\ pc[r] = "authorize"
    /\ LET u     == req[r].claims.user
           known == Exists(u) /\ users[u].active
       IN \/ ~known /\ Answer(r, "unauthorized")
          \/ known /\ ForAdmins(req[r]) /\ ~Admin(u) /\ Answer(r, "forbidden")
          \/ known /\ (ForAdmins(req[r]) => Admin(u))
               /\ Goto(r, "act", [req[r] EXCEPT !.claims.role = users[u].role])
    /\ UNCHANGED <<users, tokens, created>>
    /\ Witness

\* The statement is done, or its reply is lost.
Acted(r) ==
    /\ Answer(r, "ok") \/ (DBFails /\ Answer(r, "error"))
    /\ UNCHANGED <<tokens, created>>
    /\ Witness

Missing(r) ==
    /\ pc[r] = "act" /\ req[r].ask.op # "own" /\ ~Exists(req[r].ask.to)
    /\ Answer(r, "notFound")
    /\ UNCHANGED <<users, tokens, created>>
    /\ Witness

Own(r) == pc[r] = "act" /\ req[r].ask.op = "own" /\ UNCHANGED users /\ Acted(r)

UpdateRole(r) ==
    /\ pc[r] = "act" /\ req[r].ask.op = "role" /\ Exists(req[r].ask.to)
    /\ users' = [users EXCEPT ![req[r].ask.to].role = req[r].ask.role]
    /\ Acted(r)

Deactivate(r) ==
    /\ pc[r] = "act" /\ req[r].ask.op = "deactivate" /\ Exists(req[r].ask.to)
    /\ users' = [users EXCEPT ![req[r].ask.to].active = FALSE]
    /\ Acted(r)

-----------------------------------------------------------------------------
Step(r) ==
    \/ RegisterLookup(r) \/ RegisterInsert(r) \/ LoginRead(r)
    \/ Authorize(r) \/ Missing(r) \/ Own(r) \/ UpdateRole(r) \/ Deactivate(r)
    \/ StatementFails(r)

Next ==
    \E r \in Requests :
        \/ Refuse(r) \/ Step(r)
        \/ \E c \in Credentials : Register(r, c) \/ Login(r, c)
        \/ \E t \in tokens, ask \in Ops(0..Len(users)) : Ask(r, t, ask)

Spec == Init /\ [][Next]_vars
-----------------------------------------------------------------------------
(* Properties.                                                             *)

TypeOK ==
    /\ users \in Seq(Row) /\ created \subseteq Credentials
    /\ tokens \subseteq Token /\ \A t \in tokens : Exists(t.user)
    /\ pc \in [Requests -> {"idle", "lookup", "insert", "login", "authorize", "act",
                            "done"}]
    /\ req \in [Requests -> {<<>>} \cup Credentials \cup Call(Nat)]
    /\ resp \in [Requests -> {"none", "invalid", "unauthorized", "forbidden", "notFound",
                              "taken", "error", "created", "ok"}]
    /\ stood \subseteq Requests
    /\ \A r \in Requests : /\ pc[r] \in {"lookup", "insert", "login"} => req[r] \in Credentials
                           /\ Underway(r) => req[r] \in Call(Nat)

\* However registrations race, an e-mail belongs to one account, and it is the
\* account of the one that was answered 201: its password still opens it, and
\* no other registration of the e-mail was answered 201.
RegistrationIsExclusive ==
    /\ \A u, v \in 1..Len(users) : users[u].email = users[v].email => u = v
    /\ \A c \in created : \E u \in 1..Len(users) :
          users[u].email = c.email /\ users[u].password = c.password

\* What a request does, its sender was entitled to at some moment of the
\* request: a deactivation or a loss of the role that was over when the request
\* came holds against every token, however old.
ActsWithStanding == \A r \in Requests : pc[r] = "act" => r \in stood

\* Nobody is an administrator, and no request of one is still to act.
LockedOut ==
    /\ \A u \in 1..Len(users) : ~Admin(u)
    /\ \A r \in Requests : pc[r] = "act" => ~ForAdmins(req[r])

\* Nobody becomes an administrator but by the hand of one.  The code lets the
\* last one go, too; from then on the system has none for ever.
AdminsComeFromAdmins == [][LockedOut => LockedOut']_vars
=============================================================================
