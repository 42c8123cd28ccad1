------------------------------ MODULE Transfer ------------------------------
(***************************************************************************)
(* TransferBalance of go-practice4/main.go: a transaction that locks the   *)
(* rows of two users, checks the sender's balance and moves the amount.    *)
(* Concurrent calls meet at the rows of PostgreSQL, which is modelled from *)
(* what the statements ask of it: SELECT ... FOR UPDATE locks the rows it  *)
(* finds one by one, in the order of its scan, and reads the balance of a  *)
(* row once it has locked it; a transaction's writes are seen when it      *)
(* commits; a transaction on a cycle of waits is aborted.                  *)
(*                                                                         *)
(* Amounts and balances are in halves of a cent (Bank says why).           *)
(***************************************************************************)
EXTENDS Integers, FiniteSets, FiniteSetsExt

CONSTANTS
    Calls,          \* the calls of TransferBalance
    Accounts,       \* the ids of the rows in users
    Strangers,      \* ids that no row has
    Amounts,        \* the amounts asked for, 0 and fractions of a cent included
    MaxBalance,     \* bound: what an account holds at first
    Nobody

Ids == Accounts \cup Strangers
Job == [from : Ids, to : Ids, amount : Amounts]

ASSUME TransferAssumption ==
    /\ IsFiniteSet(Accounts)
    /\ Amounts \subseteq Nat
    /\ MaxBalance \in Nat
    /\ Nobody \notin Calls

VARIABLES
    balance,        \* users.balance, as committed
    lockedBy,       \* the transaction that holds each row
    pc, job,        \* the calls and their arguments
    toLock,         \* the rows SELECT ... FOR UPDATE has yet to lock
    fromBal,        \* the balance it read for the sender
    written,        \* the rows the transaction has updated
    result,         \* what the call returned
    \* history
    initial, moved  \* the first balances; the calls whose transaction committed

txVars == <<pc, job, toLock, fromBal, written>>
vars   == <<balance, lockedBy, txVars, result, initial, moved>>

B == INSTANCE Bank

Holds(t) == {a \in Accounts : lockedBy[a] = t}
Active(t) == pc[t] \notin {"idle", "done"}

\* t waits for s: what is left to lock is one row, and s holds it.
WaitsFor(t, s) == pc[t] = "lock" /\ \E a \in Accounts : toLock[t] = {a} /\ lockedBy[a] = s

\* The detector of PostgreSQL: everybody in D waits for another and is waited for.
OnCycle(t) ==
    \E D \in SUBSET Calls :
        /\ t \in D
        /\ \A x \in D : \E y \in D : WaitsFor(x, y)
        /\ \A y \in D : \E x \in D : WaitsFor(x, y)

Init ==
    /\ balance \in [Accounts -> {B!Round(x) : x \in 0..MaxBalance}]
    /\ initial = balance
    /\ lockedBy = [a \in Accounts |-> Nobody]
    /\ pc = [t \in Calls |-> "idle"]
    /\ job \in [Calls -> Job]
    /\ toLock = [t \in Calls |-> {}]
    /\ fromBal = [t \in Calls |-> 0]
    /\ written = [t \in Calls |-> {}]
    /\ result = [t \in Calls |-> "none"]
    /\ moved = {}
-----------------------------------------------------------------------------
Goto(t, l) == pc' = [pc EXCEPT ![t] = l]

\* Every return passes the deferred Rollback, which gives the locks back.
Return(t, r) ==
    /\ Goto(t, "done")
    /\ result' = [result EXCEPT ![t] = r]
    /\ lockedBy' = [a \in Accounts |-> IF lockedBy[a] = t THEN Nobody ELSE lockedBy[a]]
    /\ toLock' = [toLock EXCEPT ![t] = {}]
    /\ fromBal' = [fromBal EXCEPT ![t] = 0]
    /\ written' = [written EXCEPT ![t] = {}]
    /\ UNCHANGED <<job, initial>>

\* The two checks that need no transaction.
Refuse(t) ==
    /\ pc[t] = "idle"
    /\ job[t].amount <= 0 \/ job[t].from = job[t].to
    /\ Return(t, "invalid")
    /\ UNCHANGED <<balance, moved>>

\* Beginx, and the scan of SELECT: ids without a row are simply not found.
\* Sorting the ids decides which is $1 and which $2, not which is met first.
Select(t) ==
    /\ pc[t] = "idle"
    /\ job[t].amount > 0 /\ job[t].from # job[t].to
    /\ Goto(t, "lock")
    /\ toLock' = [toLock EXCEPT ![t] = {job[t].from, job[t].to} \cap Accounts]
    /\ UNCHANGED <<balance, lockedBy, job, fromBal, written, result, initial, moved>>

\* Mutant: the SELECT without FOR UPDATE.
ReadUnlocked(t, a) ==
    /\ pc[t] = "lock" /\ a \in toLock[t]
    /\ toLock' = [toLock EXCEPT ![t] = @ \ {a}]
    /\ fromBal' = [fromBal EXCEPT ![t] = IF a = job[t].from THEN balance[a] ELSE @]
    /\ UNCHANGED <<balance, lockedBy, pc, job, written, result, initial, moved>>

LockRow(t, a) ==
    /\ pc[t] = "lock" /\ a \in toLock[t]
    /\ lockedBy[a] = Nobody
    /\ lockedBy' = [lockedBy EXCEPT ![a] = t]
    /\ toLock' = [toLock EXCEPT ![t] = @ \ {a}]
    /\ fromBal' = [fromBal EXCEPT ![t] = IF a = job[t].from THEN balance[a] ELSE @]
    /\ UNCHANGED <<balance, pc, job, written, result, initial, moved>>

\* Mutant: a return that the deferred Rollback does not cover.
CheckLeaksLocks(t) ==
    /\ pc[t] = "lock" /\ toLock[t] = {}
    /\ IF {job[t].from, job[t].to} \subseteq Accounts /\ fromBal[t] >= job[t].amount
         THEN Goto(t, "debit") /\ UNCHANGED result
         ELSE Goto(t, "done") /\ result' = [result EXCEPT ![t] = "refused"]
    /\ UNCHANGED <<balance, lockedBy, job, toLock, fromBal, written, initial, moved>>

\* The SELECT is through: two rows, and enough money in the sender's.
Check(t) ==
    /\ pc[t] = "lock" /\ toLock[t] = {}
    /\ IF {job[t].from, job[t].to} \subseteq Accounts /\ fromBal[t] >= job[t].amount
         THEN Goto(t, "debit")
              /\ UNCHANGED <<lockedBy, job, toLock, fromBal, written, result, initial>>
         ELSE Return(t, "refused")
    /\ UNCHANGED <<balance, moved>>

Write(t, a, l) ==
    /\ written' = [written EXCEPT ![t] = @ \cup {a}]
    /\ Goto(t, l)
    /\ UNCHANGED <<balance, lockedBy, job, toLock, fromBal, result, initial, moved>>

Debit(t)  == pc[t] = "debit" /\ Write(t, job[t].from, "credit")

\* Mutant: the error of the second UPDATE is not looked at.
CreditUnchecked(t) ==
    /\ pc[t] = "credit"
    /\ \/ Write(t, job[t].to, "commit")
       \/ /\ Goto(t, "commit")
          /\ UNCHANGED <<balance, lockedBy, job, toLock, fromBal, written, result,
                         initial, moved>>

Credit(t) == pc[t] = "credit" /\ Write(t, job[t].to, "commit")

\* Mutant: the error of Commit is not looked at.
CommitUnchecked(t) ==
    /\ pc[t] = "commit"
    /\ UNCHANGED <<balance, moved>>
    /\ Return(t, "ok")

\* A NUMERIC(12,2) column rounds what is written to it.
Commit(t) ==
    /\ pc[t] = "commit"
    /\ balance' = [a \in Accounts |->
                     IF a \notin written[t] THEN balance[a]
                     ELSE IF a = job[t].from THEN B!Round(balance[a] - job[t].amount)
                                             ELSE B!Round(balance[a] + job[t].amount)]
    /\ moved' = moved \cup {t}
    /\ \/ Return(t, "ok")
       \/ Return(t, "error")        \* committed, but the reply was lost

\* A statement fails, or Commit does without effect.
Fail(t) == Active(t) /\ Return(t, "error") /\ UNCHANGED <<balance, moved>>

Detect(t) == OnCycle(t) /\ Return(t, "deadlock") /\ UNCHANGED <<balance, moved>>

\* Where the call has to go next if nothing fails.
Proceed(t) ==
    \/ Refuse(t) \/ Select(t) \/ (\E a \in Accounts : LockRow(t, a))
    \/ Check(t) \/ Debit(t) \/ Credit(t) \/ Commit(t) \/ Detect(t)

Next == \E t \in Calls : Proceed(t) \/ Fail(t)

Spec == Init /\ [][Next]_vars

\* PostgreSQL answers every statement and detects every cycle.
FairSpec == Spec /\ \A t \in Calls : WF_vars(Proceed(t))
-----------------------------------------------------------------------------
(* Properties.                                                             *)

TypeOK ==
    /\ balance \in [Accounts -> Nat] /\ initial \in [Accounts -> Nat]
    /\ lockedBy \in [Accounts -> Calls \cup {Nobody}]
    /\ pc \in [Calls -> {"idle", "lock", "debit", "credit", "commit", "done"}]
    /\ job \in [Calls -> Job]
    /\ toLock \in [Calls -> SUBSET Accounts]
    /\ fromBal \in [Calls -> Nat]
    /\ written \in [Calls -> SUBSET Accounts]
    /\ result \in [Calls -> {"none", "invalid", "refused", "error", "deadlock", "ok"}]
    /\ moved \subseteq Calls

Sum(f) == MapThenSumSet(LAMBDA a : f[a], Accounts)

\* Concurrent transfers neither create nor destroy money, but for amounts that
\* end in half a cent: both columns round up, which creates a cent each time.
MoneyConserved ==
    LET uneven == {t \in moved : job[t].amount % 2 = 1}
    IN Sum(balance) = Sum(initial) + 2 * Cardinality(uneven)

\* What the caller is told agrees with what happened, unless the reply to
\* COMMIT was lost: then an error may stand for money that was moved.
AnswerIsTrue ==
    \A t \in Calls : /\ result[t] = "ok" => t \in moved
                     /\ t \in moved => result[t] \in {"ok", "error"}

\* Every transfer is one step of Bank: enough money at the moment it moves,
\* both rows at once, and nothing in between to be seen.
ImplementsBank == B!Spec

\* Nobody waits for ever, though transfers may lock the same rows in opposite
\* orders: every call returns.
EveryCallReturns == \A t \in Calls : Active(t) ~> pc[t] = "done"

\* main.go: rows are always locked in one order so as not to meet a deadlock.
NoDeadlock == \A t \in Calls : ~OnCycle(t)
=============================================================================
