--------------------------- MODULE TransferProofs ---------------------------
(***************************************************************************)
(* TransferBalance implements Bank, for any number of calls, accounts and  *)
(* amounts: every step that changes a balance moves one amount from a row  *)
(* that holds enough of it.  The argument is about locks: a row that a     *)
(* transaction has locked keeps the balance the transaction has read,      *)
(* because only the holder of its lock writes it.                          *)
(* The second part is about the sum of all balances, which transfers keep  *)
(* but for the half cents that both rows round up; the third about         *)
(* progress: there is always a call that can go on, and none goes on for   *)
(* ever.                                                                   *)
(***************************************************************************)
EXTENDS Transfer, FiniteSetTheorems, TLAPS

Rows(t) == {job[t].from, job[t].to} \cap Accounts

\* What t has locked, and that it knows the balance of the sender's row.
Locked(t) ==
    /\ \A a \in Accounts : lockedBy[a] = t => a \in Rows(t) /\ Active(t)
    /\ Active(t) =>
          /\ job[t].from # job[t].to /\ job[t].amount > 0
          /\ toLock[t] \subseteq Rows(t) /\ \A a \in toLock[t] : lockedBy[a] # t
          /\ \A a \in Rows(t) \ toLock[t] : lockedBy[a] = t
          /\ job[t].from \in Rows(t) \ toLock[t] => fromBal[t] = balance[job[t].from]

\* Past the check there are two rows, both locked, and there is enough money.
Checked(t) ==
    pc[t] \in {"debit", "credit", "commit"} =>
        /\ job[t].from \in Accounts /\ job[t].to \in Accounts /\ toLock[t] = {}
        /\ fromBal[t] >= job[t].amount

WrittenInv(t) ==
    /\ pc[t] = "credit" => written[t] = {job[t].from}
    /\ pc[t] = "commit" => written[t] = {job[t].from, job[t].to}
    /\ pc[t] \in {"idle", "lock", "debit", "done"} => written[t] = {}

AnswerInv(t) ==
    /\ t \in moved => pc[t] = "done" /\ result[t] \in {"ok", "error"}
    /\ result[t] = "ok" => t \in moved

Inv == TypeOK /\ \A t \in Calls : Locked(t) /\ Checked(t) /\ WrittenInv(t) /\ AnswerInv(t)
-----------------------------------------------------------------------------
LEMMA RoundNat == ASSUME NEW x \in Nat PROVE B!Round(x) \in Nat /\ B!Round(B!Round(x)) = B!Round(x)
  BY DEF B!Round

LEMMA InvInit == Init => Inv
  <1> SUFFICES ASSUME Init PROVE Inv
    OBVIOUS
  <1>1. balance \in [Accounts -> Nat]
    BY RoundNat, TransferAssumption DEF Init
  <1> QED
    BY <1>1, TransferAssumption
    DEF Init, Inv, TypeOK, Locked, Checked, WrittenInv, AnswerInv, Active

\* A step of t touches the locks and rows of nobody else.
Private(t) ==
    /\ \A a \in Accounts : lockedBy[a] # t /\ lockedBy[a] # Nobody => lockedBy'[a] = lockedBy[a]
    /\ \A a \in Accounts : lockedBy'[a] # t => balance'[a] = balance[a] \/ lockedBy[a] = t
    /\ \A a \in Accounts : lockedBy[a] # t => balance'[a] = balance[a]
    /\ \A a \in Accounts : lockedBy'[a] \in {lockedBy[a], t, Nobody}
    /\ job' = job
    /\ \A s \in Calls \ {t} :
          /\ pc'[s] = pc[s] /\ toLock'[s] = toLock[s] /\ fromBal'[s] = fromBal[s]
          /\ written'[s] = written[s] /\ result'[s] = result[s]
          /\ s \in moved' <=> s \in moved

LEMMA StepPrivate ==
    ASSUME Inv, NEW t \in Calls, Proceed(t) \/ Fail(t)
    PROVE  Private(t)
  <1> USE DEF Inv, TypeOK, Private
  <1>1. CASE Refuse(t) \/ Fail(t) \/ Detect(t)
    BY <1>1 DEF Refuse, Fail, Detect, Return, Goto
  <1>2. CASE Select(t) \/ Debit(t) \/ Credit(t)
    BY <1>2 DEF Select, Debit, Credit, Write, Goto
  <1>3. CASE \E a \in Accounts : LockRow(t, a)
    BY <1>3 DEF LockRow
  <1>4. CASE Check(t)
    BY <1>4 DEF Check, Return, Goto
  <1>5. CASE Commit(t)
    <2>1. \A a \in Accounts : lockedBy[a] # t => a \notin written[t]
      BY <1>5 DEF Commit, WrittenInv, Checked, Locked, Rows, Active
    <2> QED BY <1>5, <2>1 DEF Commit, Return, Goto
  <1> QED BY <1>1, <1>2, <1>3, <1>4, <1>5 DEF Proceed

\* So the others' invariants are kept.
LEMMA OthersKeep ==
    ASSUME Inv, NEW t \in Calls, Private(t), NEW s \in Calls \ {t}
    PROVE  Locked(s)' /\ Checked(s)' /\ WrittenInv(s)' /\ AnswerInv(s)'
  <1> USE TransferAssumption DEF Inv, TypeOK, Private
  <1>1. Locked(s)'
    BY DEF Locked, Rows, Active
  <1> QED BY <1>1 DEF Checked, WrittenInv, AnswerInv

\* A call that returns keeps no locks and leaves no writes behind.
LEMMA ReturnKeeps ==
    ASSUME Inv, NEW t \in Calls, NEW r \in {"invalid", "refused", "error", "deadlock", "ok"},
           Return(t, r),
           \/ moved' = moved /\ t \notin moved /\ r # "ok"
           \/ moved' = moved \cup {t} /\ r \in {"ok", "error"},
           balance' \in [Accounts -> Nat]
    PROVE  TypeOK' /\ Locked(t)' /\ Checked(t)' /\ WrittenInv(t)' /\ AnswerInv(t)'
  <1> USE TransferAssumption DEF Inv, TypeOK, Return, Goto
  <1>1. TypeOK'
    OBVIOUS
  <1>2. Locked(t)' /\ Checked(t)' /\ WrittenInv(t)' /\ AnswerInv(t)'
    BY DEF Locked, Checked, WrittenInv, AnswerInv, Active, Rows
  <1> QED BY <1>1, <1>2

\* What the check has made sure of still holds when the call commits.
LEMMA CommitChecked ==
    ASSUME Inv, NEW t \in Calls, Commit(t)
    PROVE  /\ job[t].from \in Accounts /\ job[t].to \in Accounts /\ job[t].from # job[t].to
           /\ job[t].amount \in Amounts /\ job[t].amount \in Nat /\ job[t].amount > 0
           /\ written[t] = {job[t].from, job[t].to}
           /\ balance[job[t].from] >= job[t].amount
  BY TransferAssumption
  DEF Commit, Inv, TypeOK, Job, Checked, WrittenInv, Locked, Active, Rows

\* Only a commit changes balances, and it is one step of Bank.
LEMMA CommitMoves ==
    ASSUME Inv, NEW t \in Calls, Commit(t)
    PROVE  B!Next /\ balance' \in [Accounts -> Nat]
  <1> DEFINE j == job[t]
  <1>1. /\ j.from \in Accounts /\ j.to \in Accounts /\ j.from # j.to
        /\ j.amount \in Amounts /\ j.amount \in Nat /\ j.amount > 0
        /\ written[t] = {j.from, j.to}
        /\ balance[j.from] >= j.amount
    BY CommitChecked
  <1>2. balance \in [Accounts -> Nat]
    BY DEF Inv, TypeOK
  <1>3. balance' = [balance EXCEPT ![j.from] = B!Round(@ - j.amount),
                                   ![j.to] = B!Round(@ + j.amount)]
    BY <1>1, <1>2 DEF Commit
  <1>4. B!Move(j.from, j.to, j.amount)
    BY <1>1, <1>3 DEF B!Move
  <1>5. balance[j.from] - j.amount \in Nat /\ balance[j.to] + j.amount \in Nat
    BY <1>1, <1>2
  <1> QED BY <1>1, <1>2, <1>3, <1>4, <1>5, RoundNat DEF B!Next

LEMMA InvStep == Inv /\ [Next]_vars => Inv'
  <1> SUFFICES ASSUME Inv, [Next]_vars PROVE Inv'
    OBVIOUS
  <1>1. CASE UNCHANGED vars
    BY <1>1 DEF vars, txVars, Inv, TypeOK, Locked, Checked, WrittenInv, AnswerInv, Active, Rows
  <1>2. ASSUME NEW t \in Calls, Proceed(t) \/ Fail(t) PROVE Inv'
    <2> SUFFICES TypeOK' /\ Locked(t)' /\ Checked(t)' /\ WrittenInv(t)' /\ AnswerInv(t)'
      BY <1>2, StepPrivate, OthersKeep DEF Inv
    <2>1. CASE Refuse(t)
      <3>1. Return(t, "invalid") /\ UNCHANGED <<balance, moved>> /\ t \notin moved
        BY <2>1 DEF Refuse, Inv, AnswerInv
      <3> QED BY <3>1, ReturnKeeps DEF Inv, TypeOK
    <2>2. CASE Fail(t)
      <3>1. Return(t, "error") /\ UNCHANGED <<balance, moved>> /\ t \notin moved
        BY <2>2 DEF Fail, Inv, AnswerInv, Active
      <3> QED BY <3>1, ReturnKeeps DEF Inv, TypeOK
    <2>3. CASE Detect(t)
      <3>1. pc[t] = "lock"
        BY <2>3 DEF Detect, OnCycle, WaitsFor
      <3>2. Return(t, "deadlock") /\ UNCHANGED <<balance, moved>> /\ t \notin moved
        BY <2>3, <3>1 DEF Detect, Inv, AnswerInv
      <3> QED BY <3>2, ReturnKeeps DEF Inv, TypeOK
    <2>4. CASE Commit(t)
      <3>1. balance' \in [Accounts -> Nat]
        BY <2>4, CommitMoves
      <3> QED BY <2>4, <3>1, ReturnKeeps DEF Commit
    <2>5. CASE Select(t)
      BY <2>5 DEF Select, Goto, Inv, TypeOK, Locked, Checked, WrittenInv, AnswerInv,
         Active, Rows
    <2>6. ASSUME NEW a \in Accounts, LockRow(t, a)
          PROVE  TypeOK' /\ Locked(t)' /\ Checked(t)' /\ WrittenInv(t)' /\ AnswerInv(t)'
      BY <2>6, TransferAssumption DEF LockRow, Inv, TypeOK, Locked, Checked, WrittenInv,
         AnswerInv, Active, Rows
    <2>7. CASE Check(t)
      <3>1. CASE Return(t, "refused")
        <4>1. UNCHANGED <<balance, moved>> /\ t \notin moved
          BY <2>7 DEF Check, Inv, AnswerInv
        <4> QED BY <3>1, <4>1, ReturnKeeps DEF Inv, TypeOK
      <3>2. CASE ~Return(t, "refused")
        BY <2>7, <3>2 DEF Check, Goto, Inv, TypeOK, Locked, Checked, WrittenInv, AnswerInv,
           Active, Rows
      <3> QED BY <3>1, <3>2
    <2>8. CASE Debit(t) \/ Credit(t)
      BY <2>8 DEF Debit, Credit, Write, Goto, Inv, TypeOK, Locked, Checked, WrittenInv,
         AnswerInv, Active, Rows
    <2> QED BY <1>2, <2>1, <2>2, <2>3, <2>4, <2>5, <2>6, <2>7, <2>8 DEF Proceed
  <1> QED BY <1>1, <1>2 DEF Next

\* Every state has the types TypeOK gives its variables; in particular no
\* balance is ever negative.
THEOREM BalancesStayPositive == Spec => []TypeOK
  <1>1. Inv => TypeOK
    BY DEF Inv
  <1> QED BY <1>1, InvInit, InvStep, PTL DEF Spec

\* A call that returns nil has moved the money, and one that did not return
\* nil or the error of a commit has not.
THEOREM AnswersAreTrue == Spec => []AnswerIsTrue
  <1>1. Inv => AnswerIsTrue
    BY DEF Inv, AnswerInv, AnswerIsTrue
  <1> QED BY <1>1, InvInit, InvStep, PTL DEF Spec

\* To whoever looks at the balances, transfers are the atomic moves of Bank.
THEOREM TransferImplementsBank == Spec => ImplementsBank
  <1>1. Init => B!Init
    <2> SUFFICES ASSUME Init PROVE B!Init
      OBVIOUS
    <2> QED BY RoundNat, TransferAssumption DEF Init, B!Init
  <1>2. Inv /\ [Next]_vars => [B!Next]_balance
    <2> SUFFICES ASSUME Inv, [Next]_vars PROVE [B!Next]_balance
      OBVIOUS
    <2>1. ASSUME NEW t \in Calls, Commit(t) PROVE B!Next
      BY <2>1, CommitMoves
    <2>2. ASSUME NEW t \in Calls, Proceed(t) \/ Fail(t), ~Commit(t) PROVE UNCHANGED balance
      BY <2>2 DEF Proceed, Fail, Refuse, Select, LockRow, Check, Debit, Credit, Write, Detect
    <2> QED BY <2>1, <2>2 DEF Next, vars
  <1> QED BY <1>1, <1>2, InvInit, InvStep, PTL DEF Spec, ImplementsBank, B!Spec
-----------------------------------------------------------------------------
(***************************************************************************)
(* Money.  Sum is a fold: a recursive function on the subsets of Accounts  *)
(* that takes out one account at a time.  The lemmas show that there is    *)
(* exactly one such function, that the order does not matter to it, and    *)
(* what it makes of a change of two accounts.                              *)
(***************************************************************************)
Chosen(T) == CHOOSE a \in T : TRUE

\* g adds f up over every subset of A.
AddsUp(g, f, A) ==
    g = [T \in SUBSET A |-> IF T = {} THEN 0 ELSE f[Chosen(T)] + g[T \ {Chosen(T)}]]

SumOver(f) == CHOOSE g : AddsUp(g, f, Accounts)

\* Sum is the value of such a function at the set of all accounts.
LEMMA Unfold == \A f : Sum(f) = SumOver(f)[Accounts]
  BY DEF Sum, MapThenSumSet, MapThenFoldSet, SumOver, AddsUp, Chosen

\* Induction on the subsets of a finite set, as the least among counterexamples.
LEMMA SmallestOf ==
    ASSUME NEW A, IsFiniteSet(A), NEW C, C \subseteq SUBSET A, C # {}
    PROVE  \E T \in C : \A U \in C : ~(U \subseteq T /\ U # T)
  <1>1. IsWellFoundedOn(StrictSubsetOrdering(A), SUBSET A)
    BY FS_FiniteSubsetsOfFinite, FS_StrictSubsetOrderingWellFounded
  <1>2. PICK T \in C : \A U \in C : <<U, T>> \notin StrictSubsetOrdering(A)
    BY <1>1, WFMin
  <1> QED BY <1>2 DEF StrictSubsetOrdering

LEMMA SmallestSubset ==
    ASSUME NEW C, C \subseteq SUBSET Accounts, C # {}
    PROVE  \E T \in C : \A U \in C : ~(U \subseteq T /\ U # T)
  BY SmallestOf, TransferAssumption

LEMMA ChosenIn == \A T : T # {} => Chosen(T) \in T
  BY DEF Chosen

LEMMA AddsUpAt ==
    ASSUME NEW A, NEW f, NEW g, AddsUp(g, f, A), NEW T \in SUBSET A
    PROVE  /\ T = {} => g[T] = 0
           /\ T # {} => /\ Chosen(T) \in T /\ T \ {Chosen(T)} \in SUBSET A
                        /\ g[T] = f[Chosen(T)] + g[T \ {Chosen(T)}]
  BY ChosenIn DEF AddsUp

LEMMA AddsUpByOne ==
    ASSUME NEW A, NEW f, NEW g, AddsUp(g, f, A), NEW T \in SUBSET A, T # {}
    PROVE  \E x \in T : x = Chosen(T) /\ g[T] = f[x] + g[T \ {x}]
  <1>1. Chosen(T) \in T
    BY ChosenIn
  <1>2. g[T] = f[Chosen(T)] + g[T \ {Chosen(T)}]
    BY DEF AddsUp
  <1> QED BY <1>1, <1>2

LEMMA AddsUpFromZero == ASSUME NEW A, NEW f, NEW g, AddsUp(g, f, A) PROVE g[{}] = 0
  BY AddsUpAt

\* There is at most one such function on the subsets of A,
LEMMA AddsUpOnce ==
    ASSUME NEW A \in SUBSET Accounts, NEW f, NEW g, NEW h, AddsUp(g, f, A), AddsUp(h, f, A)
    PROVE  g = h
  <1> DEFINE C == {T \in SUBSET A : g[T] # h[T]}
  <1>0. C \subseteq SUBSET Accounts
    OBVIOUS
  <1>1. CASE C = {}
    <2>1. \A T \in SUBSET A : g[T] = h[T]
      BY <1>1
    <2> QED BY <2>1 DEF AddsUp
  <1>2. CASE C # {}
    <2>1. PICK T \in C : \A U \in C : ~(U \subseteq T /\ U # T)
      <3> HIDE DEF C
      <3> QED BY <1>0, <1>2, SmallestSubset
    <2>2. T \in SUBSET A /\ g[T] # h[T]
      BY <2>1
    <2>5. T # {}
      <3> HIDE DEF C
      <3> QED BY <2>2, AddsUpAt
    <2>3. T \ {Chosen(T)} \notin C
      BY <2>1, <2>5, ChosenIn
    <2>4. g[T \ {Chosen(T)}] = h[T \ {Chosen(T)}]
      BY <2>2, <2>3
    <2> HIDE DEF C
    <2> QED BY <2>2, <2>5, <2>4, AddsUpAt
  <1> QED BY <1>1, <1>2

\* its restriction to the subsets of D is the one for D,
LEMMA AddsUpBelow ==
    ASSUME NEW A, NEW f, NEW g, AddsUp(g, f, A), NEW D \in SUBSET A
    PROVE  AddsUp([T \in SUBSET D |-> g[T]], f, D)
  <1> DEFINE h == [T \in SUBSET D |-> g[T]]
  <1>1. ASSUME NEW T \in SUBSET D
        PROVE  h[T] = IF T = {} THEN 0 ELSE f[Chosen(T)] + h[T \ {Chosen(T)}]
    BY AddsUpAt
  <1> QED BY <1>1 DEF AddsUp

\* and there is one: each value is taken from the function of a smaller set.
LEMMA SumExists == ASSUME NEW f PROVE \E g : AddsUp(g, f, Accounts)
  <1> DEFINE C == {A \in SUBSET Accounts : ~ \E g : AddsUp(g, f, A)}
  <1> SUFFICES ASSUME C # {} PROVE FALSE
    OBVIOUS
  <1>0. C \subseteq SUBSET Accounts
    OBVIOUS
  <1>1. PICK A \in C : \A U \in C : ~(U \subseteq A /\ U # A)
    <2> HIDE DEF C
    <2> QED BY <1>0, SmallestSubset
  <1>2. ASSUME NEW D \in SUBSET A, D # A PROVE \E g : AddsUp(g, f, D)
    BY <1>1, <1>2
  <1> DEFINE h == [D \in SUBSET A |-> CHOOSE g : AddsUp(g, f, D)]
             g == [T \in SUBSET A |-> IF T = {} THEN 0
                     ELSE f[Chosen(T)] + h[T \ {Chosen(T)}][T \ {Chosen(T)}]]
  <1>3. ASSUME NEW D \in SUBSET A, D # A PROVE AddsUp(h[D], f, D)
    BY <1>2, <1>3
  <1> HIDE DEF h
  <1>4. ASSUME NEW R \in SUBSET A, R # A PROVE g[R] = h[R][R]
    <2>1. CASE R = {}
      BY <2>1, <1>3, <1>4, AddsUpAt
    <2>2. CASE R # {}
      <3> DEFINE Q == R \ {Chosen(R)}
      <3>1. Q \in SUBSET A /\ Q # A /\ Q \in SUBSET R
        BY <1>4
      <3>2. h[R][R] = f[Chosen(R)] + h[R][Q]
        BY <1>3, <1>4, <2>2, AddsUpAt
      <3>3. AddsUp([T \in SUBSET Q |-> h[R][T]], f, Q)
        BY <1>3, <1>4, <3>1, AddsUpBelow
      <3>4. h[Q] = [T \in SUBSET Q |-> h[R][T]]
        BY <1>3, <1>1, <3>1, <3>3, AddsUpOnce
      <3>5. h[R][Q] = h[Q][Q]
        BY <3>4
      <3> QED BY <2>2, <3>2, <3>5
    <2> QED BY <2>1, <2>2
  <1>5. ASSUME NEW T \in SUBSET A
        PROVE  g[T] = IF T = {} THEN 0 ELSE f[Chosen(T)] + g[T \ {Chosen(T)}]
    <2>1. CASE T = {}
      BY <2>1
    <2>2. CASE T # {}
      <3> DEFINE R == T \ {Chosen(T)}
      <3>1. R \in SUBSET A /\ R # A
        BY <2>2, ChosenIn
      <3>2. g[R] = h[R][R]
        BY <3>1, <1>4
      <3> QED BY <2>2, <3>2
    <2> QED BY <2>1, <2>2
  <1>6. AddsUp(g, f, A)
    BY <1>5 DEF AddsUp
  <1> QED BY <1>1, <1>6

LEMMA SumType ==
    ASSUME NEW f \in [Accounts -> Int], NEW g, AddsUp(g, f, Accounts), NEW S \in SUBSET Accounts
    PROVE  g[S] \in Int
  <1> DEFINE C == {T \in SUBSET Accounts : g[T] \notin Int}
  <1> SUFFICES ASSUME C # {} PROVE FALSE
    OBVIOUS
  <1>1. C \subseteq SUBSET Accounts
    OBVIOUS
  <1>2. PICK T \in C : \A U \in C : ~(U \subseteq T /\ U # T)
    <2> HIDE DEF C
    <2> QED BY <1>1, SmallestSubset
  <1>3. T \in SUBSET Accounts /\ g[T] \notin Int
    BY <1>2
  <1>4. T # {}
    <2> HIDE DEF C
    <2> QED BY <1>3, AddsUpFromZero
  <1>5. g[T \ {Chosen(T)}] \in Int
    BY <1>2, <1>4, ChosenIn
  <1> HIDE DEF C
  <1> QED BY <1>3, <1>4, <1>5, AddsUpAt

\* In whatever order the sum is taken, any account may be the first.
LEMMA SumWithout ==
    ASSUME NEW f \in [Accounts -> Int], NEW g, AddsUp(g, f, Accounts),
           NEW S \in SUBSET Accounts, NEW a \in S
    PROVE  g[S] = f[a] + g[S \ {a}]
  <1> DEFINE C == {T \in SUBSET Accounts : \E x \in T : g[T] # f[x] + g[T \ {x}]}
  <1> SUFFICES ASSUME C # {} PROVE FALSE
    OBVIOUS
  <1>0. C \subseteq SUBSET Accounts
    OBVIOUS
  <1>1. PICK T \in C : \A U \in C : ~(U \subseteq T /\ U # T)
    <2> HIDE DEF C
    <2> QED BY <1>0, SmallestSubset
  <1>2. PICK x \in T : g[T] # f[x] + g[T \ {x}]
    BY <1>1
  <1>3. PICK y \in T : g[T] = f[y] + g[T \ {y}]
    <2>1. T \in SUBSET Accounts /\ T # {}
      BY <1>0, <1>2
    <2> HIDE DEF C
    <2> QED BY <2>1, AddsUpByOne
  <1>4. x # y
    BY <1>2, <1>3
  <1>5. T \ {y} \notin C /\ T \ {x} \notin C
    BY <1>1
  <1>6. g[T \ {y}] = f[x] + g[(T \ {y}) \ {x}]
    BY <1>1, <1>2, <1>4, <1>5
  <1>7. g[T \ {x}] = f[y] + g[(T \ {x}) \ {y}]
    BY <1>1, <1>2, <1>4, <1>5
  <1>8. /\ (T \ {x}) \ {y} = (T \ {y}) \ {x} /\ (T \ {x}) \ {y} \in SUBSET Accounts
        /\ x \in Accounts /\ y \in Accounts
    BY <1>0
  <1> HIDE DEF C
  <1>9. g[(T \ {x}) \ {y}] \in Int /\ f[x] \in Int /\ f[y] \in Int
    BY <1>8, SumType
  <1>10. PICK m \in Int : m = g[(T \ {x}) \ {y}]
    BY <1>9
  <1>11. g[T \ {y}] = f[x] + m /\ g[T \ {x}] = f[y] + m
    BY <1>6, <1>7, <1>8, <1>10
  <1> QED BY <1>2, <1>3, <1>9, <1>10, <1>11

LEMMA SumOfEqual ==
    ASSUME NEW f, NEW h, NEW g, AddsUp(g, f, Accounts), NEW k, AddsUp(k, h, Accounts),
           NEW S \in SUBSET Accounts, \A a \in S : f[a] = h[a]
    PROVE  g[S] = k[S]
  <1> DEFINE C == {T \in SUBSET S : g[T] # k[T]}
  <1> SUFFICES ASSUME C # {} PROVE FALSE
    OBVIOUS
  <1>1. C \subseteq SUBSET Accounts
    OBVIOUS
  <1>2. PICK T \in C : \A U \in C : ~(U \subseteq T /\ U # T)
    <2> HIDE DEF C
    <2> QED BY <1>1, SmallestSubset
  <1>3. T \in SUBSET Accounts /\ T \in SUBSET S /\ g[T] # k[T]
    BY <1>2
  <1>4. T # {}
    <2> HIDE DEF C
    <2> QED BY <1>3, AddsUpFromZero
  <1>5. g[T \ {Chosen(T)}] = k[T \ {Chosen(T)}]
    BY <1>2, <1>4, ChosenIn
  <1> HIDE DEF C
  <1> QED BY <1>3, <1>4, <1>5, AddsUpAt

LEMMA SumIsSum == ASSUME NEW f PROVE \E g : AddsUp(g, f, Accounts) /\ Sum(f) = g[Accounts]
  <1>1. AddsUp(SumOver(f), f, Accounts)
    BY SumExists DEF SumOver
  <1> QED BY <1>1, Unfold

\* What becomes of the sum when two accounts change.
LEMMA SumAfterMove ==
    ASSUME NEW f \in [Accounts -> Int], NEW h \in [Accounts -> Int],
           NEW a \in Accounts, NEW b \in Accounts, a # b,
           \A x \in Accounts \ {a, b} : h[x] = f[x]
    PROVE  /\ Sum(f) \in Int /\ Sum(h) \in Int
           /\ Sum(h) = Sum(f) + (h[a] - f[a]) + (h[b] - f[b])
  <1> DEFINE R == (Accounts \ {a}) \ {b}
  <1>0. PICK g : AddsUp(g, f, Accounts) /\ Sum(f) = g[Accounts]
    BY SumIsSum
  <1>5. PICK k : AddsUp(k, h, Accounts) /\ Sum(h) = k[Accounts]
    BY SumIsSum
  <1>1. g[Accounts] = f[a] + g[Accounts \ {a}] /\ k[Accounts] = h[a] + k[Accounts \ {a}]
    BY <1>0, <1>5, SumWithout
  <1>2. g[Accounts \ {a}] = f[b] + g[R] /\ k[Accounts \ {a}] = h[b] + k[R]
    BY <1>0, <1>5, SumWithout
  <1>3. g[R] = k[R]
    BY <1>0, <1>5, SumOfEqual
  <1>4. g[R] \in Int /\ f[a] \in Int /\ f[b] \in Int /\ h[a] \in Int /\ h[b] \in Int
    BY <1>0, SumType
  <1> QED BY <1>0, <1>1, <1>2, <1>3, <1>4, <1>5

\* Every balance is in whole cents, so that an amount of half a cent more is
\* rounded up on both rows; and only finitely many calls have moved money.
MoneyInv ==
    /\ IsFiniteSet(moved)
    /\ \A a \in Accounts : balance[a] % 2 = 0
    /\ MoneyConserved

LEMMA RoundUp ==
    ASSUME NEW b \in Nat, b % 2 = 0, NEW a \in Nat
    PROVE  /\ B!Round(b + a) = b + a + (a % 2)
           /\ b >= a => B!Round(b - a) = b - a + (a % 2)
  <1>1. PICK c \in Nat : b = 2 * c
    OBVIOUS
  <1>2. PICK d \in Nat : a = 2 * d \/ a = 2 * d + 1
    <2>1. a = 2 * (a \div 2) \/ a = 2 * (a \div 2) + 1
      OBVIOUS
    <2> QED BY <2>1
  <1>3. CASE a = 2 * d
    BY <1>1, <1>3 DEF B!Round
  <1>4. CASE a = 2 * d + 1
    BY <1>1, <1>4 DEF B!Round
  <1> QED BY <1>2, <1>3, <1>4

LEMMA RoundEven == ASSUME NEW x \in Nat PROVE B!Round(x) % 2 = 0
  BY DEF B!Round

LEMMA MoneyInit == Init => MoneyInv
  <1> SUFFICES ASSUME Init PROVE MoneyInv
    OBVIOUS
  <1>1. \A a \in Accounts : balance[a] % 2 = 0
    BY RoundEven, TransferAssumption DEF Init
  <1>2. IsFiniteSet(moved) /\ \A S : S \subseteq moved => Cardinality(S) = 0
    BY FS_EmptySet DEF Init
  <1>3. balance \in [Accounts -> Int] /\ initial = balance
    BY InvInit DEF Init, Inv, TypeOK
  <1>4. Sum(balance) \in Int
    BY <1>3, SumIsSum, SumType
  <1>5. MoneyConserved
    BY <1>2, <1>3, <1>4 DEF MoneyConserved
  <1> QED BY <1>1, <1>2, <1>5 DEF MoneyInv

\* A call commits once, and then the set of uneven amounts gets the call at most.
LEMMA CommitKeepsMoney ==
    ASSUME Inv, MoneyInv, NEW t \in Calls, Commit(t)
    PROVE  MoneyInv'
  <1>1. PICK from \in Accounts, to \in Accounts, amount \in Nat :
          /\ from = job[t].from /\ to = job[t].to /\ amount = job[t].amount
          /\ from # to /\ written[t] = {from, to} /\ balance[from] >= amount
    BY CommitChecked
  <1>2. /\ balance \in [Accounts -> Nat] /\ balance' \in [Accounts -> Nat]
        /\ job \in [Calls -> Job]
        /\ moved \subseteq Calls /\ moved' = moved \cup {t} /\ t \notin moved
        /\ UNCHANGED <<job, initial>>
    BY CommitMoves DEF Inv, TypeOK, AnswerInv, Commit, Return
  <1>3. /\ balance'[from] = B!Round(balance[from] - amount)
        /\ balance'[to] = B!Round(balance[to] + amount)
        /\ \A a \in Accounts \ {from, to} : balance'[a] = balance[a]
    BY <1>1 DEF Commit
  <1>4. /\ balance'[from] = balance[from] - amount + (amount % 2)
        /\ balance'[to] = balance[to] + amount + (amount % 2)
    <2>1. /\ balance[from] \in Nat /\ balance[from] % 2 = 0
          /\ balance[to] \in Nat /\ balance[to] % 2 = 0
      BY <1>2 DEF MoneyInv
    <2>2. B!Round(balance[from] - amount) = balance[from] - amount + (amount % 2)
      BY <1>1, <2>1, RoundUp
    <2>3. B!Round(balance[to] + amount) = balance[to] + amount + (amount % 2)
      BY <2>1, RoundUp
    <2> QED BY <1>3, <2>2, <2>3
  <1>5. \A a \in Accounts : balance'[a] % 2 = 0
    <2>1. balance[from] - amount \in Nat /\ balance[to] + amount \in Nat
      BY <1>1, <1>2
    <2>2. balance'[from] % 2 = 0 /\ balance'[to] % 2 = 0
      BY <1>3, <2>1, RoundEven
    <2> QED BY <1>3, <2>2 DEF MoneyInv
  <1>6. Sum(balance') = Sum(balance) + 2 * (amount % 2) /\ Sum(balance) \in Int
    <2>1. PICK f \in [Accounts -> Int], h \in [Accounts -> Int] : f = balance /\ h = balance'
      BY <1>2
    <2>2. Sum(h) = Sum(f) + (h[from] - f[from]) + (h[to] - f[to]) /\ Sum(f) \in Int
      BY <1>1, <1>3, <2>1, SumAfterMove
    <2>3. /\ h[from] - f[from] = (amount % 2) - amount /\ h[to] - f[to] = amount + (amount % 2)
          /\ amount % 2 \in Int
      BY <1>4, <1>2, <2>1
    <2> QED BY <2>1, <2>2, <2>3
  <1> DEFINE uneven == {s \in moved : job[s].amount % 2 = 1}
             unevenToo == {s \in moved \cup {t} : job[s].amount % 2 = 1}
  <1>7. /\ IsFiniteSet(moved \cup {t}) /\ IsFiniteSet(uneven)
        /\ Cardinality(uneven) \in Nat
        /\ unevenToo = IF amount % 2 = 1 THEN uneven \cup {t} ELSE uneven
        /\ Cardinality(uneven \cup {t}) = Cardinality(uneven) + 1
    <2>1. IsFiniteSet(moved) /\ uneven \in SUBSET moved /\ t \notin uneven
      BY <1>2 DEF MoneyInv
    <2>2. IsFiniteSet(uneven)
      BY <2>1, FS_Subset
    <2> HIDE DEF uneven
    <2>3. /\ IsFiniteSet(moved \cup {t}) /\ Cardinality(uneven) \in Nat
          /\ Cardinality(uneven \cup {t}) = Cardinality(uneven) + 1
      BY <2>1, <2>2, FS_AddElement, FS_CardinalityType
    <2>4. unevenToo = IF amount % 2 = 1 THEN uneven \cup {t} ELSE uneven
      BY <1>1 DEF uneven
    <2> QED BY <2>2, <2>3, <2>4
  <1>8. amount % 2 = 0 \/ amount % 2 = 1
    BY <1>1
  <1>9. Sum(balance) = Sum(initial) + 2 * Cardinality(uneven)
    BY DEF MoneyInv, MoneyConserved
  <1>10. Sum(initial) \in Int
    <2>1. PICK f \in [Accounts -> Int] : f = initial
      BY DEF Inv, TypeOK
    <2> QED BY <2>1, SumIsSum, SumType
  <1>11. Cardinality(unevenToo) = Cardinality(uneven) + (amount % 2)
    <2> HIDE DEF uneven, unevenToo
    <2> QED BY <1>7, <1>8
  <1>12. Sum(balance') = Sum(initial) + 2 * Cardinality(unevenToo)
    <2> HIDE DEF uneven, unevenToo
    <2> QED BY <1>6, <1>7, <1>8, <1>9, <1>10, <1>11
  <1>13. MoneyConserved'
    BY <1>2, <1>12 DEF MoneyConserved
  <1> QED BY <1>2, <1>5, <1>7, <1>13 DEF MoneyInv

LEMMA MoneyStep == Inv /\ MoneyInv /\ [Next]_vars => MoneyInv'
  <1> SUFFICES ASSUME Inv, MoneyInv, [Next]_vars PROVE MoneyInv'
    OBVIOUS
  <1>1. ASSUME NEW t \in Calls, Commit(t) PROVE MoneyInv'
    BY <1>1, CommitKeepsMoney
  <1>2. ASSUME UNCHANGED <<balance, initial, moved, job>> PROVE MoneyInv'
    BY <1>2 DEF MoneyInv, MoneyConserved
  <1>3. ASSUME NEW t \in Calls, Proceed(t) \/ Fail(t), ~Commit(t)
        PROVE  UNCHANGED <<balance, initial, moved, job>>
    BY <1>3 DEF Proceed, Fail, Refuse, Select, LockRow, Check, Debit, Credit, Write, Detect,
       Return
  <1> QED BY <1>1, <1>2, <1>3 DEF Next, vars, txVars

\* The money of all accounts together stays what it was at first, but for one
\* cent for each committed amount that ends in half a cent.
THEOREM MoneyStays == Spec => []MoneyConserved
  <1>1. MoneyInv => MoneyConserved
    BY DEF MoneyInv
  <1> QED BY <1>1, InvInit, InvStep, MoneyInit, MoneyStep, PTL DEF Spec

\* In whole cents nothing is created or destroyed at all.
THEOREM WholeCentsStay ==
    ASSUME \A x \in Amounts : x % 2 = 0
    PROVE  Spec => [](Sum(balance) = Sum(initial))
  <1>1. Inv /\ MoneyInv => Sum(balance) = Sum(initial)
    <2> SUFFICES ASSUME Inv, MoneyInv PROVE Sum(balance) = Sum(initial)
      OBVIOUS
    <2>1. {t \in moved : job[t].amount % 2 = 1} = {}
      BY DEF Inv, TypeOK, Job
    <2>2. PICK f \in [Accounts -> Int] : f = initial
      BY DEF Inv, TypeOK
    <2>3. Sum(initial) \in Int
      BY <2>2, SumIsSum, SumType
    <2>4. Cardinality({t \in moved : job[t].amount % 2 = 1}) = 0
      BY <2>1, FS_EmptySet
    <2>5. Sum(balance) = Sum(initial) + 2 * Cardinality({t \in moved : job[t].amount % 2 = 1})
      BY DEF MoneyInv, MoneyConserved
    <2> QED BY <2>3, <2>4, <2>5
  <1> QED BY <1>1, InvInit, InvStep, MoneyInit, MoneyStep, PTL DEF Spec
-----------------------------------------------------------------------------
(***************************************************************************)
(* What EveryCallReturns needs beside fairness.  A call takes at most      *)
(* seven steps, and nobody's step takes another call back; and as long as  *)
(* a call is under way, one of them has a step to take, be it that         *)
(* PostgreSQL breaks a cycle.                                              *)
(***************************************************************************)

\* The guards of Proceed, action by action.
CanProceed(t) ==
    \/ pc[t] = "idle"
    \/ pc[t] = "lock" /\ \E a \in toLock[t] : lockedBy[a] = Nobody
    \/ pc[t] = "lock" /\ toLock[t] = {}
    \/ pc[t] \in {"debit", "credit", "commit"}
    \/ OnCycle(t)

NoStandstill ==
    (\E t \in Calls : Active(t)) => \E t \in Calls : Active(t) /\ CanProceed(t)

Rank(l) ==
    CASE l = "idle" -> 7 [] l = "lock" -> 4 [] l = "debit" -> 3
      [] l = "credit" -> 2 [] l = "commit" -> 1 [] l = "done" -> 0

ToGo(t) == Rank(pc[t]) + Cardinality(toLock[t])

StepsForward ==
    [][/\ \A t \in Calls : ToGo(t)' <= ToGo(t)
       /\ \E t \in Calls : ToGo(t)' < ToGo(t)]_vars

\* A finite graph in which everybody waits for another has a part in which
\* everybody is waited for, too: a least part in which everybody waits.
LEMMA FiniteCycle ==
    ASSUME NEW H, IsFiniteSet(H), H # {}, NEW W,
           \A x \in H : <<x, x>> \notin W /\ \E y \in H : <<x, y>> \in W
    PROVE  \E D \in SUBSET H : /\ D # {}
                               /\ \A x \in D : \E y \in D : <<x, y>> \in W
                               /\ \A y \in D : \E x \in D : <<x, y>> \in W
  <1> DEFINE C == {D \in SUBSET H : D # {} /\ \A x \in D : \E y \in D : <<x, y>> \in W}
  <1>1. C \subseteq SUBSET H /\ H \in C
    OBVIOUS
  <1>2. PICK D \in C : \A U \in C : ~(U \subseteq D /\ U # D)
    <2> HIDE DEF C
    <2> QED BY <1>1, SmallestOf
  <1>3. ASSUME NEW y \in D, \A x \in D : <<x, y>> \notin W PROVE FALSE
    <2>1. D \ {y} # {}
      BY <1>2
    <2>2. \A x \in D \ {y} : \E z \in D \ {y} : <<x, z>> \in W
      BY <1>2, <1>3
    <2>3. D \ {y} \in C
      BY <1>2, <2>1, <2>2
    <2> QED BY <1>2, <2>3
  <1> QED BY <1>2, <1>3

\* Locks are held by finitely many calls, as there are finitely many rows.
LEMMA FiniteImage ==
    ASSUME NEW f, NEW S, S \subseteq {f[a] : a \in Accounts}
    PROVE  IsFiniteSet(S)
  <1> DEFINE T == {f[a] : a \in Accounts}
             g == [a \in Accounts |-> f[a]]
  <1>1. g \in Surjection(Accounts, T)
    BY DEF Surjection
  <1>2. IsFiniteSet(T)
    <2> HIDE DEF T, g
    <2> QED BY <1>1, FS_Surjection, TransferAssumption
  <1>3. S \in SUBSET T
    OBVIOUS
  <1> QED BY <1>2, <1>3, FS_Subset

\* Whoever holds a row and cannot go on waits for another holder.
LEMMA NobodyStandsStill == Inv => NoStandstill
  <1> SUFFICES ASSUME Inv, NEW t0 \in Calls, Active(t0),
                      \A t \in Calls : Active(t) => ~CanProceed(t)
               PROVE  FALSE
    BY DEF NoStandstill
  <1> USE DEF Inv, TypeOK
  <1>1. ASSUME NEW t \in Calls, Active(t)
        PROVE  /\ pc[t] = "lock" /\ toLock[t] # {}
               /\ \A a \in toLock[t] :
                     a \in Accounts /\ lockedBy[a] \in Calls /\ Active(lockedBy[a])
               /\ toLock[t] \subseteq Rows(t) /\ \A a \in toLock[t] : lockedBy[a] # t
    BY <1>1, TransferAssumption DEF CanProceed, Active, Locked
  <1> DEFINE H == {t \in Calls : \E a \in Accounts : lockedBy[a] = t}
             W == {x \in Calls \X Calls : WaitsFor(x[1], x[2])}
  <1>2. H # {}
    BY <1>1
  <1>3. \A t \in H : Active(t)
    BY DEF Locked
  <1>4. ASSUME NEW t \in H PROVE \E s \in H : WaitsFor(t, s)
    <2>1. PICK a \in Accounts : lockedBy[a] = t
      OBVIOUS
    <2>2. a \in Rows(t) \ toLock[t]
      BY <1>1, <1>3, <2>1 DEF Locked
    <2>3. PICK b \in toLock[t] : b \in Accounts /\ lockedBy[b] \in Calls
      BY <1>1, <1>3
    <2>4. toLock[t] = {b}
      BY <1>1, <1>3, <2>2 DEF Rows
    <2> QED BY <1>1, <1>3, <2>3, <2>4 DEF WaitsFor
  <1>5. \A t \in H : ~WaitsFor(t, t)
    BY <1>1, <1>3 DEF WaitsFor
  <1>6. IsFiniteSet(H)
    <2>1. PICK f : f = lockedBy
      OBVIOUS
    <2>2. H \subseteq {f[a] : a \in Accounts}
      BY <2>1
    <2>3. PICK K : K = H
      OBVIOUS
    <2> QED BY <2>2, <2>3, FiniteImage
  <1>7. PICK D \in SUBSET H : /\ D # {}
                              /\ \A x \in D : \E y \in D : <<x, y>> \in W
                              /\ \A y \in D : \E x \in D : <<x, y>> \in W
    <2>1. \A x \in H : <<x, x>> \notin W /\ \E y \in H : <<x, y>> \in W
      BY <1>4, <1>5
    <2>2. PICK K, V : K = H /\ V = W
      OBVIOUS
    <2> HIDE DEF H, W
    <2> QED BY <1>2, <1>6, <2>1, <2>2, FiniteCycle
  <1>8. PICK t \in D : t \in Calls /\ Active(t)
    BY <1>3, <1>7
  <1>9. OnCycle(t)
    <2>1. D \in SUBSET Calls
      OBVIOUS
    <2> QED BY <1>7, <1>8, <2>1 DEF OnCycle
  <1> QED BY <1>8, <1>9 DEF CanProceed

\* As long as a call is under way, one of the calls has a step to take.
THEOREM SomebodyProceeds == Spec => []NoStandstill
  BY InvInit, InvStep, NobodyStandsStill, PTL DEF Spec

LEMMA LessToLock ==
    ASSUME NEW T \in SUBSET Accounts
    PROVE  /\ Cardinality(T) \in Nat /\ Cardinality({}) = 0
           /\ \A a \in T : Cardinality(T \ {a}) = Cardinality(T) - 1
           /\ \A x, y : T \subseteq {x, y} => Cardinality(T) <= 2
  <1>1. IsFiniteSet(T)
    BY FS_Subset, TransferAssumption
  <1>2. ASSUME NEW x, NEW y, T \subseteq {x, y} PROVE Cardinality(T) <= 2
    <2>1. IsFiniteSet({x}) /\ Cardinality({x}) = 1
      BY FS_Singleton
    <2>2. IsFiniteSet({x} \cup {y}) /\ Cardinality({x} \cup {y}) <= 2
      BY <2>1, FS_AddElement
    <2>3. T \in SUBSET ({x} \cup {y})
      BY <1>2
    <2> QED BY <1>1, <2>2, <2>3, FS_Subset, FS_CardinalityType
  <1> QED BY <1>1, <1>2, FS_CardinalityType, FS_EmptySet, FS_RemoveElement

\* A call takes at most seven steps, each of which brings it nearer to its end
\* and takes nobody else back.
THEOREM EveryStepCounts == Spec => StepsForward
  <1>1. Inv /\ [Next]_vars => [/\ \A t \in Calls : ToGo(t)' <= ToGo(t)
                               /\ \E t \in Calls : ToGo(t)' < ToGo(t)]_vars
    <2> SUFFICES ASSUME Inv, NEW t \in Calls, Proceed(t) \/ Fail(t)
                 PROVE  /\ \A s \in Calls : ToGo(s)' <= ToGo(s)
                        /\ \E s \in Calls : ToGo(s)' < ToGo(s)
      BY DEF Next
    <2> USE DEF Inv, TypeOK
    <2>1. \A s \in Calls : ToGo(s) \in Nat /\ ToGo(s)' \in Nat
      <3>1. TypeOK'
        BY InvStep DEF Next
      <3> QED BY <3>1, LessToLock DEF ToGo, Rank
    <2>2. ASSUME NEW s \in Calls \ {t} PROVE ToGo(s)' = ToGo(s)
      BY StepPrivate DEF Private, ToGo
    <2>3. ToGo(t)' < ToGo(t)
      <3>1. ASSUME NEW r, Return(t, r), pc[t] # "done" PROVE ToGo(t)' < ToGo(t)
        BY <3>1, LessToLock DEF Return, Goto, ToGo, Rank
      <3>2. CASE Refuse(t) \/ Fail(t) \/ Detect(t) \/ Commit(t)
        BY <3>1, <3>2 DEF Refuse, Fail, Detect, Commit, Active, OnCycle, WaitsFor
      <3>3. CASE Select(t)
        <4>1. PICK T \in SUBSET Accounts : T = toLock'[t] /\ T \subseteq {job[t].from, job[t].to}
          BY <3>3 DEF Select
        <4>2. Cardinality(T) <= 2 /\ Cardinality(T) \in Nat
          BY <4>1, LessToLock
        <4>3. Cardinality(toLock[t]) \in Nat
          BY LessToLock
        <4> QED BY <3>3, <4>1, <4>2, <4>3 DEF Select, Goto, ToGo, Rank
      <3>4. CASE \E a \in Accounts : LockRow(t, a)
        BY <3>4, LessToLock DEF LockRow, ToGo, Rank
      <3>5. CASE Check(t)
        <4>1. CASE Return(t, "refused")
          BY <3>1, <3>5, <4>1 DEF Check
        <4>2. CASE ~Return(t, "refused")
          <5>1. pc[t] = "lock" /\ pc'[t] = "debit" /\ toLock' = toLock
            BY <3>5, <4>2 DEF Check, Goto
          <5>2. Cardinality(toLock[t]) \in Nat
            BY LessToLock
          <5> QED BY <5>1, <5>2 DEF ToGo, Rank
        <4> QED BY <4>1, <4>2
      <3>6. CASE Debit(t) \/ Credit(t)
        BY <3>6, LessToLock DEF Debit, Credit, Write, Goto, ToGo, Rank
      <3> QED BY <3>2, <3>3, <3>4, <3>5, <3>6 DEF Proceed
    <2> QED BY <2>1, <2>2, <2>3
  <1> QED BY <1>1, InvInit, InvStep, PTL DEF Spec, StepsForward
=============================================================================
