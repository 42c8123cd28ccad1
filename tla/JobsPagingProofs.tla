-------------------------- MODULE JobsPagingProofs --------------------------
(***************************************************************************)
(* Walks through the jobs are whole and, but for rows with a late time,    *)
(* snapshots, for any number of starts, clients and samples and any sizes  *)
(* of pages.  The argument: rows are only added and never change, so the   *)
(* order of the rows a client has seen is fixed; all it was shown comes    *)
(* before its cursor, all that it is owed behind it, and a new row lands   *)
(* behind a cursor only if the clock stands before the time of another.    *)
(***************************************************************************)
EXTENDS JobsPaging, FiniteSetTheorems, TLAPS

Passes(c, i) == c \in {Anywhere, Samples[jobs[i].sample]}
Told(k) == shown[k] \cup page[k]

Walk(k) ==
    /\ page[k] \cap shown[k] = {}
    /\ \A i \in began[k] : Passes(company[k], i)
    /\ \A i \in began[k] \ Told(k) : after[k] # 0 /\ Precedes(after[k], i)
    /\ after[k] # 0 => \A i \in Told(k) : i = after[k] \/ Precedes(i, after[k])
    /\ Told(k) \subseteq began[k] \cup late
    /\ after[k] # 0 => \A i \in Ids :
          Passes(company[k], i) /\ Precedes(after[k], i) => i \in began[k] \cup late

Inv == TypeOK /\ \A k \in Clients : Walk(k)
-----------------------------------------------------------------------------
LEMMA RowsAreRows ==
    ASSUME TypeOK
    PROVE /\ Len(jobs) \in Nat /\ Ids \subseteq Nat \ {0}
          /\ \A i \in Ids : jobs[i].at \in Nat /\ jobs[i] \in Row
  <1>1. jobs \in Seq(Row) /\ Times \subseteq Nat
    BY JobsAssumption DEF TypeOK
  <1>2. Len(jobs) \in Nat /\ Ids \subseteq Nat \ {0} /\ \A i \in Ids : jobs[i] \in Row
    BY <1>1 DEF Ids
  <1> QED BY <1>1, <1>2 DEF Row

LEMMA PrecedesIsOrder ==
    ASSUME TypeOK, NEW i \in Ids, NEW j \in Ids, NEW m \in Ids
    PROVE /\ ~Precedes(i, i)
          /\ Precedes(i, j) /\ Precedes(j, m) => Precedes(i, m)
  BY RowsAreRows DEF Precedes

LEMMA LimitIsPositive == ASSUME NEW l \in Limits PROVE LimitOf(l) \in Nat \ {0}
  BY JobsAssumption DEF LimitOf

\* What an answer gives: the rows behind the cursor up to a last one, or all.
LEMMA AnswerIsPage ==
    ASSUME TypeOK, NEW k \in Clients, NEW c, NEW a, NEW l \in Limits, Answer(k, c, a, l)
    PROVE \E p \in SUBSET Matching(c, a), b \in Ids \cup {0} :
             /\ page' = [page EXCEPT ![k] = p] /\ after' = [after EXCEPT ![k] = b]
             /\ company' = [company EXCEPT ![k] = c] /\ UNCHANGED server
             /\ b # 0 => b \in p /\ \A i \in p : i = b \/ Precedes(i, b)
             /\ p # {} => b # 0
             /\ \A i \in Matching(c, a) \ p : b # 0 /\ Precedes(b, i)
  <1>1. PICK p \in SUBSET Matching(c, a), b \in Ids \cup {0} :
          /\ b \in p \cup {0} /\ IsPage(p, Matching(c, a), LimitOf(l)) /\ IsLast(b, p)
          /\ page' = [page EXCEPT ![k] = p] /\ after' = [after EXCEPT ![k] = b]
          /\ company' = [company EXCEPT ![k] = c] /\ UNCHANGED server
    BY DEF Answer, Matching
  <1>2. b \in Ids \cup {0} /\ 0 \notin p
    BY RowsAreRows DEF Matching
  <1>3. /\ b # 0 => b \in p /\ \A i \in p : i = b \/ Precedes(i, b)
        /\ p # {} => b # 0
    BY <1>1, <1>2 DEF IsLast
  <1>4. ASSUME NEW i \in Matching(c, a) \ p PROVE b # 0 /\ Precedes(b, i)
    <2>1. Cardinality(p) = LimitOf(l) /\ \A x \in p, j \in Matching(c, a) \ p : Precedes(x, j)
      BY <1>1, <1>4 DEF IsPage
    <2>2. p # {}
      BY <2>1, LimitIsPositive, FS_EmptySet
    <2> QED BY <1>3, <2>1, <2>2
  <1> QED BY <1>1, <1>2, <1>3, <1>4
-----------------------------------------------------------------------------
LEMMA InvInit == Init => Inv
  BY JobsAssumption DEF Init, Inv, TypeOK, Walk, Told, Ids

\* Rows that are there stay as they are; only an insert with a late time puts
\* one behind a cursor.
LEMMA InsertKeeps == ASSUME Inv, NEW s \in Starts, InsertSample(s) PROVE Inv'
  <1> USE DEF Inv
  <1>1. CASE UNCHANGED <<jobs, late>>
    <2>1. TypeOK'
      BY <1>1, JobsAssumption DEF InsertSample, TypeOK, client, Ids
    <2>2. \A k \in Clients : Walk(k)'
      BY <1>1 DEF InsertSample, client, Walk, Told, Passes, Precedes, Ids
    <2> QED BY <2>1, <2>2
  <1>2. CASE jobs' = Append(jobs, [sample |-> next[s], at |-> now])
    <2>n. PICK n \in Nat : n = Len(jobs) + 1
      BY RowsAreRows
    <2>1. /\ next[s] \in 1..Len(Samples) /\ now \in Times /\ now \in Nat
          /\ [sample |-> next[s], at |-> now] \in Row /\ jobs \in Seq(Row)
      BY JobsAssumption DEF InsertSample, TypeOK, Row
    <2>2. /\ Len(jobs) \in Nat /\ Ids' = Ids \cup {n} /\ n \notin Ids /\ Ids \subseteq Nat \ {0}
          /\ \A i \in Ids : jobs'[i] = jobs[i] /\ i < n
          /\ jobs'[n].at = now /\ jobs' \in Seq(Row)
      BY <1>2, <2>n, <2>1 DEF Ids
    <2>3. /\ UNCHANGED client /\ late \subseteq late' /\ late' \subseteq late \cup {n}
          /\ (\E i \in Ids : jobs[i].at > now) => n \in late'
          /\ UNCHANGED <<now, boot>> /\ next' = [next EXCEPT ![s] = @ + 1]
      BY <1>2, <2>n, JobsAssumption DEF InsertSample
    <2>4. TypeOK'
      <3>1. next' \in [Starts -> 1..(Len(Samples) + 1)]
        BY <2>1, <2>3, JobsAssumption DEF TypeOK
      <3> QED BY <3>1, <2>2, <2>3 DEF TypeOK, client
    <2>5. ASSUME NEW k \in Clients PROVE Walk(k)'
      <3>1. /\ Told(k) \subseteq Ids /\ began[k] \subseteq Ids /\ Walk(k)
            /\ page'[k] = page[k] /\ shown'[k] = shown[k] /\ began'[k] = began[k]
            /\ Told(k)' = Told(k)
        BY <2>3 DEF TypeOK, Told, client
      <3>2. PICK x \in Ids \cup {0} : x = after[k] /\ x = after'[k]
        BY <2>3 DEF TypeOK, client
      <3>3. PICK w \in Companies \cup {Anywhere} : w = company[k] /\ w = company'[k]
        BY <2>3 DEF TypeOK, client
      <3>4. \A i, m \in Ids : Precedes(i, m)' <=> Precedes(i, m)
        BY <2>2 DEF Precedes
      <3>5. \A i \in Ids : Passes(w, i)' <=> Passes(w, i)
        BY <2>2 DEF Passes
      <3>6. ASSUME x # 0, Precedes(x, n)' PROVE n \in late'
        <4>1. x \in Ids /\ jobs'[x] = jobs[x] /\ x < n /\ x \in Nat /\ n \in Nat
          BY <3>6, <2>2, <2>n
        <4>2. jobs[x].at > now
          BY <3>6, <4>1, <2>1, <2>2, RowsAreRows DEF Precedes
        <4> QED BY <4>1, <4>2, <2>3
      <3>7. \A i \in began[k] \ Told(k) : x # 0 /\ Precedes(x, i)'
        BY <3>1, <3>2, <3>4 DEF Walk
      <3>8. x # 0 => \A i \in Told(k) : i = x \/ Precedes(i, x)'
        BY <3>1, <3>2, <3>4 DEF Walk
      <3>9. ASSUME x # 0, NEW i \in Ids', Passes(w, i)', Precedes(x, i)'
            PROVE i \in began[k] \cup late'
        <4>1. CASE i = n
          BY <4>1, <3>6, <3>9
        <4>2. CASE i \in Ids
          BY <4>2, <3>1, <3>2, <3>3, <3>4, <3>5, <3>9, <2>3 DEF Walk
        <4> QED BY <4>1, <4>2, <2>2
      <3>10. \A i \in began[k] : Passes(w, i)'
        BY <3>1, <3>3, <3>5 DEF Walk
      <3>11. Told(k) \subseteq began[k] \cup late' /\ page[k] \cap shown[k] = {}
        BY <3>1, <2>3 DEF Walk
      <3> QED BY <3>1, <3>2, <3>3, <3>7, <3>8, <3>9, <3>10, <3>11 DEF Walk
    <2> QED BY <2>4, <2>5
  <1> QED BY <1>1, <1>2 DEF InsertSample

LEMMA OthersKeep ==
    ASSUME Inv,
           \/ \E s \in Starts : Listen(s) \/ Kill(s)
           \/ \E t \in Times : SetClock(t)
           \/ UNCHANGED vars
    PROVE Inv'
  <1>1. UNCHANGED <<jobs, late, next, client>> /\ now' \in Times
    BY DEF Inv, TypeOK, Listen, Kill, SetClock, vars, server, client
  <1>2. /\ boot' \in [Starts -> {"insert", "serving", "exited"}]
        /\ \A s, t \in Starts : boot'[s] = "serving" /\ boot'[t] = "serving" => s = t
    BY DEF Inv, TypeOK, Listen, Kill, Serving, SetClock, vars, server
  <1>3. \A k \in Clients : Walk(k)'
    BY <1>1 DEF Inv, Walk, Told, Passes, Precedes, Ids, client
  <1> QED BY <1>1, <1>2, <1>3 DEF Inv, TypeOK, Ids, client
-----------------------------------------------------------------------------
\* The clients: what the next page does to a walk.
LEMMA AnswerKeeps ==
    ASSUME Inv, NEW k \in Clients, NEW c \in Companies \cup {Anywhere}, NEW a \in Nat,
           NEW l \in Limits, Answer(k, c, a, l),
           \/ /\ shown' = [shown EXCEPT ![k] = {}]
              /\ began' = [began EXCEPT ![k] = Matching(c, a)]
           \/ /\ shown' = [shown EXCEPT ![k] = @ \cup page[k]] /\ UNCHANGED began
              /\ c = company[k] /\ a = after[k] /\ a # 0
    PROVE Inv'
  <1>1. PICK p \in SUBSET Matching(c, a), b \in Ids \cup {0} :
          /\ page' = [page EXCEPT ![k] = p] /\ after' = [after EXCEPT ![k] = b]
          /\ company' = [company EXCEPT ![k] = c] /\ UNCHANGED server
          /\ b # 0 => b \in p /\ \A i \in p : i = b \/ Precedes(i, b)
          /\ p # {} => b # 0
          /\ \A i \in Matching(c, a) \ p : b # 0 /\ Precedes(b, i)
    BY AnswerIsPage DEF Inv
  <1>2. /\ UNCHANGED <<jobs, late>> /\ Ids' = Ids
        /\ \A i, j : Precedes(i, j)' <=> Precedes(i, j)
        /\ \A x, i : Passes(x, i)' <=> Passes(x, i)
    BY <1>1 DEF server, Ids, Precedes, Passes
  <1>3. /\ Matching(c, a) \subseteq Ids
        /\ \A i \in Matching(c, a) : Passes(c, i) /\ (a = 0 \/ (a \in Ids /\ Precedes(a, i)))
        /\ \A i \in Ids : Passes(c, i) /\ (a = 0 \/ (a \in Ids /\ Precedes(a, i)))
                            => i \in Matching(c, a)
    BY DEF Matching, Passes
  <1>4. TypeOK'
    BY <1>1, <1>2, <1>3 DEF Inv, TypeOK, server, Ids
  <1>5. ASSUME NEW m \in Clients, m # k PROVE Walk(m)'
    <2>1. /\ shown'[m] = shown[m] /\ began'[m] = began[m] /\ page'[m] = page[m]
          /\ after'[m] = after[m] /\ company'[m] = company[m]
      BY <1>1, <1>5 DEF Inv, TypeOK
    <2> QED BY <2>1, <1>2 DEF Inv, Walk, Told, Passes, Precedes, Ids
  <1>6. page'[k] = p /\ after'[k] = b /\ company'[k] = c /\ 0 \notin Ids
    BY <1>1, RowsAreRows DEF Inv, TypeOK
  <1>7. \A i, j, m \in Ids : ~Precedes(i, i) /\ (Precedes(i, j) /\ Precedes(j, m) => Precedes(i, m))
    BY PrecedesIsOrder DEF Inv
  <1>8. \A i \in Ids : b # 0 /\ Passes(c, i) /\ Precedes(b, i) => i \in Matching(c, a)
    BY <1>1, <1>3, <1>7
  <1>9. CASE shown' = [shown EXCEPT ![k] = {}] /\ began' = [began EXCEPT ![k] = Matching(c, a)]
    <2>1. shown'[k] = {} /\ began'[k] = Matching(c, a) /\ Told(k)' = p
      BY <1>6, <1>9 DEF Inv, TypeOK, Told
    <2>2. Walk(k)'
      BY <2>1, <1>1, <1>2, <1>3, <1>6, <1>8 DEF Walk
    <2> QED BY <2>2, <1>4, <1>5 DEF Inv
  <1>10. CASE /\ shown' = [shown EXCEPT ![k] = @ \cup page[k]] /\ UNCHANGED began
              /\ c = company[k] /\ a = after[k] /\ a # 0
    <2>1. /\ shown'[k] = Told(k) /\ began'[k] = began[k] /\ Told(k)' = Told(k) \cup p
          /\ a \in Ids /\ Told(k) \subseteq Ids /\ began[k] \subseteq Ids
          /\ Walk(k)
      BY <1>6, <1>10 DEF Inv, TypeOK, Told
    <2>2. page'[k] \cap shown'[k] = {}
      <3>1. \A i \in Told(k) : i = a \/ Precedes(i, a)
        BY <2>1, <1>10 DEF Walk
      <3>2. \A i \in p : i \in Ids /\ Precedes(a, i)
        BY <1>3, <2>1, <1>10
      <3>3. ASSUME NEW i \in p, i \in Told(k) PROVE FALSE
        BY <3>1, <3>2, <3>3, <2>1, <1>7
      <3> QED BY <3>3, <2>1, <1>6
    <2>3. \A i \in began[k] \ Told(k)' : b # 0 /\ Precedes(b, i)
      <3>1. \A i \in began[k] \ Told(k) : i \in Matching(c, a)
        BY <2>1, <1>3, <1>10 DEF Walk
      <3> QED BY <3>1, <2>1, <1>1
    <2>4. b # 0 => \A i \in Told(k)' : i = b \/ Precedes(i, b)
      <3>1. \A i \in Told(k) : i = a \/ Precedes(i, a)
        BY <2>1, <1>10 DEF Walk
      <3>2. b # 0 => b \in Ids /\ Precedes(a, b)
        BY <1>1, <1>3, <2>1, <1>10
      <3> QED BY <3>1, <3>2, <2>1, <1>1, <1>7
    <2>5. Matching(c, a) \subseteq began[k] \cup late
      BY <2>1, <1>3, <1>10 DEF Walk
    <2>6. Walk(k)'
      <3>1. Told(k)' \subseteq began[k] \cup late
        BY <2>1, <2>5 DEF Walk
      <3>2. \A i \in began[k] : Passes(c, i)
        BY <2>1, <1>10 DEF Walk
      <3> QED BY <3>1, <3>2, <2>1, <2>2, <2>3, <2>4, <2>5, <1>2, <1>6, <1>8 DEF Walk
    <2> QED BY <2>6, <1>4, <1>5 DEF Inv
  <1> QED BY <1>9, <1>10

LEMMA Invariance == Spec => []Inv
  <1>1. Inv /\ [Next]_vars => Inv'
    <2> SUFFICES ASSUME Inv, [Next]_vars PROVE Inv'
      OBVIOUS
    <2>1. ASSUME NEW k \in Clients, NEW l \in Limits, NEW c \in Companies \cup {Anywhere},
                 NEW a \in 0..(Len(jobs) + 1), Begin(k, c, a, l)
          PROVE Inv'
      <3>1. a \in Nat
        BY RowsAreRows DEF Inv
      <3> QED BY <2>1, <3>1, AnswerKeeps DEF Begin
    <2>2. ASSUME NEW k \in Clients, NEW l \in Limits, Follow(k, l) PROVE Inv'
      <3>1. company[k] \in Companies \cup {Anywhere} /\ after[k] \in Nat
        BY RowsAreRows DEF Inv, TypeOK
      <3> QED BY <2>2, <3>1, AnswerKeeps DEF Follow
    <2> QED BY <2>1, <2>2, InsertKeeps, OthersKeep DEF Next
  <1> QED BY <1>1, InvInit, PTL DEF Spec

\* Every state is well typed: one process serves, clients know ids of rows.
THEOREM JobsTypeCorrect == Spec => []TypeOK
  <1>1. Inv => TypeOK
    BY DEF Inv
  <1> QED BY <1>1, Invariance, PTL

\* Following next_after_id shows no row twice and skips none.
THEOREM WalksAreWhole == Spec => []WalkIsWhole
  <1>1. Inv => WalkIsWhole
    BY DEF Inv, Walk, Told, WalkIsWhole
  <1> QED BY <1>1, Invariance, PTL

\* A walk shows a row that came in later only if its time is late.
THEOREM WalksAreSnapshots == Spec => []WalkIsSnapshot
  <1>1. Inv => WalkIsSnapshot
    BY DEF Inv, Walk, Told, WalkIsSnapshot
  <1> QED BY <1>1, Invariance, PTL
=============================================================================
