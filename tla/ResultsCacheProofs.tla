------------------------- MODULE ResultsCacheProofs -------------------------
(***************************************************************************)
(* The safety properties of ResultsCache, proved for any number of         *)
(* concurrent requests, ballots and polls and any time to live.            *)
(*                                                                         *)
(* Each property speaks of an answer and of the moment its request began;  *)
(* the invariants below follow a request in between.  They rest on what    *)
(* only ever shrinks or grows: polls are deleted for good, a ballot that   *)
(* is gone never comes back, a handler that returned has returned.         *)
(* The last part is about entries that are behind, and why they go.        *)
(***************************************************************************)
EXTENDS ResultsCache, TLAPS

\* What was counted, or stored, when the request began is so still, unless its
\* poll is gone; and who had returned has returned.
BeganInv ==
    \A r \in Readers :
        /\ began[r].counted \cap stored \subseteq counted
        /\ began[r].returned \subseteq Returned
        /\ live \subseteq began[r].live \/ rpc[r] = "idle"

\* A ballot that is yet to be inserted was in no one's view: together with
\* Insert's guard it says that a ballot which is gone never comes back.
NewInv ==
    \A b \in Ballots : vpc[b] = "new" =>
        \A r \in Readers : b \notin began[r].counted \cup began[r].stored

FreshInv == \A b \in Ballots : vpc[b] = "new" => b \notin stored

\* Past the first statement the poll was there when the request began.
StatusInv ==
    \A r \in Readers :
        rpc[r] \in {"lookup", "aggregated", "count", "store"} \/ resp[r] = "ok"
            => rpoll[r] \in began[r].live

\* Between the statements: nothing was counted when the tallies were found
\* empty, and what was read is not behind.
NotBehind(r) ==
    LET there == In(rpoll[r]) \cap stored IN
    /\ began[r].counted \cap there \subseteq snap[r]
    /\ began[r].stored \cap there # {} => snap[r] # {}

ReadInv ==
    \A r \in Readers :
        /\ rpc[r] = "store" => NotBehind(r)
        /\ rpc[r] = "count" => began[r].counted \cap In(rpoll[r]) \cap stored = {}

\* An entry is younger than every invalidation.
FillInv == \A p \in Polls : cache[p] # NoEntry => Returned \cap In(p) \subseteq fill[p]

\* A request has no answer before it is done.
AnswerInv ==
    \A r \in Readers : rpc[r] # "done" => resp[r] = "none" /\ from[r] = "none"

IInv ==
    /\ BeganInv /\ NewInv /\ FreshInv /\ StatusInv /\ ReadInv /\ FillInv /\ AnswerInv
    /\ ReadIsNotBehind /\ InvalidationTakesHold
-----------------------------------------------------------------------------
LEMMA TypeInit == Init => TypeOK
  <1> SUFFICES ASSUME Init PROVE TypeOK
    OBVIOUS
  <1>1. Nothing \in Start
    BY DEF Nothing, Start
  <1> QED BY <1>1 DEF Init, TypeOK, Entry, ReaderPC

LEMMA TypeStep == TypeOK /\ [Next]_vars => TypeOK'
  <1> SUFFICES ASSUME TypeOK, [Next]_vars PROVE TypeOK'
    OBVIOUS
  <1> USE CacheAssumption DEF TypeOK
  <1>1. ASSUME NEW b \in Ballots, Insert(b) PROVE TypeOK'
    BY <1>1 DEF Insert, readerVars
  <1>2. ASSUME NEW b \in Ballots, Invalidate(b) PROVE TypeOK'
    BY <1>2 DEF Invalidate, readerVars, dbVars
  <1>3. ASSUME NEW b \in Ballots, Count(b) PROVE TypeOK'
    BY <1>3 DEF Count, readerVars
  <1>4. ASSUME NEW p \in Polls, DeletePoll(p) PROVE TypeOK'
    BY <1>4 DEF DeletePoll, readerVars
  <1>5. ASSUME NEW r \in Readers, NEW p \in Polls, Begin(r, p) PROVE TypeOK'
    <2>1. [stored |-> stored, counted |-> counted, returned |-> Returned, live |-> live]
             \in Start
      BY DEF Start, Returned
    <2> QED BY <1>5, <2>1 DEF Begin, dbVars, ReaderPC
  <1>6. ASSUME NEW r \in Readers, GetPollStatus(r) PROVE TypeOK'
    BY <1>6 DEF GetPollStatus, Goto, Fail, dbVars, ReaderPC
  <1>7. ASSUME NEW r \in Readers, Lookup(r) PROVE TypeOK'
    <2>1. Fresh(rpoll[r]) => cache[rpoll[r]].shows \in SUBSET Ballots
      BY DEF Fresh, Entry
    <2> QED BY <1>7, <2>1 DEF Lookup, Goto, dbVars, ReaderPC
  <1>8. ASSUME NEW r \in Readers, AggregatedByPoll(r) \/ CountByPoll(r) PROVE TypeOK'
    BY <1>8 DEF AggregatedByPoll, CountByPoll, Read, Goto, Fail, dbVars, ReaderPC
  <1>9. ASSUME NEW r \in Readers, Store(r) PROVE TypeOK'
    <2>1. [shows |-> snap[r], left |-> TTL] \in Entry /\ Returned \in SUBSET Ballots
      BY DEF Entry, Returned
    <2> QED BY <1>9, <2>1 DEF Store, dbVars, ReaderPC
  <1>10. CASE Tick
    <2>1. \A p \in Polls : Fresh(p) => [cache[p] EXCEPT !.left = @ - 1] \in Entry
      BY DEF Fresh, Entry
    <2>2. cache' \in [Polls -> Entry \cup {NoEntry}]
      BY <1>10, <2>1 DEF Tick
    <2> QED BY <1>10, <2>2 DEF Tick, dbVars, readerVars
  <1>11. CASE UNCHANGED vars
    BY <1>11 DEF vars, dbVars, readerVars
  <1> QED
    BY <1>1, <1>2, <1>3, <1>4, <1>5, <1>6, <1>7, <1>8, <1>9, <1>10, <1>11
    DEF Next, Results
-----------------------------------------------------------------------------
(* Steps of the voters, the pool, the administrator and the clock.         *)

LEMMA ReadersInit == Init => IInv
  <1> SUFFICES ASSUME Init PROVE IInv
    OBVIOUS
  <1>1. BeganInv /\ NewInv /\ FreshInv /\ FillInv /\ AnswerInv
    BY DEF Init, Nothing, BeganInv, NewInv, FreshInv, FillInv, AnswerInv
  <1>2. StatusInv /\ ReadInv /\ ReadIsNotBehind /\ InvalidationTakesHold
    BY DEF Init, StatusInv, ReadInv, ReadIsNotBehind, InvalidationTakesHold
  <1> QED BY <1>1, <1>2 DEF IInv

Outside ==
    \/ \E b \in Ballots : Insert(b) \/ Invalidate(b) \/ Count(b)
    \/ \E p \in Polls : DeletePoll(p)
    \/ Tick
    \/ UNCHANGED vars

\* What such a step does to the database and to the handlers of votes.
Monotone ==
    /\ live' \subseteq live
    /\ Returned \subseteq Returned'
    /\ \A b \in stored' : b \in stored \/ vpc[b] = "new"
    /\ counted \cap stored' \subseteq counted'
    /\ \A b \in Ballots : vpc'[b] = "new" => vpc[b] = "new" /\ b \notin stored'

LEMMA OutsideIsMonotone ==
    ASSUME TypeOK, FreshInv, Outside
    PROVE  Monotone /\ UNCHANGED readerVars
  <1> USE DEF TypeOK, FreshInv, Monotone
  <1>1. ASSUME NEW b \in Ballots, Insert(b) PROVE Monotone /\ UNCHANGED readerVars
    BY <1>1 DEF Insert, Returned
  <1>2. ASSUME NEW b \in Ballots, Invalidate(b) PROVE Monotone /\ UNCHANGED readerVars
    BY <1>2 DEF Invalidate, Returned, dbVars
  <1>3. ASSUME NEW b \in Ballots, Count(b) PROVE Monotone /\ UNCHANGED readerVars
    BY <1>3 DEF Count, Returned
  <1>4. ASSUME NEW p \in Polls, DeletePoll(p) PROVE Monotone /\ UNCHANGED readerVars
    BY <1>4 DEF DeletePoll, Returned
  <1>5. CASE Tick \/ UNCHANGED vars
    BY <1>5 DEF Tick, Returned, dbVars, vars
  <1> QED BY <1>1, <1>2, <1>3, <1>4, <1>5 DEF Outside

\* The invariants of the requests survive whatever happens outside of them.
LEMMA ReadersKeep ==
    ASSUME TypeOK, IInv, Monotone, UNCHANGED readerVars
    PROVE  /\ BeganInv' /\ NewInv' /\ FreshInv' /\ StatusInv' /\ ReadInv' /\ AnswerInv'
           /\ ReadIsNotBehind' /\ InvalidationTakesHold'
  <1> USE DEF IInv, Monotone, readerVars, TypeOK
  <1>1. BeganInv' /\ NewInv' /\ FreshInv'
    BY DEF BeganInv, NewInv, FreshInv, Start
  <1>2. StatusInv' /\ AnswerInv' /\ InvalidationTakesHold'
    BY DEF StatusInv, AnswerInv, InvalidationTakesHold
  <1>3. ASSUME NEW r \in Readers, NotBehind(r) PROVE NotBehind(r)'
    BY <1>3 DEF NotBehind, NewInv, Start
  <1>4. ReadInv'
    BY <1>3 DEF ReadInv, NewInv, Start
  <1>5. ReadIsNotBehind'
    BY <1>3 DEF ReadIsNotBehind, NotBehind
  <1> QED BY <1>1, <1>2, <1>4, <1>5

\* An entry is removed before the handler that invalidates it returns.
LEMMA FillKept ==
    ASSUME TypeOK, FillInv, Outside
    PROVE  FillInv'
  <1> SUFFICES ASSUME NEW p \in Polls, cache'[p] # NoEntry
               PROVE  (Returned \cap In(p))' \subseteq fill'[p]
    BY DEF FillInv
  <1> USE DEF TypeOK, FillInv, In, Returned
  <1>1. ASSUME NEW b \in Ballots, Invalidate(b) PROVE (Returned \cap In(p))' \subseteq fill'[p]
    BY <1>1, CacheAssumption DEF Invalidate
  <1>2. ASSUME NEW b \in Ballots, Insert(b) \/ Count(b)
        PROVE  (Returned \cap In(p))' \subseteq fill'[p]
    BY <1>2 DEF Insert, Count
  <1>3. ASSUME NEW q \in Polls, DeletePoll(q) PROVE (Returned \cap In(p))' \subseteq fill'[p]
    BY <1>3 DEF DeletePoll
  <1>4. CASE Tick
    BY <1>4 DEF Tick, Fresh
  <1>5. CASE UNCHANGED vars
    BY <1>5 DEF vars
  <1> QED BY <1>1, <1>2, <1>3, <1>4, <1>5 DEF Outside
-----------------------------------------------------------------------------
(* Steps of a request.                                                     *)

\* Such a step leaves the other requests, the database and the handlers of
\* votes alone, and never touches what its own request saw at its beginning.
Mine(r) ==
    /\ UNCHANGED <<live, stored, counted, vpc>>
    /\ \A s \in Readers \ {r} :
          /\ rpc'[s] = rpc[s] /\ rpoll'[s] = rpoll[s] /\ snap'[s] = snap[s]
          /\ resp'[s] = resp[s] /\ from'[s] = from[s] /\ began'[s] = began[s]
          /\ seenFill'[s] = seenFill[s]

LEMMA ResultsIsMine ==
    ASSUME TypeOK, NEW r \in Readers, Results(r) \/ \E p \in Polls : Begin(r, p)
    PROVE  Mine(r)
  <1> USE DEF TypeOK, Mine, dbVars
  <1>1. CASE \E p \in Polls : Begin(r, p)
    BY <1>1 DEF Begin
  <1>2. CASE GetPollStatus(r) \/ CountByPoll(r) \/ AggregatedByPoll(r)
    BY <1>2 DEF GetPollStatus, CountByPoll, AggregatedByPoll, Goto, Fail, Read
  <1>3. CASE Lookup(r)
    BY <1>3 DEF Lookup, Goto
  <1>4. CASE Store(r)
    BY <1>4 DEF Store
  <1> QED BY <1>1, <1>2, <1>3, <1>4 DEF Results

\* What the invariants say of one request.
Sound(r) ==
    /\ began[r].counted \cap stored \subseteq counted
    /\ began[r].returned \subseteq Returned
    /\ live \subseteq began[r].live \/ rpc[r] = "idle"
    /\ rpc[r] \in {"lookup", "aggregated", "count", "store"} \/ resp[r] = "ok"
            => rpoll[r] \in began[r].live
    /\ rpc[r] = "store" => NotBehind(r)
    /\ rpc[r] = "count" => began[r].counted \cap In(rpoll[r]) \cap stored = {}
    /\ rpc[r] # "done" => resp[r] = "none" /\ from[r] = "none"
    /\ from[r] = "database" => NotBehind(r)
    /\ from[r] = "cache" => began[r].returned \cap In(rpoll[r]) \subseteq seenFill[r]
    /\ \A b \in began[r].counted \cup began[r].stored : vpc[b] # "new"

AllSound == FreshInv /\ FillInv /\ \A r \in Readers : Sound(r)

LEMMA SoundIsIInv == TypeOK => (IInv <=> AllSound)
  BY DEF AllSound, Sound, IInv, BeganInv, NewInv, StatusInv, ReadInv, AnswerInv,
     ReadIsNotBehind, InvalidationTakesHold, NotBehind, TypeOK, Start

LEMMA BeginSound ==
    ASSUME TypeOK, FreshInv, NEW r \in Readers, NEW p \in Polls, Begin(r, p)
    PROVE  Sound(r)'
  <1>1. began'[r] = [stored |-> stored, counted |-> counted, returned |-> Returned,
                     live |-> live]
    BY DEF Begin, TypeOK
  <1>2. rpc'[r] = "status" /\ resp'[r] = "none" /\ from'[r] = "none"
    BY DEF Begin, TypeOK
  <1>3. UNCHANGED <<live, stored, counted, vpc>>
    BY DEF Begin, dbVars
  <1> QED BY <1>1, <1>2, <1>3 DEF Sound, FreshInv, TypeOK, Returned

LEMMA ResultsSound ==
    ASSUME TypeOK, FillInv, NEW r \in Readers, Sound(r), Results(r)
    PROVE  Sound(r)'
  <1> USE DEF TypeOK, dbVars
  <1>1. CASE GetPollStatus(r)
    BY <1>1 DEF GetPollStatus, Goto, Fail, Sound, NotBehind, Returned
  <1>2. CASE Lookup(r)
    <2>1. CASE Fresh(rpoll[r])
      <3>1. began[r].returned \cap In(rpoll[r]) \subseteq fill[rpoll[r]]
        BY <2>1 DEF Fresh, FillInv, Sound, Returned, In
      <3>2. seenFill'[r] = fill[rpoll[r]] /\ from'[r] = "cache" /\ resp'[r] = "ok"
            /\ rpc'[r] = "done"
        BY <1>2, <2>1 DEF Lookup
      <3>3. UNCHANGED <<live, stored, counted, vpc, rpoll, began>>
        BY <1>2, <2>1 DEF Lookup
      <3>4. rpc[r] = "lookup"
        BY <1>2 DEF Lookup
      <3> QED BY <3>1, <3>2, <3>3, <3>4 DEF Sound, In, Returned
    <2>2. CASE ~Fresh(rpoll[r])
      BY <1>2, <2>2 DEF Lookup, Goto, Sound, NotBehind, Returned
    <2> QED BY <2>1, <2>2
  <1>3. CASE AggregatedByPoll(r)
    <2>1. CASE Goto(r, "count") /\ counted \cap In(rpoll[r]) = {}
      BY <1>3, <2>1 DEF AggregatedByPoll, Goto, Sound, NotBehind, Returned
    <2>2. CASE Read(r, counted \cap In(rpoll[r])) /\ counted \cap In(rpoll[r]) # {}
      <3>1. NotBehind(r)'
        BY <1>3, <2>2 DEF Read, Sound, NotBehind, In
      <3> QED BY <1>3, <2>2, <3>1 DEF AggregatedByPoll, Read, Sound, Returned
    <2>3. CASE Fail(r, "error")
      BY <1>3, <2>3 DEF AggregatedByPoll, Fail, Sound, NotBehind, Returned
    <2> QED BY <1>3, <2>1, <2>2, <2>3 DEF AggregatedByPoll
  <1>4. CASE CountByPoll(r)
    <2>1. CASE Read(r, stored \cap In(rpoll[r]))
      <3>1. NotBehind(r)'
        BY <1>4, <2>1 DEF Read, NotBehind, In
      <3> QED BY <1>4, <2>1, <3>1 DEF CountByPoll, Read, Sound, Returned
    <2>2. CASE Fail(r, "error")
      BY <1>4, <2>2 DEF CountByPoll, Fail, Sound, NotBehind, Returned
    <2> QED BY <1>4, <2>1, <2>2 DEF CountByPoll
  <1>5. CASE Store(r)
    BY <1>5 DEF Store, Sound, NotBehind, Returned, In
  <1> QED BY <1>1, <1>2, <1>3, <1>4, <1>5 DEF Results

LEMMA ReaderStep ==
    ASSUME TypeOK, IInv, NEW r \in Readers, Results(r) \/ \E p \in Polls : Begin(r, p)
    PROVE  AllSound'
  <1>1. AllSound
    BY SoundIsIInv
  <1>2. Mine(r)
    BY ResultsIsMine
  <1>3. Sound(r)'
    BY <1>1, BeginSound, ResultsSound DEF AllSound
  <1>4. ASSUME NEW s \in Readers \ {r} PROVE Sound(s)'
    BY <1>1, <1>2 DEF AllSound, Mine, Sound, NotBehind, Returned
  <1>5. FreshInv'
    BY <1>1, <1>2 DEF AllSound, Mine, FreshInv
  <1>6. FillInv'
    <2>1. CASE Store(r)
      BY <1>1, <2>1 DEF AllSound, FillInv, Store, Returned, TypeOK, In
    <2>2. CASE UNCHANGED <<cache, fill, vpc>>
      BY <1>1, <2>2 DEF AllSound, FillInv, Returned
    <2> QED
      BY <2>1, <2>2 DEF Results, Begin, GetPollStatus, Lookup, AggregatedByPoll,
         CountByPoll, Goto, Fail, Read
  <1> QED BY <1>3, <1>4, <1>5, <1>6 DEF AllSound
-----------------------------------------------------------------------------
\* IInv is inductive.
LEMMA Inductive == TypeOK /\ IInv /\ [Next]_vars => IInv'
  <1> SUFFICES ASSUME TypeOK, IInv, [Next]_vars PROVE IInv'
    OBVIOUS
  <1>1. TypeOK'
    BY TypeStep
  <1>2. CASE Outside
    <2>1. Monotone /\ UNCHANGED readerVars /\ FillInv'
      BY <1>2, OutsideIsMonotone, FillKept DEF IInv
    <2> QED BY <2>1, ReadersKeep DEF IInv
  <1>3. ASSUME NEW r \in Readers, Results(r) \/ \E p \in Polls : Begin(r, p)
        PROVE  IInv'
    <2>1. AllSound'
      BY <1>3, ReaderStep
    <2>2. TypeOK' => (IInv' <=> AllSound')
      BY <1>1 DEF AllSound, Sound, IInv, BeganInv, NewInv, StatusInv, ReadInv, AnswerInv,
         ReadIsNotBehind, InvalidationTakesHold, NotBehind, TypeOK, Start
    <2> QED BY <1>1, <2>1, <2>2
  <1> QED BY <1>2, <1>3 DEF Next, Outside

\* Every state has the types TypeOK gives its variables; in particular only
\* stored votes are counted.
THEOREM CacheTypeCorrect == Spec => []TypeOK
  BY TypeInit, TypeStep, PTL DEF Spec

\* No request is answered with results of a poll deleted before it came.
THEOREM DeletedPollsAreNotServed == Spec => []DeletedNotServed
  <1>1. IInv => DeletedNotServed
    BY DEF IInv, StatusInv, DeletedNotServed
  <1> QED BY <1>1, CacheTypeCorrect, ReadersInit, Inductive, PTL DEF Spec

\* An answer read from the database shows what was counted when its request
\* began, and is not empty if there were votes.
THEOREM ReadsAreNotBehind == Spec => []ReadIsNotBehind
  <1>1. IInv => ReadIsNotBehind
    BY DEF IInv
  <1> QED BY <1>1, CacheTypeCorrect, ReadersInit, Inductive, PTL DEF Spec

\* An entry that is served was stored after every vote in its poll that had
\* returned when the request began.
THEOREM InvalidationIsEffective == Spec => []InvalidationTakesHold
  <1>1. IInv => InvalidationTakesHold
    BY DEF IInv
  <1> QED BY <1>1, CacheTypeCorrect, ReadersInit, Inductive, PTL DEF Spec
-----------------------------------------------------------------------------
(* What CountedBecomesVisible needs beside fairness.  A ballot that was    *)
(* counted can be missed only by an entry that is in the cache already and *)
(* by the requests that have already read; there are ever fewer of these,  *)
(* and an entry that none of them renews only grows older.                 *)

\* They have read the results without b, and are about to store them.
Late(b) == {r \in Readers : rpc[r] = "store" /\ rpoll[r] = PollOf[b] /\ b \notin snap[r]}

Missing(b) == Fresh(PollOf[b]) /\ b \notin cache[PollOf[b]].shows

Fades(b) ==
    /\ Late(b)' \subseteq Late(b)
    /\ Missing(b)' => \/ Late(b)' # Late(b)
                      \/ /\ Missing(b)
                         /\ cache'[PollOf[b]].left <= cache[PollOf[b]].left

\* Time does pass for an entry.
Ages(b) == Tick /\ Missing(b)' => cache'[PollOf[b]].left < cache[PollOf[b]].left

StalenessFades == [][\A b \in counted : b \in counted' => Fades(b) /\ Ages(b)]_vars

\* One step of a request that may read: what it has read of a counted ballot's
\* poll shows that ballot.
LEMMA ReadersSeeCounted ==
    ASSUME TypeOK, NEW b \in counted, NEW r \in Readers,
           Results(r) \/ \E p \in Polls : Begin(r, p)
    PROVE  Late(b)' \subseteq Late(b)
  <1>1. Mine(r)
    BY ResultsIsMine
  <1>2. \A s \in Readers \ {r} : s \in Late(b)' => s \in Late(b)
    BY <1>1 DEF Mine, Late
  <1>3. r \in Late(b)' => r \in Late(b)
    <2>1. b \in stored /\ b \in Ballots /\ (rpoll[r] = PollOf[b] => b \in In(rpoll[r]))
      BY DEF TypeOK, In
    <2>2. CASE AggregatedByPoll(r)
      BY <2>1, <2>2 DEF AggregatedByPoll, Read, Goto, Fail, Late, TypeOK
    <2>3. CASE CountByPoll(r)
      BY <2>1, <2>3 DEF CountByPoll, Read, Fail, Late, TypeOK
    <2>4. CASE GetPollStatus(r) \/ Lookup(r) \/ Store(r) \/ \E p \in Polls : Begin(r, p)
      <3>1. rpc'[r] # "store"
        BY <2>4 DEF GetPollStatus, Lookup, Store, Begin, Goto, Fail, TypeOK
      <3> QED BY <3>1 DEF Late
    <2> QED BY <2>2, <2>3, <2>4 DEF Results
  <1> QED BY <1>2, <1>3 DEF Late

LEMMA FadesStep ==
    ASSUME TypeOK, Next, NEW b \in counted, b \in counted'
    PROVE  Fades(b) /\ Ages(b)
  <1> USE DEF TypeOK
  <1>0. b \in Ballots /\ PollOf[b] \in Polls
    BY CacheAssumption
  <1>1. ASSUME UNCHANGED <<rpc, rpoll, snap, cache>> PROVE Fades(b)
    BY <1>0, <1>1 DEF Fades, Late, Missing, Fresh, Entry
  <1>2. ASSUME NEW x \in Ballots, Insert(x) \/ Count(x) PROVE Fades(b)
    BY <1>1, <1>2 DEF Insert, Count, readerVars
  <1>3. ASSUME NEW p \in Polls, DeletePoll(p) PROVE Fades(b)
    BY <1>1, <1>3 DEF DeletePoll, readerVars
  <1>4. ASSUME NEW x \in Ballots, Invalidate(x) PROVE Fades(b)
    BY <1>0, <1>4 DEF Invalidate, readerVars, Fades, Late, Missing, Fresh, Entry
  <1>5. CASE Tick
    <2>1. UNCHANGED <<rpc, rpoll, snap>>
      BY <1>5 DEF Tick, readerVars
    <2>2. Missing(b)' => /\ Missing(b)
                         /\ cache'[PollOf[b]].left < cache[PollOf[b]].left
                         /\ cache'[PollOf[b]].left <= cache[PollOf[b]].left
      BY <1>0, <1>5 DEF Tick, Missing, Fresh, Entry
    <2> QED BY <2>1, <2>2 DEF Fades, Ages, Late
  <1>6. ASSUME NEW r \in Readers, Store(r) PROVE Fades(b)
    <2>1. Late(b)' \subseteq Late(b)
      BY <1>6, ReadersSeeCounted DEF Results
    <2>2. CASE r \in Late(b)
      <3>1. r \notin Late(b)'
        BY <1>6 DEF Store, Late
      <3> QED BY <2>1, <2>2, <3>1 DEF Fades
    <2>3. CASE r \notin Late(b) /\ rpoll[r] = PollOf[b]
      BY <1>0, <1>6, <2>1, <2>3 DEF Store, Late, Fades, Missing
    <2>4. CASE rpoll[r] # PollOf[b]
      BY <1>0, <1>6, <2>1, <2>4 DEF Store, Fades, Missing, Fresh, Entry
    <2> QED BY <2>2, <2>3, <2>4
  <1>7. ASSUME NEW r \in Readers, (\E p \in Polls : Begin(r, p)) \/ (Results(r) /\ ~Store(r))
        PROVE  Fades(b)
    <2>1. Late(b)' \subseteq Late(b)
      BY <1>7, ReadersSeeCounted
    <2>2. UNCHANGED cache
      BY <1>7 DEF Begin, Results, GetPollStatus, Lookup, AggregatedByPoll, CountByPoll,
         Goto, Fail, Read
    <2> QED BY <1>0, <2>1, <2>2 DEF Fades, Missing, Fresh, Entry
  <1>8. ASSUME ~Tick PROVE Ages(b)
    BY <1>8 DEF Ages
  <1> QED BY <1>2, <1>3, <1>4, <1>5, <1>6, <1>7, <1>8 DEF Next

\* Once a vote is counted, results without it are stored at most by the requests
\* that had read before it was; they get fewer with every such store, and between
\* two of them the entry that misses the vote draws nearer to its expiry and is
\* not prolonged by being read.  So the cache may lag behind for TTL after the
\* last of those requests, and no longer.
THEOREM StaleEntriesFade == Spec => StalenessFades
  <1>1. TypeOK /\ [Next]_vars
        => [\A b \in counted : b \in counted' => Fades(b) /\ Ages(b)]_vars
    BY FadesStep
  <1> QED BY <1>1, CacheTypeCorrect, PTL DEF Spec, StalenessFades
=============================================================================
