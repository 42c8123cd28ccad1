------------------------- MODULE RateLimiterProofs -------------------------
(***************************************************************************)
(* RateLimiter implements TokenBucket, for any number of clients, handlers *)
(* and any rate.  The argument: a handler that holds a bucket keeps the    *)
(* entry of its client young, so a bucket is taken from only while its     *)
(* entry is; an entry as old as entryTTL therefore stands for a bucket     *)
(* that has filled up again, and dropping it changes nothing.              *)
(***************************************************************************)
EXTENDS RateLimiter, TLAPS

Holding(h) == held[h] # NoBucket
Level(a) == IF limiters[a] = NoBucket THEN Full ELSE content[limiters[a]]

\* An entry is no older than the youngest request that holds its bucket.
Young == \A h \in Handlers : Holding(h) => idle[who[h]] <= stall[h]

\* What a bucket lacks, it has lacked for less long than its entry is old.
Refilled ==
    \A a \in Addresses : limiters[a] # NoBucket =>
        content[limiters[a]] = Full \/ idle[a] <= content[limiters[a]] + MaxStall

Inv == TypeOK /\ OneBucketEach /\ Young /\ Refilled

\* The bucket of the watched client is accounted to the window as well.
Earned == Period * passed + Level(watched) <= Full + since
-----------------------------------------------------------------------------
LEMMA FullIsNat == Full \in Nat /\ Period <= Full
  BY LimiterAssumption DEF Full

\* A request counts for the client that sent it, whichever way it came.
LEMMA AddressOfClient ==
    ASSUME NEW c \in Clients, NEW q \in Sent(c) PROVE Address(q) = c
  <1>1. CASE q \in [peer : {c}, fwd : Headers, real : Headers]
    BY <1>1, LimiterAssumption DEF Address
  <1>2. CASE q \in [peer : Proxies, fwd : {<<c>>, <<Junk, c>>} \cup {<<c, x>> : x \in Entries},
                    real : Headers]
    <2>1. q.peer \in Proxies /\ q.fwd # <<>> /\ Address(q) = FirstValid(q.fwd, q.peer)
      BY <1>2 DEF Address
    <2>2. CASE q.fwd = <<Junk, c>>
      BY <2>1, <2>2, LimiterAssumption DEF FirstValid, Addresses
    <2>3. CASE q.fwd = <<c>>
      BY <2>1, <2>3 DEF FirstValid, Addresses
    <2>4. ASSUME NEW x \in Entries, q.fwd = <<c, x>> PROVE Address(q) = c
      BY <2>1, <2>4 DEF FirstValid, Addresses
    <2> QED BY <1>2, <2>2, <2>3, <2>4
  <1>3. CASE q \in [peer : Proxies, fwd : {<<>>}, real : {<<c>>}]
    BY <1>3 DEF Address, FirstValid, Addresses
  <1> QED BY <1>1, <1>2, <1>3 DEF Sent
-----------------------------------------------------------------------------
LEMMA InvInit == Init => Inv
  BY LimiterAssumption, FullIsNat
  DEF Init, Inv, TypeOK, OneBucketEach, Young, Refilled, Holding, Addresses

\* An entry that may be dropped stands for a full bucket.
LEMMA DroppedIsFull ==
    ASSUME Inv, NEW a \in Addresses, a \notin Kept PROVE Level(a) = Full
  <1>1. CASE limiters[a] = NoBucket
    BY <1>1 DEF Level
  <1>2. CASE limiters[a] # NoBucket
    <2>1. idle[a] = TTL + 1
      BY <1>2, LimiterAssumption DEF Inv, TypeOK, Kept
    <2>2. limiters[a] \in Buckets /\ content[limiters[a]] \in 0..Full
      BY <1>2 DEF Inv, TypeOK
    <2>3. content[limiters[a]] = Full \/ idle[a] <= content[limiters[a]] + MaxStall
      BY <1>2 DEF Inv, Refilled
    <2> QED BY <1>2, <2>1, <2>2, <2>3, FullIsNat, LimiterAssumption DEF Level
  <1> QED BY <1>1, <1>2

LEMMA GetLimiterKeeps ==
    ASSUME Inv, NEW h \in Handlers, NEW c \in Clients, GetLimiter(h, c, c)
    PROVE Inv' /\ \A a \in Addresses : Level(a)' = Level(a)
  <1> USE DEF Inv, TypeOK
  <1>1. c \in Addresses /\ Full \in Nat /\ Period <= Full
    BY FullIsNat DEF Addresses
  <1>2. PICK b \in Buckets :
          /\ \/ c \in Kept /\ b = limiters[c] /\ UNCHANGED content
             \/ c \notin Kept /\ b \in Free /\ content' = [content EXCEPT ![b] = Full]
          /\ limiters' = [x \in Addresses |-> IF x = c THEN b
                                              ELSE IF x \in Kept THEN limiters[x]
                                              ELSE NoBucket]
          /\ held' = [held EXCEPT ![h] = b]
    BY DEF GetLimiter
  <1>3. /\ idle' = [x \in Addresses |-> IF x \in Kept \ {c} THEN idle[x] ELSE 0]
        /\ who' = [who EXCEPT ![h] = c] /\ stall' = [stall EXCEPT ![h] = 0]
        /\ UNCHANGED <<verdict, window>>
    BY DEF GetLimiter, Seen
  <1>4. b # NoBucket /\ \A a \in Addresses : limiters[a] = NoBucket => a \notin Kept
    BY LimiterAssumption DEF Kept
  <1>5. TypeOK'
    <2>1. limiters' \in [Addresses -> Buckets \cup {NoBucket}]
      BY <1>2
    <2>2. content' \in [Buckets -> 0..Full]
      <3>1. Full \in 0..Full /\ content \in [Buckets -> 0..Full]
        BY <1>1
      <3>2. content' = content \/ content' = [content EXCEPT ![b] = Full]
        BY <1>2
      <3> QED BY <3>1, <3>2
    <2>3. held' \in [Handlers -> Buckets \cup {NoBucket}]
      BY <1>2
    <2>4. /\ idle' \in [Addresses -> 0..(TTL + 1)]
          /\ who' \in [Handlers -> Clients] /\ stall' \in [Handlers -> 0..MaxStall]
      BY <1>3, LimiterAssumption
    <2> QED BY <2>1, <2>2, <2>3, <2>4, <1>3 DEF window, Full
  \* Whoever holds a bucket keeps its entry from being dropped.
  <1>6. ASSUME NEW g \in Handlers, Holding(g) PROVE who[g] \in Kept
    <2>1. limiters[who[g]] # NoBucket /\ who[g] \in Addresses /\ idle[who[g]] <= stall[g]
      BY <1>6 DEF Holding, Young, OneBucketEach, Addresses
    <2>2. stall[g] \in 0..MaxStall /\ MaxStall <= TTL /\ idle[who[g]] \in 0..(TTL + 1)
      BY <2>1, FullIsNat, LimiterAssumption
    <2> QED BY <2>1, <2>2, LimiterAssumption DEF Kept
  <1>7. OneBucketEach'
    <2>1. ASSUME NEW g \in Handlers, held'[g] # NoBucket PROVE held'[g] = limiters'[who'[g]]
      <3>1. CASE g = h
        BY <3>1, <1>1, <1>2, <1>3
      <3>2. CASE g # h
        <4>1. held'[g] = held[g] /\ who'[g] = who[g] /\ Holding(g)
          BY <3>2, <2>1, <1>2, <1>3 DEF Holding
        <4>2. who[g] \in Kept /\ held[g] = limiters[who[g]] /\ who[g] \in Addresses
          BY <4>1, <1>6 DEF OneBucketEach, Holding, Kept
        <4> QED BY <4>1, <4>2, <1>2
      <3> QED BY <3>1, <3>2
    <2>2. \A x, y \in Addresses : limiters'[x] = limiters'[y] /\ x # y => limiters'[x] = NoBucket
      BY <1>1, <1>2, <1>4 DEF OneBucketEach, Free
    <2> QED BY <2>1, <2>2 DEF OneBucketEach
  <1>8. Young'
    <2> SUFFICES ASSUME NEW g \in Handlers, held'[g] # NoBucket
                 PROVE idle'[who'[g]] <= stall'[g]
      BY DEF Young, Holding
    <2>1. CASE g = h
      BY <2>1, <1>1, <1>3
    <2>2. CASE g # h
      <3>1. held'[g] = held[g] /\ who'[g] = who[g] /\ stall'[g] = stall[g] /\ Holding(g)
        BY <2>2, <1>2, <1>3 DEF Holding
      <3>2. idle[who[g]] <= stall[g] /\ who[g] \in Addresses
        BY <3>1 DEF Young, Addresses
      <3> QED BY <3>1, <3>2, <1>3, LimiterAssumption
    <2> QED BY <2>1, <2>2
  <1>9. ASSUME NEW a \in Addresses, a # c, a \in Kept
        PROVE /\ limiters'[a] = limiters[a] /\ limiters[a] \in Buckets
              /\ content'[limiters[a]] = content[limiters[a]] /\ idle'[a] = idle[a]
    BY <1>9, <1>2, <1>3, LimiterAssumption DEF Free, Kept
  <1>10. ASSUME NEW a \in Addresses, a # c, a \notin Kept
         PROVE limiters'[a] = NoBucket
    BY <1>10, <1>2
  <1>11. /\ limiters'[c] = b /\ idle'[c] = 0
         /\ IF c \in Kept THEN b = limiters[c] /\ content'[b] = content[b] ELSE content'[b] = Full
    BY <1>1, <1>2, <1>3
  <1>12. Refilled'
    <2> SUFFICES ASSUME NEW a \in Addresses, limiters'[a] # NoBucket
                 PROVE \/ content'[limiters'[a]] = Full
                       \/ idle'[a] <= content'[limiters'[a]] + MaxStall
      BY DEF Refilled
    <2>1. CASE a = c
      <3>1. content'[b] \in 0..Full
        BY <1>5
      <3> QED BY <2>1, <3>1, <1>11, FullIsNat, LimiterAssumption
    <2>2. CASE a # c
      BY <2>2, <1>9, <1>10, <1>4 DEF Refilled
    <2> QED BY <2>1, <2>2
  <1>13. ASSUME NEW a \in Addresses PROVE Level(a)' = Level(a)
    <2>1. CASE a \in Kept
      BY <2>1, <1>4, <1>9, <1>11 DEF Level
    <2>2. CASE a \notin Kept
      BY <2>2, <1>4, <1>10, <1>11, DroppedIsFull DEF Level, Full
    <2> QED BY <2>1, <2>2
  <1> QED BY <1>5, <1>7, <1>8, <1>12, <1>13

\* Allow takes a token from the bucket of the client, and from no other.
LEMMA AllowKeeps ==
    ASSUME Inv, NEW h \in Handlers, Allow(h)
    PROVE /\ Inv'
          /\ \E c \in Clients :
                /\ c \in Addresses /\ Level(c) >= Period /\ Level(c)' = Level(c) - Period
                /\ \A a \in Addresses \ {c} : Level(a)' = Level(a)
                /\ verdict' = <<c, "passed">> /\ UNCHANGED <<watched, since>>
                /\ passed' = (IF c = watched THEN passed + 1 ELSE passed)
  <1> USE DEF Inv, TypeOK
  <1> DEFINE b == held[h]
  <1>0. PICK c \in Clients : c = who[h]
    OBVIOUS
  <1>1. /\ Holding(h) /\ content[b] >= Period
        /\ content' = [content EXCEPT ![b] = @ - Period]
        /\ passed' = (IF c = watched THEN passed + 1 ELSE passed)
        /\ held' = [held EXCEPT ![h] = NoBucket] /\ stall' = [stall EXCEPT ![h] = 0]
        /\ verdict' = <<c, "passed">>
        /\ UNCHANGED <<limiters, idle, who, watched, since>>
    BY <1>0 DEF Allow, Return, Holding, table
  <1>2. c \in Clients /\ c \in Addresses /\ b = limiters[c] /\ b \in Buckets
    BY <1>0, <1>1 DEF OneBucketEach, Holding, Addresses
  <1>3. Full \in Nat /\ Period <= Full /\ Period \in Nat \ {0}
    BY FullIsNat, LimiterAssumption
  <1>4. content[b] \in 0..Full /\ content'[b] = content[b] - Period
        /\ content'[b] \in 0..Full /\ \A x \in Buckets \ {b} : content'[x] = content[x]
    BY <1>1, <1>2, <1>3
  <1>5. \A a \in Addresses \ {c} : limiters[a] # b
    BY <1>1, <1>2 DEF OneBucketEach, Holding
  <1>6. TypeOK'
    BY <1>1, <1>2, <1>4, LimiterAssumption
  <1>7. OneBucketEach' /\ Young'
    BY <1>1 DEF OneBucketEach, Young, Holding
  <1>8. Refilled'
    <2> SUFFICES ASSUME NEW a \in Addresses, limiters[a] # NoBucket
                 PROVE \/ content'[limiters[a]] = Full
                       \/ idle[a] <= content'[limiters[a]] + MaxStall
      BY <1>1 DEF Refilled
    <2>1. CASE a = c
      <3>1. idle[c] <= stall[h] /\ stall[h] \in 0..MaxStall /\ idle[c] \in Nat
        BY <1>0, <1>1, <1>2, LimiterAssumption DEF Young
      <3> QED BY <2>1, <3>1, <1>2, <1>4, <1>3, LimiterAssumption
    <2>2. CASE a # c
      <3>1. limiters[a] \in Buckets \ {b}
        BY <2>2, <1>5
      <3> QED BY <3>1, <1>4 DEF Refilled
    <2> QED BY <2>1, <2>2
  <1>9. Level(c) >= Period /\ Level(c)' = Level(c) - Period
    BY <1>1, <1>2, <1>4 DEF Level, Holding
  <1>10. ASSUME NEW a \in Addresses \ {c} PROVE Level(a)' = Level(a)
    <2>1. limiters'[a] = limiters[a] /\ (limiters[a] # NoBucket => limiters[a] \in Buckets \ {b})
      BY <1>1, <1>5
    <2> QED BY <2>1, <1>4 DEF Level, Full
  <1> QED BY <1>1, <1>2, <1>6, <1>7, <1>8, <1>9, <1>10

LEMMA TooManyKeeps ==
    ASSUME Inv, NEW h \in Handlers, TooMany(h)
    PROVE /\ Inv'
          /\ \E c \in Clients : Level(c) < Period /\ verdict' = <<c, "refused">>
          /\ UNCHANGED <<watched, since, passed>>
          /\ \A a \in Addresses : Level(a)' = Level(a)
  <1> USE DEF Inv, TypeOK
  <1>1. /\ Holding(h) /\ content[held[h]] < Period
        /\ held' = [held EXCEPT ![h] = NoBucket] /\ stall' = [stall EXCEPT ![h] = 0]
        /\ verdict' = <<who[h], "refused">>
        /\ UNCHANGED <<limiters, idle, content, who, watched, since, passed>>
    BY DEF TooMany, Return, Holding, table
  <1>2. held[h] = limiters[who[h]] /\ who[h] \in Clients
    BY <1>1 DEF OneBucketEach, Holding
  <1>3. TypeOK' /\ OneBucketEach' /\ Young' /\ Refilled'
    BY <1>1, <1>2, LimiterAssumption DEF OneBucketEach, Young, Refilled, Holding
  <1> QED BY <1>1, <1>2, <1>3 DEF Level, Holding, Full

\* Every bucket gains, and so does an address without one, which is full.
LEMMA TickKeeps ==
    ASSUME Inv, Tick
    PROVE Inv' /\ \A a \in Addresses : Level(a)' = Later(Level(a), Full) /\ Level(a) \in 0..Full
  <1> USE DEF Inv, TypeOK
  <1>1. Full \in Nat /\ TTL \in Nat /\ MaxStall \in Nat /\ MaxWindow \in Nat
        /\ MaxStall + Full <= TTL + 1
    BY FullIsNat, LimiterAssumption
  <1>2. /\ \A h \in Handlers : Holding(h) => stall[h] < MaxStall
        /\ content' = [b \in Buckets |-> Later(content[b], Full)]
        /\ idle' = [a \in Addresses |-> IF limiters[a] = NoBucket THEN 0
                                        ELSE Later(idle[a], TTL + 1)]
        /\ stall' = [h \in Handlers |-> IF held[h] = NoBucket THEN 0 ELSE stall[h] + 1]
        /\ since' = (IF since < MaxWindow THEN since + 1 ELSE 0)
        /\ passed' = (IF since < MaxWindow THEN passed ELSE 0)
        /\ UNCHANGED <<limiters, held, who, verdict, watched>>
    BY DEF Tick, Holding
  <1>3. TypeOK'
    BY <1>1, <1>2 DEF Later, Holding
  <1>4. OneBucketEach'
    BY <1>2 DEF OneBucketEach
  <1>5. Young'
    <2> SUFFICES ASSUME NEW h \in Handlers, Holding(h) PROVE idle'[who[h]] <= stall'[h]
      BY <1>2 DEF Young, Holding
    <2>1. who[h] \in Addresses /\ idle[who[h]] <= stall[h] /\ stall'[h] = stall[h] + 1
      BY <1>2 DEF Young, Holding, Addresses
    <2>2. idle'[who[h]] \in {0, idle[who[h]] + 1, TTL + 1} /\ idle'[who[h]] <= idle[who[h]] + 1
      BY <2>1, <1>1, <1>2 DEF Later
    <2> QED BY <2>1, <2>2, <1>1
  <1>6. Refilled'
    <2> SUFFICES ASSUME NEW a \in Addresses, limiters[a] # NoBucket
                 PROVE \/ content'[limiters[a]] = Full
                       \/ idle'[a] <= content'[limiters[a]] + MaxStall
      BY <1>2 DEF Refilled
    <2>1. limiters[a] \in Buckets /\ content[limiters[a]] \in 0..Full /\ idle[a] \in 0..(TTL + 1)
      OBVIOUS
    <2>2. content[limiters[a]] = Full \/ idle[a] <= content[limiters[a]] + MaxStall
      BY DEF Refilled
    <2>3. /\ content'[limiters[a]] = Later(content[limiters[a]], Full)
          /\ idle'[a] = Later(idle[a], TTL + 1)
      BY <2>1, <1>2
    <2> QED BY <2>1, <2>2, <2>3, <1>1 DEF Later
  <1>7. ASSUME NEW a \in Addresses
        PROVE Level(a)' = Later(Level(a), Full) /\ Level(a) \in 0..Full
    BY <1>1, <1>2 DEF Level, Later, Full
  <1> QED BY <1>3, <1>4, <1>5, <1>6, <1>7

LEMMA WatchKeeps ==
    ASSUME Inv, NEW c \in Clients, Watch(c)
    PROVE Inv' /\ \A a \in Addresses : Level(a)' = Level(a)
  BY LimiterAssumption
  DEF Watch, table, Inv, TypeOK, OneBucketEach, Young, Refilled, Holding, Level, Full
-----------------------------------------------------------------------------
\* What a step does to the levels of the clients, one case per action.
LEMMA StepLevels ==
    ASSUME Inv, [Next]_vars
    PROVE /\ Inv'
          /\ \/ /\ \A a \in Addresses : Level(a)' = Level(a)
                /\ UNCHANGED <<verdict, watched, since, passed>>
             \/ \E h \in Handlers : Allow(h)
             \/ \E h \in Handlers : TooMany(h)
             \/ Tick
             \/ \E c \in Clients : Watch(c)
  <1>1. ASSUME NEW h \in Handlers, NEW c \in Clients, NEW q \in Sent(c),
               GetLimiter(h, c, Address(q))
        PROVE Inv' /\ (\A a \in Addresses : Level(a)' = Level(a))
                   /\ UNCHANGED <<verdict, watched, since, passed>>
    <2>1. GetLimiter(h, c, c)
      BY <1>1, AddressOfClient
    <2> QED BY <2>1, GetLimiterKeeps DEF GetLimiter, window
  <1>2. CASE UNCHANGED vars
    BY <1>2 DEF vars, table, window, Inv, TypeOK, OneBucketEach, Young, Refilled, Holding,
            Level, Full
  <1> QED BY <1>1, <1>2, AllowKeeps, TooManyKeeps, TickKeeps, WatchKeeps DEF Next

LEMMA Invariance == Spec => []Inv
  <1>1. Inv /\ [Next]_vars => Inv'
    BY StepLevels
  <1> QED BY <1>1, InvInit, PTL DEF Spec

\* Every state of the limiter is well typed: no bucket holds more than a burst.
THEOREM LimiterTypeCorrect == Spec => []TypeOK
  <1>1. Inv => TypeOK
    BY DEF Inv
  <1> QED BY <1>1, Invariance, PTL

\* However requests interleave and entries are dropped, a client never has two
\* buckets in use, nor two clients one.
THEOREM BucketsAreExclusive == Spec => []OneBucketEach
  <1>1. Inv => OneBucketEach
    BY DEF Inv
  <1> QED BY <1>1, Invariance, PTL

\* The limiter behaves like one everlasting bucket for each client.
THEOREM LimiterImplementsBuckets == Spec => ImplementsBuckets
  <1> DEFINE level == [c \in Clients |->
                         IF limiters[c] = NoBucket THEN Full ELSE content[limiters[c]]]
  <1>1. Init => Ideal!Init
    BY LimiterAssumption DEF Init, Ideal!Init, Full, Ideal!Full, Addresses
  <1>2. level = [c \in Clients |-> Level(c)] /\ Clients \subseteq Addresses
    BY DEF Level, Addresses
  <1>3. level' = [c \in Clients |-> Level(c)']
    BY DEF Level
  <1>4. Inv /\ [Next]_vars => [Ideal!Next]_Ideal!vars
    <2> SUFFICES ASSUME Inv, [Next]_vars PROVE [Ideal!Next]_Ideal!vars
      OBVIOUS
    <2>1. ASSUME \A a \in Addresses : Level(a)' = Level(a) PROVE level' = level
      BY <2>1, <1>2, <1>3
    <2>2. CASE (\A a \in Addresses : Level(a)' = Level(a)) /\ UNCHANGED verdict
      BY <2>1, <2>2 DEF Ideal!vars
    <2>3. ASSUME NEW h \in Handlers, Allow(h) PROVE Ideal!Next
      <3>1. PICK c \in Clients :
              /\ c \in Addresses /\ Level(c) >= Period /\ Level(c)' = Level(c) - Period
              /\ \A a \in Addresses \ {c} : Level(a)' = Level(a)
              /\ verdict' = <<c, "passed">>
        BY <2>3, AllowKeeps
      <3>2. level' = [level EXCEPT ![c] = @ - Period] /\ level[c] >= Period
        <4> HIDE DEF level
        <4> QED BY <3>1, <1>2, <1>3
      <3>3. Ideal!Pass(c)
        BY <3>1, <3>2 DEF Ideal!Pass
      <3> QED BY <3>3 DEF Ideal!Next
    <2>4. ASSUME NEW h \in Handlers, TooMany(h) PROVE Ideal!Next
      <3>1. PICK c \in Clients : Level(c) < Period /\ verdict' = <<c, "refused">>
        BY <2>4, TooManyKeeps
      <3>2. \A a \in Addresses : Level(a)' = Level(a)
        BY <2>4, TooManyKeeps
      <3>3. Ideal!Refuse(c)
        BY <3>1, <3>2, <2>1, <1>2 DEF Ideal!Refuse
      <3> QED BY <3>3 DEF Ideal!Next
    <2>5. CASE Tick
      <3>1. \A a \in Addresses : Level(a)' = Later(Level(a), Full) /\ Level(a) \in 0..Full
        BY <2>5, TickKeeps
      <3>2. level' = [c \in Clients |-> IF level[c] < Full THEN level[c] + 1 ELSE Full]
        BY <3>1, <1>2, <1>3 DEF Later
      <3>3. UNCHANGED verdict
        BY <2>5 DEF Tick
      <3> QED BY <3>2, <3>3 DEF Ideal!Next, Ideal!Tick, Ideal!Full, Full
    <2>6. ASSUME NEW c \in Clients, Watch(c) PROVE UNCHANGED Ideal!vars
      <3>1. (\A a \in Addresses : Level(a)' = Level(a)) /\ UNCHANGED verdict
        BY <2>6, WatchKeeps DEF Watch
      <3> QED BY <3>1, <2>1 DEF Ideal!vars
    <2> HIDE DEF level
    <2> QED BY <2>2, <2>3, <2>4, <2>5, <2>6, StepLevels
  <1> QED BY <1>1, <1>4, Invariance, PTL DEF Spec, ImplementsBuckets, Ideal!Spec

\* In no window is more let through than a burst and what its length earns.
THEOREM RateIsKept == Spec => []RateKept
  <1>1. Init => Earned
    BY FullIsNat, LimiterAssumption DEF Init, Earned, Level, Addresses
  <1>2. Inv /\ Earned /\ [Next]_vars => Earned'
    <2> SUFFICES ASSUME Inv, Earned, [Next]_vars PROVE Earned'
      OBVIOUS
    <2> USE FullIsNat, LimiterAssumption DEF Earned
    <2>1. /\ watched \in Clients /\ watched \in Addresses /\ since \in Nat /\ passed \in Nat
          /\ Period \in Nat /\ Full \in Nat /\ Period * passed \in Nat
          /\ Period * 0 = 0 /\ Period * (passed + 1) = Period * passed + Period
      BY DEF Inv, TypeOK, Addresses
    <2>2. \A a \in Addresses : Level(a) \in 0..Full
      BY DEF Inv, TypeOK, Level
    <2>3. CASE (\A a \in Addresses : Level(a)' = Level(a))
               /\ UNCHANGED <<watched, since, passed>>
      <3>1. Level(watched)' = Level(watched)
        BY <2>1, <2>3 DEF Level
      <3> QED BY <3>1, <2>1, <2>3 DEF Full
    <2>4. ASSUME NEW h \in Handlers, Allow(h) PROVE Earned'
      <3>1. PICK c \in Clients :
              /\ c \in Addresses /\ Level(c) >= Period /\ Level(c)' = Level(c) - Period
              /\ \A a \in Addresses \ {c} : Level(a)' = Level(a)
              /\ UNCHANGED <<watched, since>>
              /\ passed' = (IF c = watched THEN passed + 1 ELSE passed)
        BY <2>4, AllowKeeps
      <3>2. PICK w \in Addresses : w = watched /\ Level(watched)' = Level(w)'
        BY <3>1, <2>1 DEF Level, Full
      <3>3. (Period * passed)' = (IF c = w THEN Period * passed + Period ELSE Period * passed)
        BY <3>1, <3>2, <2>1
      <3> QED BY <3>1, <3>2, <3>3, <2>1, <2>2 DEF Full
    <2>5. ASSUME NEW h \in Handlers, TooMany(h) PROVE Earned'
      <3>1. /\ \A a \in Addresses : Level(a)' = Level(a)
            /\ UNCHANGED <<watched, since, passed>>
        BY <2>5, TooManyKeeps
      <3> QED BY <3>1, <2>3
    <2>6. CASE Tick
      <3>1. \A a \in Addresses : Level(a)' = Later(Level(a), Full)
        BY <2>6, TickKeeps
      <3>2. /\ watched' = watched
            /\ since' = (IF since < MaxWindow THEN since + 1 ELSE 0)
            /\ passed' = (IF since < MaxWindow THEN passed ELSE 0)
        BY <2>6 DEF Tick
      <3>3. Level(watched)' = Later(Level(watched), Full) /\ Level(watched) \in 0..Full
        BY <3>1, <3>2, <2>1, <2>2
      <3>4. (Period * passed)' = (IF since < MaxWindow THEN Period * passed ELSE 0)
        BY <3>2, <2>1
      <3> QED BY <3>2, <3>3, <3>4, <2>1 DEF Later, Full
    <2>7. ASSUME NEW c \in Clients, Watch(c) PROVE Earned'
      <3>1. /\ c \in Addresses /\ Level(c)' = Level(c)
            /\ watched' = c /\ since' = 0 /\ passed' = 0
        BY <2>7, WatchKeeps DEF Watch, Addresses
      <3>2. Level(watched)' = Level(c) /\ (Period * passed)' = 0
        BY <3>1, <2>1
      <3> QED BY <3>1, <3>2, <2>1, <2>2 DEF Full
    <2> QED BY <2>3, <2>4, <2>5, <2>6, <2>7, StepLevels
  <1>3. Inv /\ Earned => RateKept
    BY FullIsNat, LimiterAssumption DEF Inv, TypeOK, Earned, RateKept, Level, Addresses
  <1> QED BY <1>1, <1>2, <1>3, Invariance, PTL DEF Spec
=============================================================================
