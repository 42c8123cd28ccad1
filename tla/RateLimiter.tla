---------------------------- MODULE RateLimiter ----------------------------
(***************************************************************************)
(* The rate limiter of POST /polls/{id}/vote (http/middleware.go):         *)
(* RealIPMiddleware decides which address a request counts for, and        *)
(* ipRateLimiter finds the bucket of that address, under its mutex, drops  *)
(* the buckets that were idle for entryTTL on the way, and then, without   *)
(* the mutex, asks the bucket it holds.                                    *)
(*                                                                         *)
(* Time is a tick at a time, and only ages are kept: how long ago an       *)
(* address was seen, how much a bucket has gained.  A bucket is a          *)
(* rate.Limiter of golang.org/x/time: it starts full with Burst tokens and *)
(* gains one in Period ticks.                                              *)
(***************************************************************************)
EXTENDS Naturals, Sequences, FiniteSets

CONSTANTS
    Clients,        \* the addresses votes come from
    Proxies,        \* TRUSTED_PROXIES
    Junk,           \* an entry of a header that does not parse
    Handlers,       \* the goroutines inside the middleware
    Buckets,        \* identities for the rate.Limiter objects, enough of them
    NoBucket,
    Period, Burst,  \* rate.Every(time.Minute/10) and 3 in the code
    TTL,            \* entryTTL: ten minutes in the code
    MaxStall,       \* bound: ticks between getLimiter and Allow of a request
    MaxWindow       \* bound: the length of the watched window

Full == Burst * Period
Addresses == Clients \cup Proxies

\* A bucket dropped for its age must have filled up again, even if the request
\* that took from it had been held up after it was seen: 18 s + MaxStall <= 600 s.
ASSUME LimiterAssumption ==
    /\ Clients \cap Proxies = {} /\ Junk \notin Addresses /\ NoBucket \notin Buckets
    /\ Period \in Nat \ {0} /\ Burst \in Nat \ {0}
    /\ TTL \in Nat /\ MaxStall \in Nat /\ MaxWindow \in Nat
    /\ MaxStall + Full <= TTL + 1

VARIABLES
    limiters,       \* per address: its bucket, NoBucket where there is none
    idle,           \* per address: how long ago it was seen, up to TTL + 1
    content,        \* per bucket: what it holds, in ticks
    held,           \* per handler: the bucket that getLimiter returned
    who,            \* per handler: the client whose request it is
    stall,          \* per handler: how long it has held the bucket
    verdict,        \* the client answered last, and how
    \* history
    watched, since, passed      \* a client, a window, and its requests let through

table  == <<limiters, idle>>
window == <<watched, since, passed>>
vars == <<table, content, held, who, stall, verdict, window>>

Init ==
    /\ limiters = [a \in Addresses |-> NoBucket]
    /\ idle = [a \in Addresses |-> 0]
    /\ content = [b \in Buckets |-> Full]
    /\ held = [h \in Handlers |-> NoBucket]
    /\ who \in [Handlers -> Clients]
    /\ stall = [h \in Handlers |-> 0]
    /\ verdict = <<>>
    /\ watched \in Clients /\ since = 0 /\ passed = 0
-----------------------------------------------------------------------------
(* Which address a request counts for: RealIPMiddleware, then clientIP.    *)

\* What client c may send: from its own address with whatever headers, or
\* through a trusted proxy, which names c first in X-Forwarded-For, or in
\* X-Real-IP alone.
Entries == Addresses \cup {Junk}
Headers == {<<>>} \cup {<<x>> : x \in Entries} \cup {<<x, y>> : x, y \in Entries}
Sent(c) ==
    [peer : {c}, fwd : Headers, real : Headers]
      \cup [peer : Proxies, fwd : {<<c>>, <<Junk, c>>} \cup {<<c, x>> : x \in Entries},
            real : Headers]
      \cup [peer : Proxies, fwd : {<<>>}, real : {<<c>>}]

FirstValid(list, otherwise) ==
    LET valid == {i \in 1..Len(list) : list[i] \in Addresses}
    IN  IF valid = {} THEN otherwise
        ELSE list[CHOOSE i \in valid : \A j \in valid : i <= j]

\* Mutant: the headers are taken from anybody.
AddressFromAnybody(q) == FirstValid(IF q.fwd # <<>> THEN q.fwd ELSE q.real, q.peer)

\* X-Real-IP is looked at only where there is no X-Forwarded-For, and is one
\* address or nothing.
Address(q) ==
    IF q.peer \notin Proxies THEN q.peer
    ELSE IF q.fwd # <<>> THEN FirstValid(q.fwd, q.peer)
    ELSE IF Len(q.real) = 1 THEN FirstValid(q.real, q.peer)
    ELSE q.peer
-----------------------------------------------------------------------------
(* ipRateLimiter.getLimiter, under its mutex, and Allow after it.          *)

Kept == {a \in Addresses : limiters[a] # NoBucket /\ idle[a] <= TTL}
Free == Buckets \ ({limiters[a] : a \in Kept} \cup {held[h] : h \in Handlers})

\* Mutant: an address that is found is not marked as seen.
SeenWhenNew(a) ==
    idle' = [x \in Addresses |-> IF x \in Kept THEN idle[x] ELSE 0]

\* Also of an address whose request will be refused.
Seen(a) ==
    idle' = [x \in Addresses |-> IF x \in Kept \ {a} THEN idle[x] ELSE 0]

GetLimiter(h, c, a) ==
    /\ held[h] = NoBucket
    /\ \E b \in Buckets :
          /\ \/ a \in Kept /\ b = limiters[a] /\ UNCHANGED content
             \/ a \notin Kept /\ b \in Free /\ content' = [content EXCEPT ![b] = Full]
          /\ limiters' = [x \in Addresses |-> IF x = a THEN b
                                              ELSE IF x \in Kept THEN limiters[x]
                                              ELSE NoBucket]
          /\ held' = [held EXCEPT ![h] = b]
    /\ Seen(a)
    /\ who' = [who EXCEPT ![h] = c]
    /\ stall' = [stall EXCEPT ![h] = 0]
    /\ UNCHANGED <<verdict, window>>

Return(h, answer) ==
    /\ held' = [held EXCEPT ![h] = NoBucket]
    /\ stall' = [stall EXCEPT ![h] = 0]
    /\ verdict' = <<who[h], answer>>
    /\ UNCHANGED <<table, who, watched, since>>

Allow(h) ==
    /\ held[h] # NoBucket /\ content[held[h]] >= Period
    /\ content' = [content EXCEPT ![held[h]] = @ - Period]
    /\ passed' = IF who[h] = watched THEN passed + 1 ELSE passed
    /\ Return(h, "passed")

\* 429: nothing is taken.
TooMany(h) ==
    /\ held[h] # NoBucket /\ content[held[h]] < Period
    /\ Return(h, "refused")
    /\ UNCHANGED <<content, passed>>
-----------------------------------------------------------------------------
\* Mutant: an idle bucket gains without end.
LaterUncapped(n, top) == n + 1

Later(n, top) == IF n < top THEN n + 1 ELSE top

\* A tick passes.  A window that grew too long is watched anew.
Tick ==
    /\ \A h \in Handlers : held[h] # NoBucket => stall[h] < MaxStall
    /\ content' = [b \in Buckets |-> Later(content[b], Full)]
    /\ idle' = [a \in Addresses |-> IF limiters[a] = NoBucket THEN 0
                                    ELSE Later(idle[a], TTL + 1)]
    /\ stall' = [h \in Handlers |-> IF held[h] = NoBucket THEN 0 ELSE stall[h] + 1]
    /\ since' = IF since < MaxWindow THEN since + 1 ELSE 0
    /\ passed' = IF since < MaxWindow THEN passed ELSE 0
    /\ UNCHANGED <<limiters, held, who, verdict, watched>>

\* From here on the requests of client c are counted.
Watch(c) ==
    /\ watched' = c /\ since' = 0 /\ passed' = 0
    /\ UNCHANGED <<table, content, held, who, stall, verdict>>

Next ==
    \/ \E h \in Handlers :
          \/ \E c \in Clients : \E a \in {Address(q) : q \in Sent(c)} : GetLimiter(h, c, a)
          \/ Allow(h) \/ TooMany(h)
    \/ Tick
    \/ \E c \in Clients : Watch(c)

Spec == Init /\ [][Next]_vars
-----------------------------------------------------------------------------
(* Properties.                                                             *)

TypeOK ==
    /\ limiters \in [Addresses -> Buckets \cup {NoBucket}]
    /\ idle \in [Addresses -> 0..(TTL + 1)]
    /\ content \in [Buckets -> 0..Full]
    /\ held \in [Handlers -> Buckets \cup {NoBucket}]
    /\ who \in [Handlers -> Clients]
    /\ stall \in [Handlers -> 0..MaxStall]
    /\ verdict \in {<<>>} \cup Clients \X {"passed", "refused"}
    /\ watched \in Clients /\ since \in 0..MaxWindow /\ passed \in Nat

\* A handler that is about to ask its bucket holds the one its client's next
\* request will find, and no other client's: however getLimiter and Allow of
\* several requests interleave and whatever was dropped in between, a client
\* never has two buckets in use, nor two clients one.
OneBucketEach ==
    /\ \A h \in Handlers : held[h] # NoBucket => held[h] = limiters[who[h]]
    /\ \A a, b \in Addresses : limiters[a] = limiters[b] /\ a # b => limiters[a] = NoBucket

\* Dropping idle buckets is invisible: the limiter behaves as if every client
\* had kept one bucket of its own since the start, whichever way its requests
\* come; the requests of others never make one of its requests fail.
Ideal == INSTANCE TokenBucket WITH
             level <- [c \in Clients |->
                         IF limiters[c] = NoBucket THEN Full ELSE content[limiters[c]]]
ImplementsBuckets == Ideal!Spec

\* In any window at most a burst and what the window's length earns is let
\* through of one client, even if its bucket is dropped inside the window.
RateKept == Period * passed <= Full + since
=============================================================================
