---------------------------- MODULE ResultsCache ----------------------------
(***************************************************************************)
(* GET /polls/{id}/results and the cache in front of it                    *)
(* (domain/vote/service.go): a request looks its poll up, then the cache,  *)
(* then the aggregated tallies and, where there are none, the votes        *)
(* themselves, and stores what it read for ten seconds.  Beside it votes   *)
(* are inserted and invalidate the cache, the pool counts them later, the  *)
(* clock runs, and polls are deleted.                                      *)
(*                                                                         *)
(* An answer is the set of ballots it shows: the counts, the total and the *)
(* percentages are functions of that set.  The checks a vote passes before *)
(* its insert and the channel behind it are VotePipeline's subject.        *)
(***************************************************************************)
EXTENDS Integers, FiniteSets

CONSTANTS
    Readers,        \* requests for results under way at a time
    Ballots,        \* the votes that are ever cast, by different users
    Polls,
    PollOf,         \* the poll each ballot is cast in
    TTL,            \* cacheTTL, in ticks of the clock
    DBFails,        \* whether statements may fail
    NoEntry         \* in the place of an entry where there is none

ASSUME CacheAssumption ==
    /\ IsFiniteSet(Ballots)
    /\ PollOf \in [Ballots -> Polls]
    /\ TTL \in Nat
    /\ DBFails \in BOOLEAN
    /\ NoEntry \notin [shows : SUBSET Ballots, left : -1..TTL]

VARIABLES
    live,           \* the polls that exist
    stored,         \* the rows of votes
    counted,        \* those of them that aggregated_results includes
    vpc,            \* where Service.Vote stands with each ballot
    cache,          \* per poll the results and the ticks until expiresAt
    rpc, rpoll, snap, resp,     \* the requests: what Results has read and answered
    \* history
    began,          \* what held when the request began
    from,           \* where the answer came from: the database or the cache
    fill,           \* per poll the ballots that had returned when its entry was stored
    seenFill        \* the same for the entry a request was answered with

dbVars      == <<live, stored, counted>>
readerVars  == <<rpc, rpoll, snap, resp, began, from, seenFill>>
vars == <<dbVars, vpc, cache, fill, readerVars>>

Entry    == [shows : SUBSET Ballots, left : -1..TTL]
ReaderPC == {"idle", "status", "lookup", "aggregated", "count", "store", "done"}
Start    == [stored : SUBSET Ballots, counted : SUBSET Ballots,
             returned : SUBSET Ballots, live : SUBSET Polls]

In(p)     == {b \in Ballots : PollOf[b] = p}
Returned  == {b \in Ballots : vpc[b] = "returned"}
Fresh(p)  == cache[p] # NoEntry /\ cache[p].left >= 0
Nothing   == [stored |-> {}, counted |-> {}, returned |-> {}, live |-> {}]
-----------------------------------------------------------------------------
\* Polls may already have votes when the process starts; the cache is empty.
Init ==
    /\ live = Polls
    /\ stored \in SUBSET Ballots
    /\ counted \in SUBSET stored
    /\ vpc = [b \in Ballots |-> IF b \in stored THEN "before" ELSE "new"]
    /\ cache = [p \in Polls |-> NoEntry]
    /\ rpc = [r \in Readers |-> "idle"]
    /\ rpoll \in [Readers -> Polls]
    /\ snap = [r \in Readers |-> {}]
    /\ resp = [r \in Readers |-> "none"]
    /\ began = [r \in Readers |-> Nothing]
    /\ from = [r \in Readers |-> "none"]
    /\ fill = [p \in Polls |-> {}]
    /\ seenFill = [r \in Readers |-> {}]
-----------------------------------------------------------------------------
(* Votes: the insert, the invalidation, and the pool.                      *)

\* The insert commits; if its reply is lost Vote returns the error at once,
\* invalidates nothing and announces nothing.
Insert(b) ==
    /\ vpc[b] = "new" /\ PollOf[b] \in live
    /\ stored' = stored \cup {b}
    /\ \/ vpc' = [vpc EXCEPT ![b] = "invalidate"]
       \/ DBFails /\ vpc' = [vpc EXCEPT ![b] = "failed"]
    /\ UNCHANGED <<live, counted, cache, fill, readerVars>>

\* Mutant: Vote returns without invalidateCache.
InvalidateNothing(b) ==
    /\ vpc[b] = "invalidate"
    /\ vpc' = [vpc EXCEPT ![b] = "returned"]
    /\ UNCHANGED <<dbVars, cache, fill, readerVars>>

Invalidate(b) ==
    /\ vpc[b] = "invalidate"
    /\ cache' = [cache EXCEPT ![PollOf[b]] = NoEntry]
    /\ vpc' = [vpc EXCEPT ![b] = "returned"]
    /\ UNCHANGED <<dbVars, fill, readerVars>>

\* Mutant: without its foreign keys the table takes counts of a deleted poll.
CountUnchecked(b) ==
    /\ vpc[b] = "returned" /\ b \notin counted
    /\ counted' = counted \cup {b}
    /\ UNCHANGED <<live, stored, vpc, cache, fill, readerVars>>

\* The event is sent when Vote has returned; a worker applies it, or none does.
Count(b) ==
    /\ vpc[b] = "returned" /\ b \in stored \ counted
    /\ counted' = counted \cup {b}
    /\ UNCHANGED <<live, stored, vpc, cache, fill, readerVars>>

\* The cache is not told: the entry of a deleted poll stays where it is.
DeletePoll(p) ==
    /\ p \in live
    /\ live' = live \ {p}
    /\ stored' = stored \ In(p)
    /\ counted' = counted \ In(p)
    /\ UNCHANGED <<vpc, cache, fill, readerVars>>

\* One tick less until expiresAt, for every entry; -1 once it has passed.
Tick ==
    /\ \E p \in Polls : Fresh(p)     \* otherwise nothing depends on the clock
    /\ cache' = [p \in Polls |-> IF Fresh(p) THEN [cache[p] EXCEPT !.left = @ - 1]
                                             ELSE cache[p]]
    /\ UNCHANGED <<dbVars, vpc, fill, readerVars>>
-----------------------------------------------------------------------------
(* Requests for results: Service.Results, one statement or lock at a time. *)

Begin(r, p) ==
    /\ rpc[r] \in {"idle", "done"}
    /\ rpc' = [rpc EXCEPT ![r] = "status"]
    /\ rpoll' = [rpoll EXCEPT ![r] = p]
    /\ snap' = [snap EXCEPT ![r] = {}]
    /\ resp' = [resp EXCEPT ![r] = "none"]
    /\ from' = [from EXCEPT ![r] = "none"]
    /\ seenFill' = [seenFill EXCEPT ![r] = {}]
    /\ began' = [began EXCEPT ![r] = [stored |-> stored, counted |-> counted,
                                      returned |-> Returned, live |-> live]]
    /\ UNCHANGED <<dbVars, vpc, cache, fill>>

Goto(r, l) ==
    /\ rpc' = [rpc EXCEPT ![r] = l]
    /\ UNCHANGED <<dbVars, vpc, cache, rpoll, snap, resp, began, from, fill, seenFill>>

Fail(r, a) ==
    /\ rpc' = [rpc EXCEPT ![r] = "done"]
    /\ resp' = [resp EXCEPT ![r] = a]
    /\ UNCHANGED <<dbVars, vpc, cache, rpoll, snap, began, from, fill, seenFill>>

\* Mutant: the cache is consulted whatever the poll's row says.
GetPollStatusIgnored(r) == rpc[r] = "status" /\ Goto(r, "lookup")

GetPollStatus(r) ==
    /\ rpc[r] = "status"
    /\ \/ rpoll[r] \in live /\ Goto(r, "lookup")
       \/ rpoll[r] \notin live /\ Fail(r, "notFound")
       \/ DBFails /\ Fail(r, "error")

\* Mutant: an entry that is read lives on for another ten seconds.
LookupProlongs(r) ==
    /\ rpc[r] = "lookup"
    /\ IF Fresh(rpoll[r])
         THEN /\ rpc' = [rpc EXCEPT ![r] = "done"]
              /\ resp' = [resp EXCEPT ![r] = "ok"]
              /\ snap' = [snap EXCEPT ![r] = cache[rpoll[r]].shows]
              /\ from' = [from EXCEPT ![r] = "cache"]
              /\ seenFill' = [seenFill EXCEPT ![r] = fill[rpoll[r]]]
              /\ cache' = [cache EXCEPT ![rpoll[r]].left = TTL]
              /\ UNCHANGED <<dbVars, vpc, rpoll, began, fill>>
         ELSE Goto(r, "aggregated")

\* getCached: an entry is served until the clock is past expiresAt.
Lookup(r) ==
    /\ rpc[r] = "lookup"
    /\ IF Fresh(rpoll[r])
         THEN /\ rpc' = [rpc EXCEPT ![r] = "done"]
              /\ resp' = [resp EXCEPT ![r] = "ok"]
              /\ snap' = [snap EXCEPT ![r] = cache[rpoll[r]].shows]
              /\ from' = [from EXCEPT ![r] = "cache"]
              /\ seenFill' = [seenFill EXCEPT ![r] = fill[rpoll[r]]]
              /\ UNCHANGED <<dbVars, vpc, cache, rpoll, began, fill>>
         ELSE Goto(r, "aggregated")

Read(r, shows) ==
    /\ snap' = [snap EXCEPT ![r] = shows]
    /\ rpc' = [rpc EXCEPT ![r] = "store"]
    /\ UNCHANGED <<dbVars, vpc, cache, rpoll, resp, began, from, fill, seenFill>>

\* Mutant: no second look where nothing is aggregated.
AggregatedByPollOnly(r) ==
    /\ rpc[r] = "aggregated"
    /\ \/ Read(r, counted \cap In(rpoll[r]))
       \/ DBFails /\ Fail(r, "error")

AggregatedByPoll(r) ==
    /\ rpc[r] = "aggregated"
    /\ LET shows == counted \cap In(rpoll[r]) IN
       \/ shows # {} /\ Read(r, shows)
       \/ shows = {} /\ Goto(r, "count")
       \/ DBFails /\ Fail(r, "error")

CountByPoll(r) ==
    /\ rpc[r] = "count"
    /\ \/ Read(r, stored \cap In(rpoll[r]))
       \/ DBFails /\ Fail(r, "error")

\* setCached, then the answer.
Store(r) ==
    /\ rpc[r] = "store"
    /\ cache' = [cache EXCEPT ![rpoll[r]] = [shows |-> snap[r], left |-> TTL]]
    /\ fill' = [fill EXCEPT ![rpoll[r]] = Returned]
    /\ rpc' = [rpc EXCEPT ![r] = "done"]
    /\ resp' = [resp EXCEPT ![r] = "ok"]
    /\ from' = [from EXCEPT ![r] = "database"]
    /\ UNCHANGED <<dbVars, vpc, rpoll, snap, began, seenFill>>

Results(r) ==
    \/ GetPollStatus(r) \/ Lookup(r)
    \/ AggregatedByPoll(r) \/ CountByPoll(r) \/ Store(r)
-----------------------------------------------------------------------------
Next ==
    \/ \E b \in Ballots : Insert(b) \/ Invalidate(b) \/ Count(b)
    \/ \E p \in Polls : DeletePoll(p)
    \/ \E r \in Readers : (\E p \in Polls : Begin(r, p)) \/ Results(r)
    \/ Tick

Spec == Init /\ [][Next]_vars

\* Time passes and the runtime runs every handler; nothing obliges the pool,
\* the clients or the administrator.
FairSpec == Spec /\ WF_vars(Tick) /\ \A r \in Readers : WF_vars(Results(r))
-----------------------------------------------------------------------------
(* Properties.                                                             *)

TypeOK ==
    /\ live \subseteq Polls
    /\ counted \subseteq stored /\ stored \subseteq Ballots
    /\ vpc \in [Ballots -> {"before", "new", "invalidate", "failed", "returned"}]
    /\ cache \in [Polls -> Entry \cup {NoEntry}]
    /\ fill \in [Polls -> SUBSET Ballots]
    /\ rpc \in [Readers -> ReaderPC]
    /\ rpoll \in [Readers -> Polls]
    /\ snap \in [Readers -> SUBSET Ballots]
    /\ resp \in [Readers -> {"none", "notFound", "error", "ok"}]
    /\ from \in [Readers -> {"none", "database", "cache"}]
    /\ seenFill \in [Readers -> SUBSET Ballots]
    /\ began \in [Readers -> Start]

\* Results of a poll that was deleted before the request came are not served,
\* though the cache may hold them for another ten seconds.
DeletedNotServed == \A r \in Readers : resp[r] = "ok" => rpoll[r] \in began[r].live

\* An answer that was read from the database is not behind what the database
\* held when the request began: it shows every vote that was counted by then,
\* and it is not empty if there was a vote, counted or not.
ReadIsNotBehind ==
    \A r \in Readers : from[r] = "database" =>
        LET there == In(rpoll[r]) \cap stored IN
        /\ began[r].counted \cap there \subseteq snap[r]
        /\ began[r].stored \cap there # {} => snap[r] # {}

\* What invalidation does achieve: no request is served an entry that was
\* stored before a vote whose handler had returned when the request began.
InvalidationTakesHold ==
    \A r \in Readers : from[r] = "cache" =>
        began[r].returned \cap In(rpoll[r]) \subseteq seenFill[r]

\* README: "In-memory cache (10s TTL) for poll results with invalidation on
\* new votes"; the test expects the total to be 1 after a vote.  A request
\* that begins after a vote was accepted is not told that there is none.
ReadYourVote ==
    \A r \in Readers : resp[r] = "ok" =>
        (began[r].returned \cap In(rpoll[r]) \cap stored # {} => snap[r] # {})

\* A counted vote becomes visible to every request and stays so, without any
\* further vote to invalidate the cache: entries that miss it expire.
CountedBecomesVisible ==
    \A b \in Ballots :
        (b \in counted) ~> [](b \in counted /\ Fresh(PollOf[b])
                                => b \in cache[PollOf[b]].shows)
=============================================================================
