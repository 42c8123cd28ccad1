---------------------------- MODULE VotePipeline ----------------------------
(***************************************************************************)
(* The path of a vote through the polling system: the HTTP handler that    *)
(* checks the poll and stores the vote (http/vote_handler.go,              *)
(* domain/vote/service.go), the buffered channel that carries its event    *)
(* to the pool of workers (worker/stats_worker.go, retry/retry.go), the    *)
(* rows of PostgreSQL that both write (repository/postgres/vote_repo.go    *)
(* and the constraints of db/migrations), the administrator who changes or *)
(* deletes the poll meanwhile, and the process that is started, shut down, *)
(* killed and started again (cmd/server/main.go).                          *)
(*                                                                         *)
(* One statement of SQL is one step, since each commits on its own; so is  *)
(* one operation on the channel.  The cache of results, which Vote         *)
(* invalidates after its insert, is the subject of ResultsCache.           *)
(***************************************************************************)
EXTENDS Naturals, Sequences, FiniteSets

CONSTANTS
    Requests,       \* the calls of POST /polls/{id}/vote that are ever made
    Users, Polls, Options,
    OptionsOf,      \* the options each poll was created with
    Workers,        \* the goroutines of the pool (4 in the code)
    Capacity,       \* the buffer of voteCh (100 in the code)
    MaxAttempts,    \* StatsWorker.attempts (4 in the code)
    Faults,         \* how a database call may fail: "before" it takes effect
                    \* (refused, cancelled) or "after" (the reply is lost)
    MaxStarts,      \* bound: how often the process is started
    NoVote          \* in the place of a vote where there is none

\* A row of votes, the content of a request and a worker.VoteEvent alike.
Vote == [poll : Polls, option : Options, user : Users]

ASSUME PipelineAssumption ==
    /\ IsFiniteSet(Users) /\ IsFiniteSet(Polls) /\ IsFiniteSet(Options)
    /\ Workers # {}
    /\ OptionsOf \in [Polls -> SUBSET Options]
    /\ Capacity \in Nat /\ MaxAttempts \in Nat \ {0} /\ MaxStarts \in Nat \ {0}
    /\ Faults \subseteq {"before", "after"}
    /\ NoVote \notin Vote

VARIABLES
    \* the database
    status,         \* polls.status, "absent" once the row is deleted
    window,         \* where the clock stands in the poll's starts_at..ends_at
    votes,          \* the rows of votes
    agg,            \* aggregated_results.votes_count, 0 where there is no row
    \* the handlers, one per request
    pc, req, resp,
    \* the channel and the pool
    queue, wpc, wev, attempt,
    \* func main
    main, starts,
    \* history: what the properties compare with, read by no action
    seen,           \* what was true of the poll at some moment of the handling
    increments,     \* <<v, k>>: the k-th attempt for v was added to agg
    logged,         \* events a log line reports as not aggregated
    dropped         \* events in memory when the process died

pollVars    == <<status, window>>
handlerVars == <<pc, req, resp, seen>>
poolVars    == <<wpc, wev, attempt>>
mainVars    == <<main, starts>>
history     == <<increments, logged, dropped>>
vars == <<pollVars, votes, agg, handlerVars, queue, poolVars, mainVars, history>>

PollStatus == {"draft", "active", "closed"}
Window     == {"before", "open", "after"}
HandlerPC  == {"idle", "status", "window", "create", "send", "sync", "done"}
Response   == {"none", "invalid", "rejected", "conflict", "notFound", "error",
               "accepted"}
WorkerPC   == {"receive", "call", "backoff", "stopped"}
MainPC     == {"serving", "stopping", "draining", "cancelled", "drained",
               "aborted"}
-----------------------------------------------------------------------------
Present(p)  == status[p] # "absent"
Handling(r) == pc[r] \notin {"idle", "done"}
Busy(w)     == wpc[w] \in {"call", "backoff"}

\* The handlers answer until Shutdown returns; then the channel is closed.
Serving   == main \in {"serving", "stopping"}
Closed    == main \in {"draining", "cancelled"}
Cancelled == main = "cancelled"

\* The events that exist only in the memory of the process.
ByHandler == {req[r] : r \in {s \in Requests : pc[s] \in {"send", "sync"}}}
ByQueue   == {queue[i] : i \in 1..Len(queue)}
ByWorker  == {wev[w] : w \in {x \in Workers : Busy(x)}}
InMemory  == ByHandler \cup ByQueue \cup ByWorker

VotesFor(p, o) == {v \in votes : v.poll = p /\ v.option = o}
Counted(v)     == \E i \in increments : i[1] = v

\* What holds of poll p now, of the two conditions for taking its votes.
Facts(p) == (IF status[p] = "active" THEN {"active"} ELSE {})
              \cup (IF window[p] = "open" THEN {"open"} ELSE {})
-----------------------------------------------------------------------------
Init ==
    /\ status \in [Polls -> PollStatus]
    /\ window \in [Polls -> Window]
    /\ votes = {}
    /\ agg = [x \in Polls \X Options |-> 0]
    /\ pc = [r \in Requests |-> "idle"]
    /\ req = [r \in Requests |-> NoVote]
    /\ resp = [r \in Requests |-> "none"]
    /\ seen = [r \in Requests |-> {}]
    /\ queue = <<>>
    /\ wpc = [w \in Workers |-> "receive"]
    /\ wev = [w \in Workers |-> NoVote]
    /\ attempt = [w \in Workers |-> 0]
    /\ main = "serving" /\ starts = 1
    /\ increments = {} /\ logged = {} /\ dropped = {}
-----------------------------------------------------------------------------
(* The handler: handleVote and Service.Vote.                               *)

Goto(r, l) ==
    /\ pc' = [pc EXCEPT ![r] = l]
    /\ UNCHANGED <<req, resp, seen>>

Answer(r, a) ==
    /\ pc' = [pc EXCEPT ![r] = "done"]
    /\ resp' = [resp EXCEPT ![r] = a]
    /\ seen' = [seen EXCEPT ![r] = {}]
    /\ UNCHANGED req

\* A connection accepted before Shutdown may still deliver its request.
Arrive(r, v) ==
    /\ pc[r] = "idle" /\ Serving
    /\ pc' = [pc EXCEPT ![r] = "status"]
    /\ req' = [req EXCEPT ![r] = v]
    /\ seen' = [seen EXCEPT ![r] = Facts(v.poll)]
    /\ UNCHANGED <<pollVars, votes, agg, resp, queue, poolVars, mainVars, history>>

\* An id that does not parse, a body that does not, option_id 0.
BadRequest(r) ==
    /\ pc[r] = "idle" /\ Serving
    /\ Answer(r, "invalid")
    /\ UNCHANGED <<pollVars, votes, agg, queue, poolVars, mainVars, history>>

\* Mutant: a draft passes, only "closed" is turned away.
GetPollStatusDraftPasses(r) ==
    /\ pc[r] = "status"
    /\ LET s == status[req[r].poll] IN
       \/ s \in {"draft", "active"} /\ Goto(r, "window")
       \/ s = "closed" /\ Answer(r, "rejected")
       \/ s = "absent" /\ Answer(r, "notFound")
    /\ UNCHANGED <<pollVars, votes, agg, queue, poolVars, mainVars, history>>

GetPollStatus(r) ==
    /\ pc[r] = "status"
    /\ LET s == status[req[r].poll] IN
       \/ s = "active" /\ Goto(r, "window")
       \/ s \in {"draft", "closed"} /\ Answer(r, "rejected")
       \/ s = "absent" /\ Answer(r, "notFound")
       \/ Faults # {} /\ Answer(r, "error")
    /\ UNCHANGED <<pollVars, votes, agg, queue, poolVars, mainVars, history>>

\* The row is read a second time: the poll may have changed or gone.
GetPollWindow(r) ==
    /\ pc[r] = "window"
    /\ LET p == req[r].poll IN
       \/ Present(p) /\ window[p] = "open" /\ Goto(r, "create")
       \/ Present(p) /\ window[p] # "open" /\ Answer(r, "rejected")
       \/ ~Present(p) /\ Answer(r, "notFound")
       \/ Faults # {} /\ Answer(r, "error")
    /\ UNCHANGED <<pollVars, votes, agg, queue, poolVars, mainVars, history>>

\* Mutant: the unique key covers the option too.
AlreadyVotedSameOption(v) == v \in votes

\* UNIQUE (poll_id, user_id) speaks before the foreign keys do.
AlreadyVoted(v) == \E x \in votes : x.poll = v.poll /\ x.user = v.user

\* Mutant: ON CONFLICT DO NOTHING, so that a second vote is announced again.
InsertableAgain(v) == Present(v.poll) /\ v.option \in OptionsOf[v.poll]
Insertable(v)   == /\ ~AlreadyVoted(v)
                   /\ Present(v.poll)
                   /\ v.option \in OptionsOf[v.poll]

CreateStores(r) ==
    /\ pc[r] = "create" /\ Insertable(req[r])
    /\ votes' = votes \cup {req[r]}
    /\ \/ Goto(r, "send")
       \/ "after" \in Faults /\ Answer(r, "error")
    /\ UNCHANGED <<pollVars, agg, queue, poolVars, mainVars, history>>

CreateFails(r) ==
    /\ pc[r] = "create"
    /\ LET v == req[r] IN
       \/ AlreadyVoted(v) /\ Answer(r, "conflict")
       \/ ~AlreadyVoted(v) /\ ~Present(v.poll) /\ Answer(r, "notFound")
       \/ ~AlreadyVoted(v) /\ Present(v.poll) /\ v.option \notin OptionsOf[v.poll]
            /\ Answer(r, "rejected")
       \/ "before" \in Faults /\ Answer(r, "error")
    /\ UNCHANGED <<pollVars, votes, agg, queue, poolVars, mainVars, history>>

\* Mutant: a plain send, which waits for room in the channel.
SendBlocks(r) ==
    /\ pc[r] = "send" /\ Len(queue) < Capacity
    /\ queue' = Append(queue, req[r])
    /\ Answer(r, "accepted")
    /\ UNCHANGED <<pollVars, votes, agg, poolVars, mainVars, history>>

\* Mutant: the default case forgets the event.
SendDrops(r) ==
    /\ pc[r] = "send"
    /\ \/ Len(queue) < Capacity /\ queue' = Append(queue, req[r])
       \/ Len(queue) >= Capacity /\ UNCHANGED queue
    /\ Answer(r, "accepted")
    /\ UNCHANGED <<pollVars, votes, agg, poolVars, mainVars, history>>

\* The select with a default case: the send never waits for a worker.
Send(r) ==
    /\ pc[r] = "send"
    /\ \/ /\ Len(queue) < Capacity
          /\ queue' = Append(queue, req[r])
          /\ Answer(r, "accepted")
       \/ /\ Len(queue) >= Capacity
          /\ UNCHANGED queue
          /\ Goto(r, "sync")
    /\ UNCHANGED <<pollVars, votes, agg, poolVars, mainVars, history>>

\* Mutant: the table has no foreign key to polls.
IncrementUnchecked(v, k) ==
    /\ agg' = [agg EXCEPT ![<<v.poll, v.option>>] = @ + 1]
    /\ increments' = increments \cup {<<v, k>>}

\* IncrementAggregated: the foreign keys refuse a poll that is gone.
Increment(v, k) ==
    /\ Present(v.poll)
    /\ agg' = [agg EXCEPT ![<<v.poll, v.option>>] = @ + 1]
    /\ increments' = increments \cup {<<v, k>>}

FailsWithoutEffect(v, faults) ==
    /\ ~Present(v.poll) \/ "before" \in faults
    /\ UNCHANGED <<agg, increments>>

FailsWithEffect(v, k, faults) == "after" \in faults /\ Increment(v, k)

\* Queue full: the handler counts the vote itself; 204 whatever comes of it.
SyncIncrement(r) ==
    /\ pc[r] = "sync"
    /\ \/ Increment(req[r], 1) /\ UNCHANGED logged
       \/ /\ FailsWithoutEffect(req[r], Faults) \/ FailsWithEffect(req[r], 1, Faults)
          /\ logged' = logged \cup {req[r]}
    /\ Answer(r, "accepted")
    /\ UNCHANGED <<pollVars, votes, queue, poolVars, mainVars, dropped>>

HandlerStep(r) ==
    \/ GetPollStatus(r) \/ GetPollWindow(r)
    \/ CreateStores(r) \/ CreateFails(r)
    \/ Send(r) \/ SyncIncrement(r)
-----------------------------------------------------------------------------
(* The pool: StatsWorker.loop, process and DoWithRetry.  wpc is "receive"  *)
(* at the select of loop, "call" inside IncrementAggregated, "backoff" at  *)
(* the select between two attempts.                                        *)

Idle(w) ==
    /\ wpc' = [wpc EXCEPT ![w] = "receive"]
    /\ wev' = [wev EXCEPT ![w] = NoVote]
    /\ attempt' = [attempt EXCEPT ![w] = 0]

Receive(w) ==
    /\ wpc[w] = "receive" /\ queue # <<>> /\ ~Cancelled
    /\ queue' = Tail(queue)
    /\ wpc' = [wpc EXCEPT ![w] = "call"]
    /\ wev' = [wev EXCEPT ![w] = Head(queue)]
    /\ attempt' = [attempt EXCEPT ![w] = 1]
    /\ UNCHANGED <<pollVars, votes, agg, handlerVars, mainVars, history>>

\* Both cases of the select are ready and it takes the event: DoWithRetry
\* finds its context cancelled before the first attempt.
ReceiveCancelled(w) ==
    /\ wpc[w] = "receive" /\ queue # <<>> /\ Cancelled
    /\ queue' = Tail(queue)
    /\ logged' = logged \cup {Head(queue)}
    /\ UNCHANGED <<pollVars, votes, agg, handlerVars, poolVars, mainVars,
                   increments, dropped>>

\* Mutant: the worker leaves as soon as the channel is closed.
StopWorkerEarly(w) ==
    /\ wpc[w] = "receive" /\ (Closed \/ Cancelled)
    /\ wpc' = [wpc EXCEPT ![w] = "stopped"]
    /\ UNCHANGED <<pollVars, votes, agg, handlerVars, queue, wev, attempt,
                   mainVars, history>>

\* A closed channel yields its events before it reports that it is closed.
StopWorker(w) ==
    /\ wpc[w] = "receive"
    /\ (Closed /\ queue = <<>>) \/ Cancelled
    /\ wpc' = [wpc EXCEPT ![w] = "stopped"]
    /\ UNCHANGED <<pollVars, votes, agg, handlerVars, queue, wev, attempt,
                   mainVars, history>>

\* Mutant: the result of the call is not returned, so success is retried.
CallSucceedsRetried(w) ==
    /\ wpc[w] = "call"
    /\ Increment(wev[w], attempt[w])
    /\ IF attempt[w] < MaxAttempts
         THEN wpc' = [wpc EXCEPT ![w] = "backoff"] /\ UNCHANGED <<wev, attempt>>
         ELSE Idle(w)
    /\ UNCHANGED <<pollVars, votes, handlerVars, queue, mainVars, logged, dropped>>

CallSucceeds(w) ==
    /\ wpc[w] = "call"
    /\ Increment(wev[w], attempt[w])
    /\ Idle(w)
    /\ UNCHANGED <<pollVars, votes, handlerVars, queue, mainVars, logged, dropped>>

\* Cancelling the context fails the call too, on either side of its effect.
CallFaults == IF Cancelled THEN {"before", "after"} ELSE Faults

\* Mutant: one attempt too many before the loop ends.
CallFailsOnceMore(w) ==
    /\ wpc[w] = "call"
    /\ \/ FailsWithoutEffect(wev[w], CallFaults)
       \/ FailsWithEffect(wev[w], attempt[w], CallFaults)
    /\ \/ /\ attempt[w] <= MaxAttempts
          /\ wpc' = [wpc EXCEPT ![w] = "backoff"]
          /\ UNCHANGED <<wev, attempt, logged>>
       \/ /\ attempt[w] > MaxAttempts
          /\ logged' = logged \cup {wev[w]}
          /\ Idle(w)
    /\ UNCHANGED <<pollVars, votes, handlerVars, queue, mainVars, dropped>>

CallFails(w) ==
    /\ wpc[w] = "call"
    /\ \/ FailsWithoutEffect(wev[w], CallFaults)
       \/ FailsWithEffect(wev[w], attempt[w], CallFaults)
    /\ \/ /\ attempt[w] < MaxAttempts
          /\ wpc' = [wpc EXCEPT ![w] = "backoff"]
          /\ UNCHANGED <<wev, attempt, logged>>
       \/ /\ attempt[w] = MaxAttempts
          /\ logged' = logged \cup {wev[w]}
          /\ Idle(w)
    /\ UNCHANGED <<pollVars, votes, handlerVars, queue, mainVars, dropped>>

\* Mutant: the loop does not count its rounds.
BackoffElapsesUncounted(w) ==
    /\ wpc[w] = "backoff" /\ ~Cancelled
    /\ wpc' = [wpc EXCEPT ![w] = "call"]
    /\ UNCHANGED <<pollVars, votes, agg, handlerVars, queue, wev, attempt, mainVars,
                   history>>

BackoffElapses(w) ==
    /\ wpc[w] = "backoff" /\ ~Cancelled
    /\ wpc' = [wpc EXCEPT ![w] = "call"]
    /\ attempt' = [attempt EXCEPT ![w] = @ + 1]
    /\ UNCHANGED <<pollVars, votes, agg, handlerVars, queue, wev, mainVars, history>>

GiveUp(w) ==
    /\ wpc[w] = "backoff" /\ Cancelled
    /\ logged' = logged \cup {wev[w]}
    /\ Idle(w)
    /\ UNCHANGED <<pollVars, votes, agg, handlerVars, queue, mainVars,
                   increments, dropped>>

WorkerStep(w) ==
    \/ Receive(w) \/ ReceiveCancelled(w) \/ StopWorker(w)
    \/ CallSucceeds(w) \/ CallFails(w) \/ BackoffElapses(w) \/ GiveUp(w)
-----------------------------------------------------------------------------
(* The administrator, and the clock: what happens to the poll meanwhile.   *)

Witnessed ==
    seen' = [r \in Requests |->
               IF Handling(r) THEN seen[r] \cup Facts(req[r].poll)' ELSE seen[r]]

\* PATCH /polls/{id}/status: every status may follow every other.
SetStatus(p, s) ==
    /\ Serving /\ Present(p) /\ s # status[p]
    /\ status' = [status EXCEPT ![p] = s]
    /\ UNCHANGED <<window, votes, agg, pc, req, resp, queue, poolVars, mainVars,
                   history>>
    /\ Witnessed

\* Time passes starts_at or ends_at, or PATCH /polls/{id} moves them.
MoveWindow(p, x) ==
    /\ Present(p) /\ x # window[p]
    /\ window' = [window EXCEPT ![p] = x]
    /\ UNCHANGED <<status, votes, agg, pc, req, resp, queue, poolVars, mainVars,
                   history>>
    /\ Witnessed

\* ON DELETE CASCADE takes the rows of votes and aggregated_results along.
DeletePoll(p) ==
    /\ Serving /\ Present(p)
    /\ status' = [status EXCEPT ![p] = "absent"]
    /\ votes' = {v \in votes : v.poll # p}
    /\ agg' = [x \in Polls \X Options |-> IF x[1] = p THEN 0 ELSE agg[x]]
    /\ increments' = {i \in increments : i[1].poll # p}
    /\ UNCHANGED <<window, handlerVars, queue, poolVars, mainVars, logged, dropped>>
-----------------------------------------------------------------------------
(* func main and the process.                                              *)

Die ==
    /\ main' = "aborted"
    /\ dropped' = dropped \cup InMemory
    /\ pc' = [r \in Requests |-> IF Handling(r) THEN "done" ELSE pc[r]]
    /\ seen' = [r \in Requests |-> {}]
    /\ queue' = <<>>
    /\ wpc' = [w \in Workers |-> "stopped"]
    /\ wev' = [w \in Workers |-> NoVote]
    /\ attempt' = [w \in Workers |-> 0]
    /\ UNCHANGED <<pollVars, votes, agg, req, resp, starts, increments, logged>>

MainGoto(l) ==
    /\ main' = l
    /\ UNCHANGED <<pollVars, votes, agg, handlerVars, queue, poolVars, starts, history>>

Signal == main = "serving" /\ MainGoto("stopping")

\* Mutant: srv.Close in the place of srv.Shutdown, which waits for no handler.
ShutdownReturnsAtOnce == main = "stopping" /\ MainGoto("draining")

\* srv.Shutdown returns nil once no handler runs; close(voteCh) follows.
ShutdownReturns ==
    /\ main = "stopping"
    /\ \A r \in Requests : ~Handling(r)
    /\ MainGoto("draining")

\* Five seconds go by, on a running handler or on a connection that was
\* accepted and sent nothing: os.Exit(1), the channel never closed.
ShutdownTimesOut == main = "stopping" /\ Die

PoolDrained ==
    /\ main = "draining"
    /\ \A w \in Workers : wpc[w] = "stopped"
    /\ MainGoto("drained")

\* Mutant: main waits for workerDone without a timeout.
DrainNeverTimesOut == main = "draining" /\ Cancelled /\ MainGoto("cancelled")

\* The same five seconds bound the drain: workerCancel(), then main returns.
DrainTimesOut == main = "draining" /\ MainGoto("cancelled")
MainReturns   == main = "cancelled" /\ Die

\* The process is killed, or ListenAndServe fails and exits it.
Crash == main \in {"serving", "stopping", "draining"} /\ Die

Restart ==
    /\ main \in {"drained", "aborted"} /\ starts < MaxStarts
    /\ main' = "serving"
    /\ starts' = starts + 1
    /\ wpc' = [w \in Workers |-> "receive"]
    /\ UNCHANGED <<pollVars, votes, agg, handlerVars, queue, wev, attempt, history>>

MainStep ==
    \/ ShutdownReturns \/ ShutdownTimesOut
    \/ PoolDrained \/ DrainTimesOut \/ MainReturns
-----------------------------------------------------------------------------
Next ==
    \/ \E r \in Requests : (\E v \in Vote : Arrive(r, v)) \/ BadRequest(r)
                             \/ HandlerStep(r)
    \/ \E w \in Workers : WorkerStep(w)
    \/ \E p \in Polls : \/ \E s \in PollStatus : SetStatus(p, s)
                        \/ \E x \in Window : MoveWindow(p, x)
                        \/ DeletePoll(p)
    \/ Signal \/ MainStep \/ Crash \/ Restart

Spec == Init /\ [][Next]_vars

\* The Go scheduler runs every goroutine, and every statement is answered.
HandlerFairness == \A r \in Requests : WF_vars(HandlerStep(r))
WorkerFairness  == \A w \in Workers : WF_vars(WorkerStep(w))

\* Nothing is assumed here of the workers, who may hang in a call.
FairSpec == Spec /\ HandlerFairness /\ WF_vars(MainStep)
-----------------------------------------------------------------------------
(* Properties.                                                             *)

TypeOK ==
    /\ status \in [Polls -> PollStatus \cup {"absent"}]
    /\ window \in [Polls -> Window]
    /\ votes \subseteq Vote
    /\ agg \in [Polls \X Options -> Nat]
    /\ pc \in [Requests -> HandlerPC]
    /\ req \in [Requests -> Vote \cup {NoVote}]
    /\ resp \in [Requests -> Response]
    /\ seen \in [Requests -> SUBSET {"active", "open"}]
    /\ queue \in Seq(Vote) /\ Len(queue) <= Capacity
    /\ wpc \in [Workers -> WorkerPC]
    /\ wev \in [Workers -> Vote \cup {NoVote}]
    /\ attempt \in [Workers -> 0..MaxAttempts]
    /\ main \in MainPC /\ starts \in 1..MaxStarts
    /\ increments \subseteq Vote \X (1..MaxAttempts)
    /\ logged \subseteq Vote /\ dropped \subseteq Vote
    /\ \A r \in Requests : Handling(r) => req[r] \in Vote
    /\ \A w \in Workers : Busy(w) => wev[w] \in Vote /\ attempt[w] \in 1..MaxAttempts
    /\ \A w \in Workers : wpc[w] = "backoff" => attempt[w] < MaxAttempts

\* Voting is idempotent per poll and user, whatever interleaves, fails or
\* restarts: of the requests of a user in a poll at most one is answered 204,
\* and while the poll exists the vote it was answered for is stored.
AcceptedOnceAndKept ==
    \A r \in Requests : resp[r] = "accepted" =>
        /\ req[r] \in votes \/ ~Present(req[r].poll)
        /\ \A s \in Requests \ {r} :
              ~(resp[s] = "accepted" /\ req[s].poll = req[r].poll
                                    /\ req[s].user = req[r].user)

\* An event is in one place at a time: no two of the handlers, the slots of
\* the channel and the workers ever hold the same vote, so none is counted by two.
EventHeldOnce ==
    /\ \A r, s \in Requests : r # s /\ pc[r] \in {"send", "sync"}
                                     /\ pc[s] \in {"send", "sync"} => req[r] # req[s]
    /\ \A i, j \in 1..Len(queue) : i # j => queue[i] # queue[j]
    /\ \A w, x \in Workers : w # x /\ Busy(w) /\ Busy(x) => wev[w] # wev[x]
    /\ ByHandler \cap ByQueue = {} /\ ByHandler \cap ByWorker = {}
    /\ ByQueue \cap ByWorker = {}

\* Create committed but its reply was lost: the client got an error, no event
\* was sent, and a repeated vote will be answered "already voted".
ReplyLost(v) == \E r \in Requests : req[r] = v /\ resp[r] = "error"

\* No stored vote disappears from the results without a trace: it is counted,
\* or its event is still on its way, or a log line names it, or the process
\* died with the event in memory, or the reply to its insert was lost.
Accounted ==
    \A v \in votes : Counted(v) \/ v \in InMemory \cup logged \cup dropped \/ ReplyLost(v)

\* The results never show more than the votes that were cast, but for the
\* increments that a retry repeats after their reply was lost: then at most
\* MaxAttempts for each vote.
Limit == IF "after" \in Faults THEN MaxAttempts ELSE 1
NeverOvercounts ==
    \A p \in Polls, o \in Options : agg[<<p, o>>] <= Limit * Cardinality(VotesFor(p, o))

\* No handler is running when the channel is closed: a send on a closed
\* channel would panic.
NoSendAfterClose == (\E r \in Requests : Handling(r)) => Serving

\* A vote is stored only if, at some moment of the handling of its request,
\* the poll was active, and at some moment its window was open: a poll closed
\* before the request came and left closed takes no vote.  One that is closed
\* between the two reads and the insert does.
GatedByPoll ==
    \A r \in Requests : pc[r] \in {"send", "sync"} => seen[r] = {"active", "open"}

\* An event that outlives its poll counts nothing: no row comes back for it.
DeletedLeavesNothing ==
    \A p \in Polls : ~Present(p) =>
        \A o \in Options : VotesFor(p, o) = {} /\ agg[<<p, o>>] = 0

\* When main has seen the pool finish, every event was processed: the channel
\* is empty and neither a handler nor a worker holds one.
DrainedIsEmpty == main = "drained" => InMemory = {}

\* Closing the channel comes between the last handler and the last event.
ShutdownIsOrderly == NoSendAfterClose /\ DrainedIsEmpty

\* After an orderly shutdown the results are the votes, unless the log or an
\* earlier death of the process accounts for a difference.
ExactWhenDrained ==
    main = "drained" /\ logged \cup dropped = {} /\ "after" \notin Faults =>
        \A p \in Polls, o \in Options : agg[<<p, o>>] = Cardinality(VotesFor(p, o))

\* Every request is answered, or dies with the process, even if the pool hangs
\* and the channel is full.
EveryRequestAnswered == \A r \in Requests : Handling(r) ~> ~Handling(r)

\* Every event leaves memory if the workers run: attempts are bounded, so even
\* one that can never be applied is given up.
EventsLeaveMemory ==
    WorkerFairness => \A v \in Vote : (v \in InMemory) ~> (v \notin InMemory)

\* A signal ends the process, whatever the handlers and the workers do.
ShutdownEnds == (main = "stopping") ~> (main \in {"drained", "aborted"})

\* The abstract ledger, which the pipeline implements where no reply is lost.
Ledger == INSTANCE VoteLedger WITH
              live    <- {p \in Polls : Present(p)},
              counted <- {i[1] : i \in increments},
              tally   <- agg
ImplementsLedger == Ledger!Spec
=============================================================================
