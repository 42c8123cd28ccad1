------------------------- MODULE VotePipelineProofs -------------------------
(***************************************************************************)
(* Theorems about VotePipeline, for every number of requests, users,       *)
(* polls, options, workers, every capacity and every bound on attempts.    *)
(* Types, shutdown, idempotence and the gate come first, then what is      *)
(* counted and what is lost, the refinement of VoteLedger, and last what   *)
(* liveness needs beside fairness.                                         *)
(***************************************************************************)
EXTENDS VotePipeline, TLAPS, FiniteSetTheorems, SequenceTheorems

-----------------------------------------------------------------------------
(* Type correctness.                                                       *)

\* What Increment does to the tallies and to the history keeps their types.
LEMMA IncrementType ==
    ASSUME TypeOK, NEW v \in Vote, NEW k \in 1..MaxAttempts, Increment(v, k)
    PROVE  /\ agg' \in [Polls \X Options -> Nat]
           /\ increments' \subseteq Vote \X (1..MaxAttempts)
  <1>1. <<v.poll, v.option>> \in Polls \X Options
    BY DEF Vote
  <1>2. agg' \in [Polls \X Options -> Nat]
    BY <1>1 DEF Increment, TypeOK
  <1>3. increments' \subseteq Vote \X (1..MaxAttempts)
    BY DEF Increment, TypeOK
  <1> QED BY <1>2, <1>3

LEMMA TypeInit == Init => TypeOK
  <1> SUFFICES ASSUME Init PROVE TypeOK
    OBVIOUS
  <1>1. queue \in Seq(Vote) /\ Len(queue) <= Capacity
    BY PipelineAssumption DEF Init
  <1>2. starts \in 1..MaxStarts
    BY PipelineAssumption DEF Init
  <1>3. \A w \in Workers : ~Busy(w)
    BY DEF Init, Busy
  <1>4. \A r \in Requests : ~Handling(r)
    BY DEF Init, Handling
  <1>5. attempt \in [Workers -> 0..MaxAttempts]
    BY PipelineAssumption DEF Init
  <1> QED
    BY <1>1, <1>2, <1>3, <1>4, <1>5
       DEF Init, TypeOK, PollStatus, Window, HandlerPC, Response, WorkerPC, MainPC

LEMMA TypeHandler ==
    ASSUME TypeOK, NEW r \in Requests,
           (\E v \in Vote : Arrive(r, v)) \/ BadRequest(r) \/ HandlerStep(r)
    PROVE  TypeOK'
  <1> USE DEF HandlerPC, Response
  <1>1. CASE \E v \in Vote : Arrive(r, v)
    BY <1>1 DEF Arrive, TypeOK, Handling, Busy, Facts, pollVars, poolVars, mainVars, history
  <1>2. CASE BadRequest(r)
    BY <1>2 DEF BadRequest, Answer, TypeOK, Handling, Busy, pollVars, poolVars, mainVars, history
  <1>3. CASE GetPollStatus(r)
    BY <1>3 DEF GetPollStatus, Goto, Answer, TypeOK, Handling, Busy, pollVars, poolVars, mainVars, history
  <1>4. CASE GetPollWindow(r)
    BY <1>4 DEF GetPollWindow, Goto, Answer, TypeOK, Handling, Busy, pollVars, poolVars, mainVars, history
  <1>5. CASE CreateStores(r)
    BY <1>5 DEF CreateStores, Goto, Answer, TypeOK, Handling, Busy, pollVars, poolVars, mainVars, history
  <1>6. CASE CreateFails(r)
    BY <1>6 DEF CreateFails, Goto, Answer, TypeOK, Handling, Busy, pollVars, poolVars, mainVars, history
  <1>7. CASE Send(r)
    <2>1. req[r] \in Vote
      BY <1>7 DEF Send, TypeOK, Handling
    <2>2. queue \in Seq(Vote) /\ Len(queue) <= Capacity /\ Capacity \in Nat
      BY PipelineAssumption DEF TypeOK
    <2>3. queue' = queue \/ (Len(queue) < Capacity /\ queue' = Append(queue, req[r]))
      BY <1>7 DEF Send
    <2>4. queue' \in Seq(Vote) /\ Len(queue') <= Capacity
      BY <2>1, <2>2, <2>3, AppendProperties, LenProperties
    <2> QED
      BY <1>7, <2>4 DEF Send, Goto, Answer, TypeOK, Handling, Busy, pollVars, poolVars, mainVars, history
  <1>8. CASE SyncIncrement(r)
    <2>1. req[r] \in Vote
      BY <1>8 DEF SyncIncrement, TypeOK, Handling
    <2>a. 1 \in 1..MaxAttempts
      BY PipelineAssumption
    <2>2. /\ agg' \in [Polls \X Options -> Nat]
          /\ increments' \subseteq Vote \X (1..MaxAttempts)
      BY <1>8, <2>1, <2>a, IncrementType DEF SyncIncrement, FailsWithEffect, FailsWithoutEffect, TypeOK
    <2> QED
      BY <1>8, <2>1, <2>2 DEF SyncIncrement, Answer, TypeOK, Handling, Busy, pollVars, poolVars, mainVars
  <1> QED
    BY <1>1, <1>2, <1>3, <1>4, <1>5, <1>6, <1>7, <1>8 DEF HandlerStep

LEMMA TypeWorker ==
    ASSUME TypeOK, NEW w \in Workers, WorkerStep(w)
    PROVE  TypeOK'
  <1> USE PipelineAssumption DEF WorkerPC
  <1>1. queue # <<>> => /\ Head(queue) \in Vote
                        /\ Tail(queue) \in Seq(Vote) /\ Len(Tail(queue)) <= Capacity
    BY DEF TypeOK
  <1>2. CASE Receive(w)
    BY <1>1, <1>2 DEF Receive, TypeOK, Handling, Busy, pollVars, handlerVars, mainVars, history
  <1>3. CASE ReceiveCancelled(w)
    BY <1>1, <1>3 DEF ReceiveCancelled, TypeOK, Handling, Busy, pollVars, handlerVars, poolVars, mainVars
  <1>4. CASE StopWorker(w)
    BY <1>4 DEF StopWorker, TypeOK, Handling, Busy, pollVars, handlerVars, mainVars, history
  <1>5. CASE CallSucceeds(w)
    <2>1. wev[w] \in Vote /\ attempt[w] \in 1..MaxAttempts
      BY <1>5 DEF CallSucceeds, TypeOK, Busy
    <2>2. /\ agg' \in [Polls \X Options -> Nat]
          /\ increments' \subseteq Vote \X (1..MaxAttempts)
      BY <1>5, <2>1, IncrementType DEF CallSucceeds
    <2> QED
      BY <1>5, <2>1, <2>2 DEF CallSucceeds, Idle, TypeOK, Handling, Busy, pollVars, handlerVars, mainVars
  <1>6. CASE CallFails(w)
    <2>1. wev[w] \in Vote /\ attempt[w] \in 1..MaxAttempts
      BY <1>6 DEF CallFails, TypeOK, Busy
    <2>2. /\ agg' \in [Polls \X Options -> Nat]
          /\ increments' \subseteq Vote \X (1..MaxAttempts)
      BY <1>6, <2>1, IncrementType DEF CallFails, FailsWithEffect, FailsWithoutEffect, TypeOK
    <2>3. CASE attempt[w] < MaxAttempts /\ wpc' = [wpc EXCEPT ![w] = "backoff"]
                 /\ UNCHANGED <<wev, attempt, logged>>
      BY <1>6, <2>1, <2>2, <2>3 DEF CallFails, TypeOK, Handling, Busy, pollVars, handlerVars, mainVars
    <2>4. CASE logged' = logged \cup {wev[w]} /\ Idle(w)
      BY <1>6, <2>1, <2>2, <2>4 DEF CallFails, Idle, TypeOK, Handling, Busy, pollVars, handlerVars, mainVars
    <2> QED
      BY <1>6, <2>3, <2>4 DEF CallFails
  <1>7. CASE BackoffElapses(w)
    BY <1>7 DEF BackoffElapses, TypeOK, Handling, Busy, pollVars, handlerVars, mainVars, history
  <1>8. CASE GiveUp(w)
    BY <1>8 DEF GiveUp, Idle, TypeOK, Handling, Busy, pollVars, handlerVars, mainVars
  <1> QED
    BY <1>2, <1>3, <1>4, <1>5, <1>6, <1>7, <1>8 DEF WorkerStep

LEMMA TypePolls ==
    ASSUME TypeOK, NEW p \in Polls,
           \/ \E s \in PollStatus : SetStatus(p, s)
           \/ \E x \in Window : MoveWindow(p, x)
           \/ DeletePoll(p)
    PROVE  TypeOK'
  <1> USE DEF PollStatus, Window
  <1>1. ASSUME NEW s \in PollStatus, SetStatus(p, s) PROVE TypeOK'
    BY <1>1 DEF SetStatus, Witnessed, Facts, TypeOK, Handling, Busy, poolVars, mainVars, history
  <1>2. ASSUME NEW x \in Window, MoveWindow(p, x) PROVE TypeOK'
    BY <1>2 DEF MoveWindow, Witnessed, Facts, TypeOK, Handling, Busy, poolVars, mainVars, history
  <1>3. CASE DeletePoll(p)
    BY <1>3 DEF DeletePoll, TypeOK, Handling, Busy, handlerVars, poolVars, mainVars
  <1> QED BY <1>1, <1>2, <1>3

\* Everything in memory is a vote.
LEMMA InMemoryType == TypeOK => InMemory \subseteq Vote
  <1> SUFFICES ASSUME TypeOK PROVE InMemory \subseteq Vote
    OBVIOUS
  <1>1. ByHandler \subseteq Vote
    BY DEF ByHandler, TypeOK, Handling
  <1>2. ByQueue \subseteq Vote
    BY DEF ByQueue, TypeOK
  <1>3. ByWorker \subseteq Vote
    BY DEF ByWorker, TypeOK
  <1> QED BY <1>1, <1>2, <1>3 DEF InMemory

LEMMA TypeMain ==
    ASSUME TypeOK, Signal \/ MainStep \/ Crash \/ Restart
    PROVE  TypeOK'
  <1> USE DEF MainPC, WorkerPC, HandlerPC
  <1>1. CASE Die
    <2>1. dropped' \subseteq Vote
      BY <1>1, InMemoryType DEF Die, TypeOK
    <2>2. queue' \in Seq(Vote) /\ Len(queue') <= Capacity
      BY <1>1, PipelineAssumption DEF Die
    <2>3. attempt' \in [Workers -> 0..MaxAttempts]
      BY <1>1, PipelineAssumption DEF Die
    <2>4. /\ pc' \in [Requests -> HandlerPC]
          /\ \A r \in Requests : ~Handling(r)'
      BY <1>1 DEF Die, TypeOK, Handling
    <2>5. \A w \in Workers : wpc'[w] = "stopped"
      BY <1>1 DEF Die
    <2> QED
      BY <1>1, <2>1, <2>2, <2>3, <2>4, <2>5 DEF Die, TypeOK, Busy, pollVars
  <1>2. ASSUME NEW l \in MainPC, MainGoto(l) PROVE TypeOK'
    BY <1>2 DEF MainGoto, TypeOK, Handling, Busy, pollVars, handlerVars, poolVars, history
  <1>3. CASE Restart
    <2>1. starts' \in 1..MaxStarts
      BY <1>3, PipelineAssumption DEF Restart, TypeOK
    <2> QED
      BY <1>3, <2>1 DEF Restart, TypeOK, Handling, Busy, pollVars, handlerVars, history
  <1> QED
    BY <1>1, <1>2, <1>3 DEF Signal, MainStep, ShutdownReturns, ShutdownTimesOut,
       PoolDrained, DrainTimesOut, MainReturns, Crash

LEMMA TypeStep == TypeOK /\ [Next]_vars => TypeOK'
  <1> SUFFICES ASSUME TypeOK, [Next]_vars PROVE TypeOK'
    OBVIOUS
  <1>1. CASE UNCHANGED vars
    BY <1>1 DEF vars, pollVars, handlerVars, poolVars, mainVars, history, TypeOK,
                Handling, Busy
  <1> QED
    BY <1>1, TypeHandler, TypeWorker, TypePolls, TypeMain DEF Next

\* The variables keep their types; a request that is handled has a vote, and so
\* has a worker that is busy, at an attempt from 1 to MaxAttempts: DoWithRetry
\* never calls the database more often than that.
THEOREM TypeCorrect == Spec => []TypeOK
  <1> QED BY TypeInit, TypeStep, PTL DEF Spec
-----------------------------------------------------------------------------
(* Shutdown: no send on a closed channel, and a drained pool left nothing. *)

\* A worker stops only once the channel is closed, and then, unless the pool is
\* cancelled, only after the channel is empty: nothing can be sent any more.
ShutdownInv ==
    /\ NoSendAfterClose
    /\ \A w \in Workers : wpc[w] = "stopped" => ~Serving
    /\ main = "draining" /\ (\E w \in Workers : wpc[w] = "stopped") => queue = <<>>
    /\ main \in {"drained", "aborted"} =>
          queue = <<>> /\ \A w \in Workers : wpc[w] = "stopped"

LEMMA ShutdownInit == Init => ShutdownInv
  BY DEF Init, ShutdownInv, NoSendAfterClose, Handling, Serving

LEMMA ShutdownHandler ==
    ASSUME TypeOK, ShutdownInv, NEW r \in Requests,
           (\E v \in Vote : Arrive(r, v)) \/ BadRequest(r) \/ HandlerStep(r)
    PROVE  ShutdownInv'
  <1>1. Serving
    BY DEF ShutdownInv, NoSendAfterClose, Handling, Arrive, BadRequest, HandlerStep,
           GetPollStatus, GetPollWindow, CreateStores, CreateFails, Send, SyncIncrement
  <1>2. UNCHANGED <<main, wpc>>
    BY DEF Arrive, BadRequest, HandlerStep, GetPollStatus, GetPollWindow, CreateStores,
           CreateFails, Send, SyncIncrement, mainVars, poolVars
  <1> QED
    BY <1>1, <1>2 DEF ShutdownInv, NoSendAfterClose, Serving

LEMMA ShutdownWorker ==
    ASSUME TypeOK, ShutdownInv, NEW w \in Workers, WorkerStep(w)
    PROVE  ShutdownInv'
  <1>1. UNCHANGED <<main, pc>>
    BY DEF WorkerStep, Receive, ReceiveCancelled, StopWorker, CallSucceeds, CallFails,
           BackoffElapses, GiveUp, mainVars, handlerVars
  <1>2. main \notin {"drained", "aborted"}
    BY DEF WorkerStep, Receive, ReceiveCancelled, StopWorker, CallSucceeds, CallFails,
           BackoffElapses, GiveUp, ShutdownInv
  <1>3. CASE StopWorker(w)
    <2>1. UNCHANGED queue /\ ~Serving
      BY <1>3 DEF StopWorker, Closed, Cancelled, Serving
    <2>2. main = "draining" => queue = <<>>
      BY <1>3 DEF StopWorker, Closed, Cancelled
    <2> QED
      BY <1>1, <1>2, <2>1, <2>2 DEF ShutdownInv, NoSendAfterClose, Serving, Handling
  <1>4. CASE Receive(w) \/ ReceiveCancelled(w)
    <2>1. queue # <<>>
      BY <1>4 DEF Receive, ReceiveCancelled
    <2>2. \A x \in Workers : wpc'[x] = "stopped" => wpc[x] = "stopped"
      BY <1>4 DEF Receive, ReceiveCancelled, TypeOK, poolVars
    <2> QED
      BY <1>1, <1>2, <2>1, <2>2 DEF ShutdownInv, NoSendAfterClose, Serving, Handling
  <1>5. CASE CallSucceeds(w) \/ CallFails(w) \/ BackoffElapses(w) \/ GiveUp(w)
    <2>1. UNCHANGED queue
      BY <1>5 DEF CallSucceeds, CallFails, BackoffElapses, GiveUp
    <2>2. \A x \in Workers : wpc'[x] = "stopped" => wpc[x] = "stopped"
      BY <1>5 DEF CallSucceeds, CallFails, BackoffElapses, GiveUp, Idle, TypeOK
    <2> QED
      BY <1>1, <1>2, <2>1, <2>2 DEF ShutdownInv, NoSendAfterClose, Serving, Handling
  <1> QED
    BY <1>3, <1>4, <1>5 DEF WorkerStep

LEMMA ShutdownMain ==
    ASSUME TypeOK, ShutdownInv, Signal \/ MainStep \/ Crash \/ Restart
    PROVE  ShutdownInv'
  <1> USE DEF ShutdownInv, NoSendAfterClose, Serving, Handling
  <1>1. CASE Die
    BY <1>1 DEF Die, TypeOK
  <1>2. CASE Signal
    BY <1>2 DEF Signal, MainGoto, poolVars, handlerVars
  <1>3. CASE ShutdownReturns
    BY <1>3 DEF ShutdownReturns, MainGoto, poolVars, handlerVars
  <1>4. CASE PoolDrained
    <2>1. queue = <<>>
      BY <1>4, PipelineAssumption DEF PoolDrained
    <2> QED
      BY <1>4, <2>1 DEF PoolDrained, MainGoto, poolVars, handlerVars
  <1>5. CASE DrainTimesOut
    BY <1>5 DEF DrainTimesOut, MainGoto, poolVars, handlerVars
  <1>6. CASE Restart
    BY <1>6 DEF Restart, handlerVars
  <1> QED
    BY <1>1, <1>2, <1>3, <1>4, <1>5, <1>6
       DEF MainStep, ShutdownTimesOut, MainReturns, Crash

LEMMA ShutdownStep == TypeOK /\ ShutdownInv /\ [Next]_vars => ShutdownInv'
  <1> SUFFICES ASSUME TypeOK, ShutdownInv, [Next]_vars PROVE ShutdownInv'
    OBVIOUS
  <1>1. CASE UNCHANGED vars
    BY <1>1 DEF vars, handlerVars, poolVars, mainVars, ShutdownInv,
                NoSendAfterClose, Handling, Serving
  <1>2. ASSUME NEW p \in Polls,
               \/ \E s \in PollStatus : SetStatus(p, s)
               \/ \E x \in Window : MoveWindow(p, x)
               \/ DeletePoll(p)
        PROVE  ShutdownInv'
    <2>1. UNCHANGED <<pc, wpc, queue, main>>
      BY <1>2 DEF SetStatus, MoveWindow, DeletePoll, handlerVars, poolVars, mainVars
    <2> QED
      BY <2>1 DEF ShutdownInv, NoSendAfterClose, Handling, Serving
  <1> QED
    BY <1>1, <1>2, ShutdownHandler, ShutdownWorker, ShutdownMain DEF Next

\* No handler runs once voteCh is closed, so no send can panic; and where main
\* has waited for the pool to the end, every event was processed.
THEOREM ShutdownCorrect == Spec => []ShutdownIsOrderly
  <1>1. ShutdownInv => ShutdownIsOrderly
    BY DEF ShutdownInv, ShutdownIsOrderly, NoSendAfterClose, DrainedIsEmpty, InMemory, ByHandler, ByQueue,
           ByWorker, Serving, Handling, Busy
  <1> QED
    BY <1>1, TypeCorrect, ShutdownInit, ShutdownStep, PTL DEF Spec
-----------------------------------------------------------------------------
(* Idempotence: one accepted vote for each user and poll, and it is kept.  *)

\* The vote of r is stored: its handler is past Create, or was when it answered.
Settled(r) == pc[r] \in {"send", "sync"} \/ resp[r] = "accepted"

SameVoter(u, v) == u.poll = v.poll /\ u.user = v.user

\* Strengthened from answered requests to those that will be answered 204: two
\* handlers of one user must be told apart from the insert on.
AcceptedInv ==
    /\ \A r \in Requests : resp[r] # "none" => pc[r] = "done"
    /\ \A r \in Requests : Settled(r) =>
          req[r] \in Vote /\ (req[r] \in votes \/ ~Present(req[r].poll))
    /\ \A r, s \in Requests :
          r # s /\ Settled(r) /\ Settled(s) => ~SameVoter(req[r], req[s])

LEMMA AcceptedInit == Init => AcceptedInv
  BY DEF Init, AcceptedInv, Settled

\* Steps that leave the handlers alone, and take votes away only with their poll.
LEMMA AcceptedFrame ==
    ASSUME AcceptedInv, UNCHANGED <<pc, req, resp>>,
           \A p \in Polls : ~Present(p) => ~Present(p)',
           \A v \in votes : v \in votes' \/ ~Present(v.poll)'
    PROVE  AcceptedInv'
  <1>1. \A r \in Requests : Settled(r)' => Settled(r)
    BY DEF Settled
  <1>2. ASSUME NEW r \in Requests, Settled(r)
        PROVE  req[r] \in votes' \/ ~Present(req[r].poll)'
    <2>1. req[r] \in Vote /\ (req[r] \in votes \/ ~Present(req[r].poll))
      BY <1>2 DEF AcceptedInv
    <2> QED BY <2>1 DEF Vote
  <1> QED
    BY <1>1, <1>2 DEF AcceptedInv, SameVoter, Present

\* Steps of r that do not settle it.
LEMMA AcceptedMove ==
    ASSUME AcceptedInv, NEW r \in Requests, UNCHANGED <<status, votes, req>>,
           \A s \in Requests \ {r} : pc'[s] = pc[s] /\ resp'[s] = resp[s],
           resp'[r] # "none" => pc'[r] = "done",
           Settled(r)' => Settled(r)
    PROVE  AcceptedInv'
  BY DEF AcceptedInv, Settled, SameVoter, Present

\* A handler goes on, or ends with an answer.
LEMMA MoveEffect ==
    ASSUME TypeOK, AcceptedInv, NEW r \in Requests, Handling(r), NEW l, NEW a,
           Goto(r, l) \/ Answer(r, a)
    PROVE  /\ UNCHANGED req
           /\ \A s \in Requests \ {r} : pc'[s] = pc[s] /\ resp'[s] = resp[s]
           /\ resp'[r] # "none" => pc'[r] = "done"
           /\ \/ pc'[r] = l /\ resp'[r] = "none"
              \/ pc'[r] = "done" /\ resp'[r] = a
  <1>1. resp[r] = "none"
    BY DEF AcceptedInv, Handling
  <1>2. CASE Goto(r, l)
    BY <1>1, <1>2 DEF Goto, TypeOK
  <1>3. CASE Answer(r, a)
    BY <1>3 DEF Answer, TypeOK
  <1> QED BY <1>2, <1>3

LEMMA AcceptedHandler ==
    ASSUME TypeOK, AcceptedInv, NEW r \in Requests,
           (\E v \in Vote : Arrive(r, v)) \/ BadRequest(r) \/ HandlerStep(r)
    PROVE  AcceptedInv'
  <1> USE DEF AcceptedInv, Settled, SameVoter, Present
  <1>1. CASE \E v \in Vote : Arrive(r, v)
    BY <1>1 DEF Arrive, TypeOK, pollVars
  <1>2. CASE BadRequest(r)
    BY <1>2 DEF BadRequest, Answer, TypeOK, pollVars
  <1>a. ASSUME pc[r] \in {"status", "window", "create", "send", "sync"},
               UNCHANGED <<status, votes>>,
               NEW l, NEW a, Goto(r, l) \/ Answer(r, a),
               /\ l \in {"send", "sync"} => pc[r] \in {"send", "sync"}
               /\ a = "accepted" => pc[r] \in {"send", "sync"}
        PROVE  AcceptedInv'
    <2> HIDE DEF AcceptedInv, Settled, SameVoter, Present
    <2>1. Handling(r)
      BY <1>a DEF Handling
    <2>2. Settled(r)' => Settled(r)
      BY <1>a, <2>1, MoveEffect DEF Settled
    <2> QED
      BY <1>a, <2>1, <2>2, MoveEffect, AcceptedMove
  <1>3. CASE GetPollStatus(r)
    BY <1>3, <1>a DEF GetPollStatus, pollVars
  <1>4. CASE GetPollWindow(r)
    BY <1>4, <1>a DEF GetPollWindow, pollVars
  <1>5. CASE CreateStores(r)
    <2>1. req[r] \in Vote
      BY <1>5 DEF CreateStores, TypeOK, Handling
    <2>2. ASSUME NEW s \in Requests \ {r}, Settled(s)
          PROVE  ~SameVoter(req[r], req[s])
      BY <1>5, <2>2 DEF CreateStores, Insertable, AlreadyVoted
    <2>3. UNCHANGED status /\ req[r] \in votes' /\ votes \subseteq votes'
      BY <1>5 DEF CreateStores, pollVars
    <2>4. /\ UNCHANGED req
          /\ \A s \in Requests \ {r} : pc'[s] = pc[s] /\ resp'[s] = resp[s]
          /\ resp'[r] # "none" => pc'[r] = "done"
      BY <1>5, MoveEffect DEF CreateStores, Handling
    <2>5. \A s \in Requests \ {r} : Settled(s)' => Settled(s)
      BY <2>4
    <2> QED
      BY <2>1, <2>2, <2>3, <2>4, <2>5
  <1>6. CASE CreateFails(r)
    BY <1>6, <1>a DEF CreateFails, pollVars
  <1>7. CASE Send(r)
    BY <1>7, <1>a DEF Send, pollVars
  <1>8. CASE SyncIncrement(r)
    BY <1>8, <1>a DEF SyncIncrement, pollVars
  <1> QED
    BY <1>1, <1>2, <1>3, <1>4, <1>5, <1>6, <1>7, <1>8 DEF HandlerStep

LEMMA AcceptedMain ==
    ASSUME TypeOK, AcceptedInv, Signal \/ MainStep \/ Crash \/ Restart
    PROVE  AcceptedInv'
  <1>1. CASE Die
    <2>1. UNCHANGED <<status, votes, req, resp>>
      BY <1>1 DEF Die, pollVars
    <2>2. \A s \in Requests : /\ pc'[s] \notin {"send", "sync"}
                              /\ pc[s] = "done" => pc'[s] = "done"
      BY <1>1 DEF Die, Handling
    <2> QED
      BY <2>1, <2>2 DEF AcceptedInv, Settled, SameVoter, Present
  <1>2. ASSUME NEW l \in MainPC, MainGoto(l) PROVE AcceptedInv'
    BY <1>2, AcceptedFrame DEF MainGoto, handlerVars, pollVars, Present
  <1>3. CASE Restart
    BY <1>3, AcceptedFrame DEF Restart, handlerVars, pollVars, Present
  <1> QED
    BY <1>1, <1>2, <1>3 DEF Signal, MainStep, ShutdownReturns, ShutdownTimesOut,
       PoolDrained, DrainTimesOut, MainReturns, Crash, MainPC

LEMMA AcceptedStep == TypeOK /\ AcceptedInv /\ [Next]_vars => AcceptedInv'
  <1> SUFFICES ASSUME TypeOK, AcceptedInv, [Next]_vars PROVE AcceptedInv'
    OBVIOUS
  <1>1. CASE UNCHANGED vars
    BY <1>1, AcceptedFrame DEF vars, handlerVars, pollVars, Present
  <1>2. ASSUME NEW w \in Workers, WorkerStep(w) PROVE AcceptedInv'
    BY <1>2, AcceptedFrame DEF WorkerStep, Receive, ReceiveCancelled, StopWorker,
       CallSucceeds, CallFails, BackoffElapses, GiveUp, handlerVars, pollVars, Present
  <1>3. ASSUME NEW p \in Polls, NEW s \in PollStatus, SetStatus(p, s) PROVE AcceptedInv'
    <2>1. UNCHANGED <<pc, req, resp, votes>>
      BY <1>3 DEF SetStatus
    <2>2. \A q \in Polls : ~Present(q) => ~Present(q)'
      BY <1>3 DEF SetStatus, Present, TypeOK
    <2> QED BY <2>1, <2>2, AcceptedFrame
  <1>4. ASSUME NEW p \in Polls, NEW x \in Window, MoveWindow(p, x) PROVE AcceptedInv'
    BY <1>4, AcceptedFrame DEF MoveWindow, Present
  <1>5. ASSUME NEW p \in Polls, DeletePoll(p) PROVE AcceptedInv'
    <2>1. UNCHANGED <<pc, req, resp>>
      BY <1>5 DEF DeletePoll, handlerVars
    <2>2. ~Present(p)' /\ \A q \in Polls : ~Present(q) => ~Present(q)'
      BY <1>5 DEF DeletePoll, Present, TypeOK
    <2>3. \A v \in votes : v \in votes' \/ ~Present(v.poll)'
      BY <1>5, <2>2 DEF DeletePoll
    <2> QED BY <2>1, <2>2, <2>3, AcceptedFrame
  <1> QED
    BY <1>1, <1>2, <1>3, <1>4, <1>5, AcceptedHandler, AcceptedMain DEF Next

\* README: "Voting is idempotent per poll/user via DB unique constraint".  Of the
\* requests of a user in a poll at most one is answered 204, over crashes and
\* restarts, and its vote is stored for as long as the poll exists.
THEOREM VotingIsIdempotent == Spec => []AcceptedOnceAndKept
  <1>1. AcceptedInv => AcceptedOnceAndKept
    BY DEF AcceptedInv, AcceptedOnceAndKept, Settled, SameVoter
  <1> QED
    BY <1>1, TypeCorrect, AcceptedInit, AcceptedStep, PTL DEF Spec
-----------------------------------------------------------------------------
(* The gate: a poll that is active, and a window that is open.             *)

\* What holds of the poll of a request is among what the history says of it,
\* and what a statement has found to hold stays there while the request runs.
GateInv ==
    \A r \in Requests :
        /\ Handling(r) => Facts(req[r].poll) \subseteq seen[r]
        /\ pc[r] \in {"window", "create", "send", "sync"} => "active" \in seen[r]
        /\ pc[r] \in {"create", "send", "sync"} => "open" \in seen[r]

LEMMA GateInit == Init => GateInv
  BY DEF Init, GateInv, Handling

\* Steps that leave the poll and the history alone, and take no handler on.
LEMMA GateFrame ==
    ASSUME GateInv, UNCHANGED <<status, window, req, seen>>,
           \A r \in Requests : pc'[r] \in {pc[r], "done"}
    PROVE  GateInv'
  BY DEF GateInv, Handling, Facts

\* A handler of which the other handlers know nothing goes on, or ends.
LEMMA GateMove ==
    ASSUME TypeOK, GateInv, NEW r \in Requests, UNCHANGED <<status, window>>,
           NEW l, NEW a, Handling(r), Goto(r, l) \/ Answer(r, a),
           l \in {"window", "create", "send", "sync"} => "active" \in seen[r],
           l \in {"create", "send", "sync"} => "open" \in seen[r]
    PROVE  GateInv'
  <1>1. /\ UNCHANGED req
        /\ \A s \in Requests \ {r} : pc'[s] = pc[s] /\ seen'[s] = seen[s]
        /\ pc'[r] = "done" \/ (pc'[r] = l /\ seen'[r] = seen[r])
    BY DEF Goto, Answer, TypeOK
  <1> QED BY <1>1 DEF GateInv, Handling, Facts

LEMMA GateHandler ==
    ASSUME TypeOK, GateInv, NEW r \in Requests,
           (\E v \in Vote : Arrive(r, v)) \/ BadRequest(r) \/ HandlerStep(r)
    PROVE  GateInv'
  <1>1. CASE \E v \in Vote : Arrive(r, v)
    BY <1>1 DEF Arrive, GateInv, Handling, Facts, TypeOK, pollVars
  <1>2. CASE BadRequest(r)
    BY <1>2 DEF BadRequest, Answer, GateInv, Handling, Facts, TypeOK, pollVars
  <1>3. CASE GetPollStatus(r)
    <2>1. Handling(r) /\ UNCHANGED <<status, window>>
      BY <1>3 DEF GetPollStatus, Handling, pollVars
    <2>2. status[req[r].poll] = "active" => "active" \in seen[r]
      BY <2>1 DEF GateInv, Facts
    <2> QED BY <1>3, <2>1, <2>2, GateMove DEF GetPollStatus
  <1>4. CASE GetPollWindow(r)
    <2>1. Handling(r) /\ UNCHANGED <<status, window>> /\ "active" \in seen[r]
      BY <1>4 DEF GetPollWindow, Handling, pollVars, GateInv
    <2>2. window[req[r].poll] = "open" => "open" \in seen[r]
      BY <2>1 DEF GateInv, Facts
    <2> QED BY <1>4, <2>1, <2>2, GateMove DEF GetPollWindow
  <1>5. CASE CreateStores(r) \/ CreateFails(r) \/ Send(r) \/ SyncIncrement(r)
    <2>1. Handling(r) /\ UNCHANGED <<status, window>>
      BY <1>5 DEF CreateStores, CreateFails, Send, SyncIncrement, Handling, pollVars
    <2>2. "active" \in seen[r] /\ "open" \in seen[r]
      BY <1>5 DEF CreateStores, CreateFails, Send, SyncIncrement, GateInv
    <2>3. \E l, a : Goto(r, l) \/ Answer(r, a)
      BY <1>5 DEF CreateStores, CreateFails, Send, SyncIncrement
    <2>4. PICK l, a : Goto(r, l) \/ Answer(r, a)
      BY <2>3
    <2> QED BY <2>1, <2>2, <2>4, GateMove
  <1> QED BY <1>1, <1>2, <1>3, <1>4, <1>5 DEF HandlerStep

\* The administrator and the clock: what has come to hold is written down.
LEMMA GatePolls ==
    ASSUME TypeOK, GateInv, NEW p \in Polls,
           \/ \E s \in PollStatus : SetStatus(p, s)
           \/ \E x \in Window : MoveWindow(p, x)
           \/ DeletePoll(p)
    PROVE  GateInv'
  <1>1. ASSUME UNCHANGED <<pc, req>>, Witnessed PROVE GateInv'
    <2>1. ASSUME NEW r \in Requests, Handling(r)
          PROVE  seen'[r] = seen[r] \cup Facts(req[r].poll)'
      BY <1>1, <2>1 DEF Witnessed
    <2> QED BY <1>1, <2>1 DEF GateInv, Handling
  <1>2. CASE DeletePoll(p)
    <2>1. \A r \in Requests : Handling(r) => Facts(req[r].poll)' \subseteq Facts(req[r].poll)
      BY <1>2 DEF DeletePoll, Facts, TypeOK, handlerVars, Vote
    <2> QED BY <1>2, <2>1 DEF DeletePoll, GateInv, Handling, handlerVars
  <1> QED BY <1>1, <1>2 DEF SetStatus, MoveWindow

LEMMA GateStep == TypeOK /\ GateInv /\ [Next]_vars => GateInv'
  <1> SUFFICES ASSUME TypeOK, GateInv, [Next]_vars PROVE GateInv'
    OBVIOUS
  <1>1. CASE UNCHANGED vars
    BY <1>1, GateFrame DEF vars, pollVars, handlerVars
  <1>2. ASSUME NEW w \in Workers, WorkerStep(w) PROVE GateInv'
    BY <1>2, GateFrame DEF WorkerStep, Receive, ReceiveCancelled, StopWorker,
       CallSucceeds, CallFails, BackoffElapses, GiveUp, handlerVars, pollVars
  <1>3. CASE Die
    BY <1>3 DEF Die, GateInv, Handling
  <1>4. CASE Signal \/ MainStep \/ Crash \/ Restart
    BY <1>3, <1>4, GateFrame DEF Signal, MainStep, ShutdownReturns, ShutdownTimesOut,
       PoolDrained, DrainTimesOut, MainReturns, Crash, Restart, MainGoto,
       handlerVars, pollVars
  <1> QED BY <1>1, <1>2, <1>4, GateHandler, GatePolls DEF Next

\* A vote is stored only if the poll was active at some moment of its request,
\* and its window open at some moment, whatever administrators do meanwhile.
THEOREM VotesAreGated == Spec => []GatedByPoll
  <1>1. TypeOK /\ GateInv => GatedByPoll
    BY DEF GateInv, GatedByPoll, TypeOK
  <1> QED BY <1>1, TypeCorrect, GateInit, GateStep, PTL DEF Spec
-----------------------------------------------------------------------------
(***************************************************************************)
(* What is counted: an event is held once, a tally never exceeds the votes *)
(* by more than repeated attempts explain, and a deleted poll leaves no    *)
(* rows.                                                                   *)
(***************************************************************************)
\* The increments that went into the tally of an option.
Tallied(p, o) == {i \in increments : i[1].poll = p /\ i[1].option = o}

\* What the rows say of each other: the foreign keys of votes and
\* aggregated_results, and the tally as the number of its increments.
LedgerInv ==
    /\ \A v \in votes : Present(v.poll)
    /\ \A i \in increments : i[1] \in votes
    /\ \A p \in Polls, o \in Options : agg[<<p, o>>] = Cardinality(Tallied(p, o))

InHandler(r) == pc[r] \in {"send", "sync"}

\* An event outlives its vote only if the poll is gone, and has one holder.
HeldInv ==
    /\ \A i \in 1..Len(queue) : queue[i] \in votes \/ ~Present(queue[i].poll)
    /\ \A w \in Workers : Busy(w) => wev[w] \in votes \/ ~Present(wev[w].poll)
    /\ \A i, j \in 1..Len(queue) : i # j => queue[i] # queue[j]
    /\ \A w, x \in Workers : w # x /\ Busy(w) /\ Busy(x) => wev[w] # wev[x]
    /\ \A r \in Requests : InHandler(r) =>
          /\ \A i \in 1..Len(queue) : req[r] # queue[i]
          /\ \A w \in Workers : Busy(w) => req[r] # wev[w]
    /\ \A i \in 1..Len(queue), w \in Workers : Busy(w) => queue[i] # wev[w]

\* An event that no worker has taken is not counted; one that a worker has is
\* counted only by the attempts that the worker has made.
FreshInv ==
    /\ \A r \in Requests : InHandler(r) => ~Counted(req[r])
    /\ \A i \in 1..Len(queue) : ~Counted(queue[i])
    /\ \A w \in Workers : \A i \in increments : Busy(w) /\ i[1] = wev[w] =>
          IF wpc[w] = "call" THEN i[2] < attempt[w] ELSE i[2] <= attempt[w]

CountInv == LedgerInv /\ HeldInv /\ FreshInv

-----------------------------------------------------------------------------
(* Finite sets.                                                            *)

LEMMA VoteFinite == IsFiniteSet(Vote)
  <1> DEFINE T == Polls \X (Options \X Users)
             f == [v \in Vote |-> <<v.poll, <<v.option, v.user>>>>]
  <1>1. IsFiniteSet(T)
    BY PipelineAssumption, FS_Product
  <1>2. f \in [Vote -> T]
    BY DEF Vote
  <1>3. ASSUME NEW u \in Vote, NEW v \in Vote, f[u] = f[v] PROVE u = v
    <2>1. u.poll = v.poll /\ u.option = v.option /\ u.user = v.user
      BY <1>3
    <2> QED BY <2>1 DEF Vote
  <1>4. f \in Injection(Vote, T)
    BY <1>2, <1>3 DEF Injection, IsInjective
  <1> QED
    BY <1>1, <1>4, FS_Injection

LEMMA IncrementsFinite ==
    ASSUME TypeOK
    PROVE  /\ IsFiniteSet(increments)
           /\ \A p, o : IsFiniteSet(Tallied(p, o)) /\ IsFiniteSet(VotesFor(p, o))
  <1>1. IsFiniteSet(1..MaxAttempts)
    BY PipelineAssumption, FS_Interval
  <1>2. IsFiniteSet(Vote \X (1..MaxAttempts))
    BY <1>1, VoteFinite, FS_Product
  <1>3. IsFiniteSet(increments)
    BY <1>2, FS_Subset DEF TypeOK
  <1>4. \A p, o : Tallied(p, o) \in SUBSET increments /\ VotesFor(p, o) \in SUBSET Vote
    BY DEF Tallied, VotesFor, TypeOK
  <1> QED
    BY <1>3, <1>4, VoteFinite, FS_Subset

-----------------------------------------------------------------------------
(* The rows.                                                               *)

\* An increment that is new to the history adds one to its tally.
LEMMA LedgerIncrement ==
    ASSUME TypeOK, LedgerInv, NEW v \in votes, NEW k \in 1..MaxAttempts,
           Increment(v, k), <<v, k>> \notin increments, UNCHANGED <<status, votes>>
    PROVE  LedgerInv'
  <1>1. v \in Vote
    BY DEF TypeOK
  <1>2. ASSUME NEW p \in Polls, NEW o \in Options
        PROVE  agg'[<<p, o>>] = Cardinality(Tallied(p, o)')
    <2>1. IsFiniteSet(Tallied(p, o))
      BY IncrementsFinite
    <2>2. CASE v.poll = p /\ v.option = o
      <3>1. Tallied(p, o)' = Tallied(p, o) \cup {<<v, k>>}
        BY <2>2 DEF Tallied, Increment
      <3>2. <<v, k>> \notin Tallied(p, o)
        BY DEF Tallied
      <3>3. Cardinality(Tallied(p, o)') = Cardinality(Tallied(p, o)) + 1
        BY <2>1, <3>1, <3>2, FS_AddElement
      <3>4. agg'[<<p, o>>] = agg[<<p, o>>] + 1
        BY <2>2 DEF Increment, TypeOK
      <3> QED BY <3>3, <3>4 DEF LedgerInv
    <2>3. CASE ~(v.poll = p /\ v.option = o)
      <3>1. Tallied(p, o)' = Tallied(p, o)
        BY <2>3 DEF Tallied, Increment
      <3>2. agg'[<<p, o>>] = agg[<<p, o>>]
        BY <2>3, <1>1 DEF Increment, TypeOK, Vote
      <3> QED BY <3>1, <3>2 DEF LedgerInv
    <2> QED BY <2>2, <2>3
  <1>3. \A i \in increments' : i[1] \in votes'
    BY DEF Increment, LedgerInv
  <1>4. \A x \in votes' : Present(x.poll)'
    BY DEF LedgerInv, Present
  <1> QED BY <1>2, <1>3, <1>4 DEF LedgerInv

LEMMA LedgerDelete ==
    ASSUME TypeOK, LedgerInv, NEW q \in Polls, DeletePoll(q)
    PROVE  LedgerInv'
  <1>1. ASSUME NEW p \in Polls, NEW o \in Options
        PROVE  agg'[<<p, o>>] = Cardinality(Tallied(p, o)')
    <2>1. CASE p = q
      <3>1. Tallied(p, o)' = {}
        BY <2>1 DEF Tallied, DeletePoll
      <3>2. agg'[<<p, o>>] = 0
        BY <2>1 DEF DeletePoll
      <3> QED BY <3>1, <3>2, FS_EmptySet
    <2>2. CASE p # q
      <3>1. Tallied(p, o)' = Tallied(p, o)
        BY <2>2 DEF Tallied, DeletePoll
      <3>2. agg'[<<p, o>>] = agg[<<p, o>>]
        BY <2>2 DEF DeletePoll
      <3> QED BY <3>1, <3>2 DEF LedgerInv
    <2> QED BY <2>1, <2>2
  <1>2. \A v \in votes' : Present(v.poll)'
    BY DEF DeletePoll, LedgerInv, Present, TypeOK, Vote
  <1>3. \A i \in increments' : i[1] \in votes'
    BY DEF DeletePoll, LedgerInv
  <1> QED BY <1>1, <1>2, <1>3 DEF LedgerInv

\* Every step that adds nothing to the history of increments, and no poll.
LEMMA LedgerFrame ==
    ASSUME LedgerInv, UNCHANGED <<agg, increments>>, votes \subseteq votes',
           \A v \in votes' : Present(v.poll)'
    PROVE  LedgerInv'
  BY DEF LedgerInv, Tallied
-----------------------------------------------------------------------------
(* The holders of events.                                                  *)

\* Steps after which every holder held the same event before, and that take
\* votes away only with their poll and add no increment.
LEMMA HeldFrame ==
    ASSUME TypeOK, HeldInv, FreshInv, UNCHANGED <<queue, wev, attempt, req>>,
           increments' \subseteq increments,
           \A r \in Requests : InHandler(r)' => InHandler(r),
           \A w \in Workers : Busy(w)' => Busy(w) /\ wpc'[w] \in {wpc[w], "backoff"},
           \A v \in Vote : v \in votes \/ ~Present(v.poll) =>
                          v \in votes' \/ ~Present(v.poll)'
    PROVE  HeldInv' /\ FreshInv'
  <1>a. \A i \in 1..Len(queue) : queue'[i] \in votes' \/ ~Present(queue[i].poll)'
    <2>1. \A i \in 1..Len(queue) : queue[i] \in Vote
      BY DEF TypeOK
    <2> QED BY <2>1 DEF HeldInv, Present
  <1>b. \A w \in Workers : Busy(w)' => wev'[w] \in votes' \/ ~Present(wev[w].poll)'
    <2>1. \A w \in Workers : Busy(w) => wev[w] \in Vote
      BY DEF TypeOK
    <2> QED BY <2>1 DEF HeldInv, Present
  <1>c. \A i, j \in 1..Len(queue)' : i # j => queue'[i] # queue'[j]
    BY DEF HeldInv
  <1>d. \A w, x \in Workers : w # x /\ Busy(w)' /\ Busy(x)' => wev'[w] # wev'[x]
    BY DEF HeldInv
  <1>e. \A r \in Requests : InHandler(r)' =>
          /\ \A i \in 1..Len(queue)' : req'[r] # queue'[i]
          /\ \A w \in Workers : Busy(w)' => req'[r] # wev'[w]
    BY DEF HeldInv
  <1>f. \A i \in 1..Len(queue)', w \in Workers : Busy(w)' => queue'[i] # wev'[w]
    BY DEF HeldInv
  <1>1. HeldInv'
    BY <1>a, <1>b, <1>c, <1>d, <1>e, <1>f DEF HeldInv
  <1>2. \A v : Counted(v)' => Counted(v)
    BY DEF Counted
  <1>3. \A w \in Workers : \A i \in increments' : Busy(w)' /\ i[1] = wev[w] =>
          IF wpc'[w] = "call" THEN i[2] < attempt[w] ELSE i[2] <= attempt[w]
    <2> SUFFICES ASSUME NEW w \in Workers, NEW i \in increments', Busy(w)', i[1] = wev[w]
                 PROVE  IF wpc'[w] = "call" THEN i[2] < attempt[w] ELSE i[2] <= attempt[w]
      OBVIOUS
    <2>1. i[2] \in Nat /\ attempt[w] \in Nat
      BY DEF TypeOK
    <2>2. IF wpc[w] = "call" THEN i[2] < attempt[w] ELSE i[2] <= attempt[w]
      BY DEF FreshInv
    <2> QED BY <2>1, <2>2 DEF Busy
  <1> QED BY <1>1, <1>2, <1>3 DEF FreshInv

\* The event that an increment is applied for is held by whoever applies it, so
\* that nobody else's event becomes counted.
LEMMA OthersFresh ==
    ASSUME NEW v, NEW k, increments' = increments \cup {<<v, k>>}
    PROVE  \A u : u # v /\ ~Counted(u) => ~Counted(u)'
  BY DEF Counted

LEMMA CountCreate ==
    ASSUME TypeOK, AcceptedInv, CountInv, NEW r \in Requests, CreateStores(r)
    PROVE  CountInv'
  <1> USE DEF CountInv
  <1>1. /\ pc[r] = "create" /\ Insertable(req[r]) /\ req[r] \in Vote
        /\ votes' = votes \cup {req[r]}
        /\ UNCHANGED <<status, agg, queue, wpc, wev, attempt, increments, req>>
        /\ \A s \in Requests \ {r} : pc'[s] = pc[s]
    BY MoveEffect DEF CreateStores, pollVars, poolVars, history, TypeOK, Handling, Goto, Answer
  <1>2. req[r] \notin votes /\ Present(req[r].poll) /\ ~Counted(req[r])
    BY <1>1 DEF Insertable, AlreadyVoted, LedgerInv, Counted
  <1>3. LedgerInv'
    <2>1. \A v \in votes' : Present(v.poll)'
      BY <1>1, <1>2 DEF LedgerInv, Present
    <2> QED BY <1>1, <2>1, LedgerFrame
  <1>4. /\ \A i \in 1..Len(queue) : req[r] # queue[i]
        /\ \A w \in Workers : Busy(w) => req[r] # wev[w]
    BY <1>2 DEF HeldInv
  <1>5. HeldInv'
    <2>1. \A w \in Workers : Busy(w)' <=> Busy(w)
      BY <1>1 DEF Busy
    <2>2. \A s \in Requests : InHandler(s)' => InHandler(s) \/ s = r
      BY <1>1 DEF InHandler
    <2>3. \A i \in 1..Len(queue) : queue[i] \in votes' \/ ~Present(queue[i].poll)'
      BY <1>1 DEF HeldInv, Present
    <2>4. \A w \in Workers : Busy(w) => wev[w] \in votes' \/ ~Present(wev[w].poll)'
      BY <1>1 DEF HeldInv, Present
    <2>5. \A s \in Requests : InHandler(s)' =>
            /\ \A i \in 1..Len(queue) : req[s] # queue[i]
            /\ \A w \in Workers : Busy(w) => req[s] # wev[w]
      BY <1>4, <2>2 DEF HeldInv
    <2>6. UNCHANGED <<queue, wev, req>>
      BY <1>1
    <2> HIDE DEF Busy, InHandler
    <2> QED BY <2>1, <2>3, <2>4, <2>5, <2>6, <1>1 DEF HeldInv, Present
  <1>6. FreshInv'
    BY <1>1, <1>2 DEF FreshInv, Counted, Busy, InHandler
  <1> QED BY <1>3, <1>5, <1>6

LEMMA CountSend ==
    ASSUME TypeOK, AcceptedInv, CountInv, NEW r \in Requests, Send(r)
    PROVE  CountInv'
  <1> USE DEF CountInv
  <1>1. /\ pc[r] = "send" /\ req[r] \in Vote
        /\ UNCHANGED <<status, votes, agg, wpc, wev, attempt, increments, req>>
        /\ \A s \in Requests \ {r} : pc'[s] = pc[s]
    BY MoveEffect DEF Send, pollVars, poolVars, history, TypeOK, Handling, Goto, Answer
  <1>2. LedgerInv'
    BY <1>1, LedgerFrame DEF LedgerInv, Present
  <1>3. CASE UNCHANGED queue
    <2>1. \A s \in Requests : InHandler(s)' => InHandler(s)
      BY <1>1 DEF InHandler
    <2>2. \A w \in Workers : Busy(w)' => Busy(w) /\ wpc'[w] \in {wpc[w], "backoff"}
      BY <1>1 DEF Busy
    <2> QED
      BY <1>1, <1>2, <1>3, <2>1, <2>2, HeldFrame DEF Present
  <1>4. CASE queue' = Append(queue, req[r]) /\ Answer(r, "accepted")
    <2> DEFINE n == Len(queue)
    <2>1. /\ n \in Nat /\ Len(queue') = n + 1 /\ queue'[n + 1] = req[r]
          /\ \A i \in 1..n : queue'[i] = queue[i]
      BY <1>1, <1>4, AppendProperties, LenProperties DEF TypeOK
    <2>2. \A i \in 1..(n + 1) : i \in 1..n \/ i = n + 1
      BY <2>1
    <2>3. pc'[r] = "done"
      BY <1>4 DEF Answer, TypeOK
    <2>4. \A s \in Requests : InHandler(s)' => s # r /\ InHandler(s) /\ req[s] # req[r]
      BY <1>1, <2>3 DEF InHandler, AcceptedInv, Settled, SameVoter
    <2>5. /\ req[r] \in votes \/ ~Present(req[r].poll)
          /\ ~Counted(req[r])
          /\ \A i \in 1..n : req[r] # queue[i]
          /\ \A w \in Workers : Busy(w) => req[r] # wev[w]
      BY <1>1 DEF AcceptedInv, Settled, FreshInv, HeldInv, InHandler
    <2>6. \A i \in 1..(n + 1) : queue'[i] \in votes \/ ~Present(queue'[i].poll)
      BY <2>1, <2>2, <2>5 DEF HeldInv
    <2>7. \A i, j \in 1..(n + 1) : i # j => queue'[i] # queue'[j]
      BY <2>1, <2>2, <2>5 DEF HeldInv
    <2>8. \A s \in Requests : InHandler(s)' =>
            /\ \A i \in 1..(n + 1) : req[s] # queue'[i]
            /\ \A w \in Workers : Busy(w) => req[s] # wev[w]
      BY <2>1, <2>2, <2>4 DEF HeldInv
    <2>9. \A i \in 1..(n + 1), w \in Workers : Busy(w) => queue'[i] # wev[w]
      BY <2>1, <2>2, <2>5 DEF HeldInv
    <2>a. \A i \in 1..(n + 1) : ~Counted(queue'[i])
      BY <2>1, <2>2, <2>5 DEF FreshInv
    <2>b. HeldInv'
      BY <1>1, <2>1, <2>6, <2>7, <2>8, <2>9 DEF HeldInv, Busy, Present
    <2>c. FreshInv'
      BY <1>1, <2>1, <2>4, <2>a DEF FreshInv, Counted, Busy
    <2> QED BY <1>2, <2>b, <2>c
  <1> QED BY <1>3, <1>4 DEF Send

\* The handler counts its own event, which nobody else holds.
LEMMA CountSync ==
    ASSUME TypeOK, AcceptedInv, CountInv, NEW r \in Requests, SyncIncrement(r)
    PROVE  CountInv'
  <1> USE DEF CountInv
  <1>1. /\ pc[r] = "sync" /\ req[r] \in Vote /\ pc'[r] = "done"
        /\ UNCHANGED <<status, votes, queue, wpc, wev, attempt, req>>
        /\ \A s \in Requests \ {r} : pc'[s] = pc[s]
    BY DEF SyncIncrement, pollVars, poolVars, TypeOK, Handling, Answer
  <1>2. \A s \in Requests : InHandler(s)' => InHandler(s) /\ req[s] # req[r]
    BY <1>1 DEF InHandler, AcceptedInv, Settled, SameVoter
  <1>3. \A w \in Workers : Busy(w)' => Busy(w) /\ wpc'[w] \in {wpc[w], "backoff"}
    BY <1>1 DEF Busy
  <1>4. CASE UNCHANGED <<agg, increments>>
    <2>1. LedgerInv'
      BY <1>1, <1>4, LedgerFrame DEF LedgerInv, Present
    <2> QED
      BY <1>1, <1>2, <1>3, <1>4, <2>1, HeldFrame DEF Present
  <1>5. CASE Increment(req[r], 1)
    <2>1. req[r] \in votes /\ ~Counted(req[r])
      BY <1>1, <1>5 DEF Increment, AcceptedInv, Settled, FreshInv, InHandler
    <2>a. <<req[r], 1>> \notin increments
      BY <2>1 DEF Counted
    <2>b. 1 \in 1..MaxAttempts
      BY PipelineAssumption
    <2>2. LedgerInv'
      BY <1>1, <1>5, <2>1, <2>a, <2>b, LedgerIncrement
    <2>3. HeldInv'
      BY <1>1, <1>2 DEF HeldInv, Busy, Present
    <2>4. increments' = increments \cup {<<req[r], 1>>}
      BY <1>5 DEF Increment
    <2>5. /\ \A i \in 1..Len(queue) : req[r] # queue[i]
          /\ \A w \in Workers : Busy(w) => req[r] # wev[w]
      BY <1>1 DEF HeldInv, InHandler
    <2>6. \A s \in Requests : InHandler(s)' => ~Counted(req[s])'
      BY <1>1, <1>2, <2>4, OthersFresh DEF FreshInv, Counted
    <2>7. \A i \in 1..Len(queue) : ~Counted(queue[i])'
      BY <1>1, <2>4, <2>5 DEF FreshInv, Counted
    <2>8. FreshInv'
      BY <1>1, <2>4, <2>5, <2>6, <2>7 DEF FreshInv, Busy, Counted
    <2> QED BY <2>2, <2>3, <2>8
  <1> QED
    BY <1>4, <1>5 DEF SyncIncrement, FailsWithoutEffect, FailsWithEffect

\* The worker takes over the event at the head of the channel.
LEMMA CountReceive ==
    ASSUME TypeOK, CountInv, NEW w \in Workers, Receive(w) \/ ReceiveCancelled(w)
    PROVE  CountInv'
  <1> USE DEF CountInv
  <1> DEFINE n == Len(queue)
  <1>1. /\ queue # <<>> /\ queue' = Tail(queue) /\ wpc[w] = "receive"
        /\ UNCHANGED <<status, votes, agg, pc, req, increments>>
    BY DEF Receive, ReceiveCancelled, pollVars, handlerVars, history
  <1>2. /\ n \in Nat \ {0} /\ Len(queue') = n - 1
        /\ \A i \in 1..(n - 1) : queue'[i] = queue[i + 1]
        /\ Head(queue) = queue[1]
    BY <1>1, HeadTailProperties, LenProperties DEF TypeOK
  <1>3. \A i \in 1..(n - 1) : i + 1 \in 1..n /\ i + 1 # 1
    BY <1>2
  <1>4. 1 \in 1..n
    BY <1>2
  <1>5. LedgerInv'
    BY <1>1, LedgerFrame DEF LedgerInv, Present
  <1>6. /\ \A i \in 1..(n - 1) : queue'[i] \in votes \/ ~Present(queue'[i].poll)
        /\ \A i, j \in 1..(n - 1) : i # j => queue'[i] # queue'[j]
        /\ \A i \in 1..(n - 1) : queue'[i] # Head(queue) /\ ~Counted(queue'[i])
    <2>1. \A i, j \in 1..(n - 1) : i # j => i + 1 # j + 1
      BY <1>2
    <2> QED BY <1>2, <1>3, <1>4, <2>1 DEF HeldInv, FreshInv
  <1>7. \A r \in Requests : InHandler(r) =>
          /\ \A i \in 1..(n - 1) : req[r] # queue'[i]
          /\ req[r] # Head(queue)
    BY <1>2, <1>3, <1>4 DEF HeldInv
  <1>8. \A i \in 1..(n - 1), x \in Workers : Busy(x) => queue'[i] # wev[x]
    BY <1>2, <1>3 DEF HeldInv
  <1>9. CASE UNCHANGED <<wpc, wev, attempt>>
    <2>1. HeldInv'
      BY <1>1, <1>2, <1>6, <1>7, <1>8, <1>9 DEF HeldInv, Busy, Present, InHandler
    <2>2. FreshInv'
      BY <1>1, <1>2, <1>6, <1>9 DEF FreshInv, Busy, Counted, InHandler
    <2> QED BY <1>5, <2>1, <2>2
  <1>10. CASE Receive(w)
    <2>1. /\ wpc'[w] = "call" /\ wev'[w] = Head(queue)
          /\ \A x \in Workers \ {w} : /\ wpc'[x] = wpc[x] /\ wev'[x] = wev[x]
                                      /\ attempt'[x] = attempt[x]
      BY <1>10 DEF Receive, TypeOK
    <2>2. \A x \in Workers : Busy(x)' =>
            \/ x = w /\ wev'[x] = Head(queue)
            \/ x # w /\ Busy(x) /\ wev'[x] = wev[x]
      BY <2>1 DEF Busy
    <2>3. /\ Head(queue) \in votes \/ ~Present(Head(queue).poll)
          /\ ~Counted(Head(queue))
          /\ \A x \in Workers : Busy(x) => Head(queue) # wev[x]
      BY <1>2, <1>4 DEF HeldInv, FreshInv
    <2>4. \A x \in Workers : Busy(x)' => wev'[x] \in votes \/ ~Present(wev'[x].poll)
      BY <2>2, <2>3 DEF HeldInv
    <2>5. \A x, y \in Workers : x # y /\ Busy(x)' /\ Busy(y)' => wev'[x] # wev'[y]
      BY <2>2, <2>3 DEF HeldInv
    <2>6. \A r \in Requests : InHandler(r) => \A x \in Workers : Busy(x)' => req[r] # wev'[x]
      BY <1>7, <2>2 DEF HeldInv
    <2>7. \A i \in 1..(n - 1), x \in Workers : Busy(x)' => queue'[i] # wev'[x]
      BY <1>6, <1>8, <2>2
    <2>8. HeldInv'
      BY <1>1, <1>2, <1>6, <1>7, <2>4, <2>5, <2>6, <2>7 DEF HeldInv, Present, InHandler
    <2>9. FreshInv'
      <3>1. ASSUME NEW x \in Workers, NEW i \in increments, Busy(x)', i[1] = wev'[x]
            PROVE  IF wpc'[x] = "call" THEN i[2] < attempt'[x] ELSE i[2] <= attempt'[x]
        <4>1. x # w
          BY <2>1, <2>3, <3>1 DEF Counted
        <4> QED BY <2>1, <2>2, <3>1, <4>1 DEF FreshInv
      <3> QED BY <1>1, <1>2, <1>6, <3>1 DEF FreshInv, Counted, InHandler
    <2> QED BY <1>5, <2>8, <2>9
  <1> QED BY <1>9, <1>10 DEF ReceiveCancelled, poolVars

\* A worker is done with its call: it retries the same event, or drops it.
CallEnds(w) ==
    \/ wpc' = [wpc EXCEPT ![w] = "backoff"] /\ UNCHANGED <<wev, attempt>>
    \/ Idle(w)

LEMMA CallEndsEffect ==
    ASSUME TypeOK, NEW w \in Workers, Busy(w), CallEnds(w)
    PROVE  /\ \A x \in Workers \ {w} : /\ wpc'[x] = wpc[x] /\ wev'[x] = wev[x]
                                       /\ attempt'[x] = attempt[x]
           /\ \/ ~Busy(w)'
              \/ wpc'[w] = "backoff" /\ UNCHANGED <<wev, attempt>>
  BY DEF CallEnds, Idle, TypeOK, Busy

\* A call without effect.
LEMMA CountNoCall ==
    ASSUME TypeOK, CountInv, NEW w \in Workers, Busy(w), CallEnds(w),
           UNCHANGED <<status, votes, agg, queue, pc, req, increments>>
    PROVE  CountInv'
  <1> USE DEF CountInv
  <1>1. /\ \A x \in Workers \ {w} : /\ wpc'[x] = wpc[x] /\ wev'[x] = wev[x]
                                    /\ attempt'[x] = attempt[x]
        /\ \/ ~Busy(w)'
           \/ wpc'[w] = "backoff" /\ UNCHANGED <<wev, attempt>>
    BY CallEndsEffect
  <1>2. LedgerInv'
    BY LedgerFrame DEF LedgerInv, Present
  <1>3. \A x \in Workers : Busy(x)' => /\ Busy(x) /\ wev'[x] = wev[x]
                                       /\ attempt'[x] = attempt[x]
                                       /\ wpc'[x] \in {wpc[x], "backoff"}
    BY <1>1 DEF Busy
  <1>4. HeldInv'
    BY <1>3 DEF HeldInv, InHandler, Present
  <1>5. FreshInv'
    <2>1. ASSUME NEW x \in Workers, NEW i \in increments, Busy(x)', i[1] = wev'[x]
          PROVE  IF wpc'[x] = "call" THEN i[2] < attempt'[x] ELSE i[2] <= attempt'[x]
      <3>1. i[2] \in Nat /\ attempt[x] \in Nat
        BY DEF TypeOK
      <3>2. IF wpc[x] = "call" THEN i[2] < attempt[x] ELSE i[2] <= attempt[x]
        BY <1>3, <2>1 DEF FreshInv
      <3> QED BY <1>3, <2>1, <3>1, <3>2
    <2> QED BY <2>1 DEF FreshInv, InHandler, Counted
  <1> QED BY <1>2, <1>4, <1>5

\* A call whose increment was applied, whatever the reply.
LEMMA CountCall ==
    ASSUME TypeOK, CountInv, NEW w \in Workers, wpc[w] = "call", CallEnds(w),
           Increment(wev[w], attempt[w]), UNCHANGED <<status, votes, queue, pc, req>>
    PROVE  CountInv'
  <1> USE DEF CountInv
  <1> DEFINE v == wev[w]
  <1>0. Busy(w) /\ attempt[w] \in 1..MaxAttempts
    BY DEF Busy, TypeOK
  <1>1. /\ \A x \in Workers \ {w} : /\ wpc'[x] = wpc[x] /\ wev'[x] = wev[x]
                                    /\ attempt'[x] = attempt[x]
        /\ \/ ~Busy(w)'
           \/ wpc'[w] = "backoff" /\ UNCHANGED <<wev, attempt>>
    BY <1>0, CallEndsEffect
  <1>2. v \in votes
    BY <1>0 DEF HeldInv, Increment
  <1>3. <<v, attempt[w]>> \notin increments
    <2>1. \A i \in increments : i[1] = v => i[2] < attempt[w]
      BY <1>0 DEF FreshInv
    <2>2. ~(attempt[w] < attempt[w])
      BY <1>0
    <2> QED BY <2>1, <2>2
  <1>4. LedgerInv'
    BY <1>0, <1>2, <1>3, LedgerIncrement
  <1>5. increments' = increments \cup {<<v, attempt[w]>>}
    BY DEF Increment
  <1>6. \A x \in Workers : Busy(x)' => /\ Busy(x) /\ wev'[x] = wev[x]
                                       /\ attempt'[x] = attempt[x]
                                       /\ x = w => wpc'[x] = "backoff"
                                       /\ x # w => wpc'[x] = wpc[x] /\ wev[x] # v
    BY <1>0, <1>1 DEF Busy, HeldInv
  <1>7. HeldInv'
    BY <1>6 DEF HeldInv, InHandler, Present
  <1>8. /\ \A i \in 1..Len(queue) : queue[i] # v
        /\ \A r \in Requests : InHandler(r) => req[r] # v
    BY <1>0 DEF HeldInv
  <1>9. FreshInv'
    <2>1. ASSUME NEW x \in Workers, NEW i \in increments', Busy(x)', i[1] = wev'[x]
          PROVE  IF wpc'[x] = "call" THEN i[2] < attempt'[x] ELSE i[2] <= attempt'[x]
      <3>1. CASE x # w
        <4>1. i \in increments
          BY <1>5, <1>6, <2>1, <3>1
        <4> QED BY <1>6, <2>1, <3>1, <4>1 DEF FreshInv
      <3>2. CASE x = w
        <4>1. \A j \in increments : j[1] = v => j[2] < attempt[w]
          BY <1>0 DEF FreshInv
        <4>2. \A j \in increments : j[2] \in Nat
          BY DEF TypeOK
        <4>3. \A j \in increments : j[1] = v => j[2] <= attempt[w]
          BY <1>0, <4>1, <4>2
        <4>4. attempt[w] <= attempt[w]
          BY <1>0
        <4> QED BY <1>5, <1>6, <2>1, <3>2, <4>3, <4>4
      <3> QED BY <3>1, <3>2
    <2>2. \A u : u # v /\ ~Counted(u) => ~Counted(u)'
      BY <1>5, OthersFresh
    <2>3. /\ \A r \in Requests : InHandler(r)' => ~Counted(req[r])'
          /\ \A i \in 1..Len(queue) : ~Counted(queue[i])'
      BY <1>5, <1>8 DEF FreshInv, InHandler, Counted
    <2> QED BY <2>1, <2>3 DEF FreshInv, Counted
  <1> QED BY <1>4, <1>7, <1>9

LEMMA CountBackoff ==
    ASSUME TypeOK, CountInv, NEW w \in Workers, BackoffElapses(w)
    PROVE  CountInv'
  <1> USE DEF CountInv
  <1>1. /\ wpc[w] = "backoff" /\ wpc'[w] = "call" /\ attempt'[w] = attempt[w] + 1
        /\ \A x \in Workers \ {w} : wpc'[x] = wpc[x] /\ attempt'[x] = attempt[x]
        /\ UNCHANGED <<status, votes, agg, queue, wev, pc, req, increments>>
    BY DEF BackoffElapses, TypeOK, pollVars, handlerVars, history
  <1>2. \A x \in Workers : Busy(x)' <=> Busy(x)
    BY <1>1 DEF Busy
  <1>3. LedgerInv'
    BY <1>1, LedgerFrame DEF LedgerInv, Present
  <1>4. HeldInv'
    BY <1>1, <1>2 DEF HeldInv, InHandler, Present
  <1>5. FreshInv'
    <2>1. ASSUME NEW x \in Workers, NEW i \in increments, Busy(x)', i[1] = wev[x]
          PROVE  IF wpc'[x] = "call" THEN i[2] < attempt'[x] ELSE i[2] <= attempt'[x]
      <3>1. i[2] \in Nat /\ attempt[x] \in Nat
        BY DEF TypeOK
      <3>2. IF wpc[x] = "call" THEN i[2] < attempt[x] ELSE i[2] <= attempt[x]
        BY <1>2, <2>1 DEF FreshInv
      <3> QED BY <1>1, <3>1, <3>2
    <2> QED BY <1>1, <2>1 DEF FreshInv, InHandler, Counted
  <1> QED BY <1>3, <1>4, <1>5

LEMMA CountWorker ==
    ASSUME TypeOK, CountInv, NEW w \in Workers, WorkerStep(w)
    PROVE  CountInv'
  <1>1. CASE Receive(w) \/ ReceiveCancelled(w)
    BY <1>1, CountReceive
  <1>2. CASE StopWorker(w)
    <2>1. \A x \in Workers : Busy(x)' => Busy(x) /\ wpc'[x] = wpc[x]
      BY <1>2 DEF StopWorker, TypeOK, Busy
    <2>2. UNCHANGED <<status, votes, agg, queue, wev, attempt, pc, req, increments>>
      BY <1>2 DEF StopWorker, pollVars, handlerVars, history
    <2> QED
      BY <2>1, <2>2, HeldFrame, LedgerFrame DEF CountInv, LedgerInv, Present, InHandler
  <1>3. CASE CallSucceeds(w)
    BY <1>3, CountCall DEF CallSucceeds, CallEnds, pollVars, handlerVars
  <1>4. CASE CallFails(w)
    <2>1. /\ wpc[w] = "call" /\ Busy(w) /\ CallEnds(w)
          /\ UNCHANGED <<status, votes, queue, pc, req>>
      BY <1>4 DEF CallFails, CallEnds, Busy, pollVars, handlerVars
    <2>2. CASE Increment(wev[w], attempt[w])
      BY <2>1, <2>2, CountCall
    <2>3. CASE UNCHANGED <<agg, increments>>
      BY <2>1, <2>3, CountNoCall
    <2> QED
      BY <1>4, <2>2, <2>3 DEF CallFails, FailsWithEffect, FailsWithoutEffect
  <1>5. CASE BackoffElapses(w)
    BY <1>5, CountBackoff
  <1>6. CASE GiveUp(w)
    BY <1>6, CountNoCall DEF GiveUp, CallEnds, Busy, pollVars, handlerVars
  <1> QED
    BY <1>1, <1>2, <1>3, <1>4, <1>5, <1>6 DEF WorkerStep

LEMMA CountHandler ==
    ASSUME TypeOK, AcceptedInv, CountInv, NEW r \in Requests,
           (\E v \in Vote : Arrive(r, v)) \/ BadRequest(r) \/ HandlerStep(r)
    PROVE  CountInv'
  <1>1. ASSUME UNCHANGED <<status, votes, agg, queue, wpc, wev, attempt, increments>>,
               \A s \in Requests : InHandler(s)' => InHandler(s) /\ req'[s] = req[s]
        PROVE  CountInv'
    <2>1. LedgerInv'
      BY <1>1, LedgerFrame DEF CountInv, LedgerInv, Present
    <2>2. HeldInv'
      BY <1>1 DEF CountInv, HeldInv, Busy, Present
    <2>3. FreshInv'
      BY <1>1 DEF CountInv, FreshInv, Busy, Counted
    <2> QED BY <2>1, <2>2, <2>3 DEF CountInv
  <1>2. CASE \E v \in Vote : Arrive(r, v)
    BY <1>1, <1>2 DEF Arrive, TypeOK, InHandler, pollVars, poolVars, history
  <1>3. CASE BadRequest(r)
    BY <1>1, <1>3 DEF BadRequest, Answer, TypeOK, InHandler, pollVars, poolVars, history
  <1>4. CASE GetPollStatus(r)
    BY <1>1, <1>4 DEF GetPollStatus, Goto, Answer, TypeOK, InHandler, pollVars, poolVars, history
  <1>5. CASE GetPollWindow(r)
    BY <1>1, <1>5 DEF GetPollWindow, Goto, Answer, TypeOK, InHandler, pollVars, poolVars, history
  <1>6. CASE CreateFails(r)
    BY <1>1, <1>6 DEF CreateFails, Goto, Answer, TypeOK, InHandler, pollVars, poolVars, history
  <1> QED
    BY <1>2, <1>3, <1>4, <1>5, <1>6, CountCreate, CountSend, CountSync DEF HandlerStep

LEMMA CountPolls ==
    ASSUME TypeOK, CountInv, NEW p \in Polls,
           \/ \E s \in PollStatus : SetStatus(p, s)
           \/ \E x \in Window : MoveWindow(p, x)
           \/ DeletePoll(p)
    PROVE  CountInv'
  <1>1. UNCHANGED <<queue, wpc, wev, attempt, pc, req>>
    BY DEF SetStatus, MoveWindow, DeletePoll, poolVars, handlerVars
  <1>2. /\ \A r \in Requests : InHandler(r)' => InHandler(r)
        /\ \A w \in Workers : Busy(w)' => Busy(w) /\ wpc'[w] \in {wpc[w], "backoff"}
    BY <1>1 DEF InHandler, Busy
  <1>3. CASE DeletePoll(p)
    <2>1. increments' \subseteq increments
      BY <1>3 DEF DeletePoll
    <2>2. \A v \in Vote : v \in votes \/ ~Present(v.poll) =>
                         v \in votes' \/ ~Present(v.poll)'
      BY <1>3 DEF DeletePoll, Present, TypeOK, Vote
    <2>3. HeldInv' /\ FreshInv'
      BY <1>1, <1>2, <2>1, <2>2, HeldFrame DEF CountInv
    <2> QED BY <1>3, <2>3, LedgerDelete DEF CountInv
  <1>4. CASE ~DeletePoll(p)
    <2>1. UNCHANGED <<votes, agg, increments>>
      BY <1>4 DEF SetStatus, MoveWindow, history
    <2>2. \A v \in Vote : Present(v.poll) <=> Present(v.poll)'
      <3>1. \A q \in Polls : Present(q) <=> Present(q)'
        BY <1>4 DEF SetStatus, MoveWindow, Present, TypeOK, PollStatus
      <3> QED BY <3>1 DEF Vote
    <2>3. LedgerInv'
      BY <2>1, <2>2, LedgerFrame DEF CountInv, LedgerInv, TypeOK
    <2> QED
      BY <1>1, <1>2, <2>1, <2>2, <2>3, HeldFrame DEF CountInv
  <1> QED BY <1>3, <1>4

LEMMA CountMain ==
    ASSUME TypeOK, ShutdownInv, CountInv, Signal \/ MainStep \/ Crash \/ Restart
    PROVE  CountInv'
  <1>1. CASE Die
    <2>1. /\ UNCHANGED <<status, votes, agg, increments>> /\ Len(queue') = 0
          /\ \A w \in Workers : ~Busy(w)'
          /\ \A r \in Requests : ~InHandler(r)'
      BY <1>1 DEF Die, Busy, InHandler, Handling, pollVars
    <2>2. 1..Len(queue') = {}
      BY <2>1
    <2>3. LedgerInv'
      BY <2>1, LedgerFrame DEF CountInv, LedgerInv, Present
    <2> QED BY <2>1, <2>2, <2>3 DEF CountInv, HeldInv, FreshInv
  <1>2. ASSUME UNCHANGED <<status, votes, agg, increments, queue, wev, attempt, pc, req>>,
               \A w \in Workers : Busy(w)' => Busy(w) /\ wpc'[w] = wpc[w]
        PROVE  CountInv'
    BY <1>2, HeldFrame, LedgerFrame DEF CountInv, LedgerInv, Present, InHandler
  <1>3. ASSUME NEW l, MainGoto(l) PROVE CountInv'
    BY <1>2, <1>3 DEF MainGoto, Busy, pollVars, poolVars, handlerVars, history
  <1>4. CASE Restart
    BY <1>2, <1>4 DEF Restart, Busy, pollVars, handlerVars, history
  <1> QED
    BY <1>1, <1>3, <1>4 DEF Signal, MainStep, ShutdownReturns, ShutdownTimesOut,
       PoolDrained, DrainTimesOut, MainReturns, Crash

LEMMA CountInit == Init => CountInv
  <1> SUFFICES ASSUME Init PROVE CountInv
    OBVIOUS
  <1>1. LedgerInv
    <2>1. \A p \in Polls, o \in Options : Tallied(p, o) = {} /\ agg[<<p, o>>] = 0
      BY DEF Init, Tallied
    <2> QED BY <2>1, FS_EmptySet DEF Init, LedgerInv
  <1>2. 1..Len(queue) = {}
    BY DEF Init
  <1> QED
    BY <1>1, <1>2 DEF Init, CountInv, HeldInv, FreshInv, Busy, InHandler

LEMMA CountStep ==
    TypeOK /\ ShutdownInv /\ AcceptedInv /\ CountInv /\ [Next]_vars => CountInv'
  <1> SUFFICES ASSUME TypeOK, ShutdownInv, AcceptedInv, CountInv, [Next]_vars
               PROVE  CountInv'
    OBVIOUS
  <1>1. CASE UNCHANGED vars
    BY <1>1, HeldFrame, LedgerFrame
       DEF vars, pollVars, handlerVars, poolVars, history, CountInv, LedgerInv, Present,
           InHandler, Busy
  <1> QED
    BY <1>1, CountHandler, CountWorker, CountPolls, CountMain DEF Next

-----------------------------------------------------------------------------
(* The theorems.                                                           *)

\* The counting invariant, with what it rests on, holds for ever.
LEMMA CountCorrect == Spec => [](TypeOK /\ AcceptedInv /\ CountInv)
  <1>1. Init => TypeOK /\ ShutdownInv /\ AcceptedInv /\ CountInv
    BY TypeInit, ShutdownInit, AcceptedInit, CountInit
  <1>2. /\ TypeOK /\ ShutdownInv /\ AcceptedInv /\ CountInv
        /\ [Next]_vars
        => (TypeOK /\ ShutdownInv /\ AcceptedInv /\ CountInv)'
    BY TypeStep, ShutdownStep, AcceptedStep, CountStep
  <1> QED BY <1>1, <1>2, PTL DEF Spec

\* An event is never in two hands: neither a handler, nor the channel, nor a
\* worker of the pool holds a vote that another one of them holds.
THEOREM EventsHeldOnce == Spec => []EventHeldOnce
  <1>1. AcceptedInv /\ CountInv => EventHeldOnce
    BY DEF AcceptedInv, Settled, SameVoter, CountInv, HeldInv, InHandler, EventHeldOnce,
           ByHandler, ByQueue, ByWorker
  <1> QED BY <1>1, CountCorrect, PTL

\* The foreign keys: an event that comes late restores no row of a deleted poll.
THEOREM DeletedPollsLeaveNothing == Spec => []DeletedLeavesNothing
  <1>1. TypeOK /\ CountInv => DeletedLeavesNothing
    <2> SUFFICES ASSUME TypeOK, CountInv, NEW p \in Polls, ~Present(p), NEW o \in Options
                 PROVE  VotesFor(p, o) = {} /\ agg[<<p, o>>] = 0
      BY DEF DeletedLeavesNothing
    <2>1. VotesFor(p, o) = {}
      BY DEF CountInv, LedgerInv, VotesFor
    <2>2. Tallied(p, o) = {}
      BY DEF CountInv, LedgerInv, Tallied
    <2> QED BY <2>1, <2>2, FS_EmptySet DEF CountInv, LedgerInv
  <1> QED BY <1>1, CountCorrect, PTL
-----------------------------------------------------------------------------
(* Overcounting.                                                           *)

\* Where no reply is lost, an event is counted at most once: a worker retries
\* only what had no effect.  (Cancelling the pool may hide the effect of a call
\* from its worker, but then the worker does not retry.)
OnceInv ==
    "after" \notin Faults =>
        /\ \A i, j \in increments : i[1] = j[1] => i = j
        /\ \A w \in Workers : wpc[w] = "call" => ~Counted(wev[w])
        /\ \A w \in Workers : wpc[w] = "backoff" /\ ~Cancelled => ~Counted(wev[w])

LEMMA OnceInit == Init => OnceInv
  BY DEF Init, OnceInv

\* Steps that leave the workers alone and count nothing new.
LEMMA OnceFrame ==
    ASSUME OnceInv, UNCHANGED <<wpc, wev>>, increments' \subseteq increments,
           Cancelled => Cancelled'
    PROVE  OnceInv'
  BY DEF OnceInv, Counted

LEMMA OnceHandler ==
    ASSUME TypeOK, CountInv, OnceInv, NEW r \in Requests,
           (\E v \in Vote : Arrive(r, v)) \/ BadRequest(r) \/ HandlerStep(r)
    PROVE  OnceInv'
  <1>1. UNCHANGED <<wpc, wev, main>>
    BY DEF Arrive, BadRequest, HandlerStep, GetPollStatus, GetPollWindow, CreateStores,
           CreateFails, Send, SyncIncrement, poolVars, mainVars
  <1>2. CASE UNCHANGED increments
    BY <1>1, <1>2, OnceFrame DEF Cancelled
  <1>3. CASE SyncIncrement(r) /\ Increment(req[r], 1)
    <2>1. InHandler(r) /\ ~Counted(req[r])
      BY <1>3 DEF SyncIncrement, InHandler, CountInv, FreshInv
    <2>2. \A w \in Workers : Busy(w) => wev[w] # req[r]
      BY <2>1 DEF CountInv, HeldInv
    <2>3. increments' = increments \cup {<<req[r], 1>>}
      BY <1>3 DEF Increment
    <2>4. "after" \notin Faults => \A i, j \in increments' : i[1] = j[1] => i = j
      BY <2>1, <2>3 DEF OnceInv, Counted
    <2>5. \A u : u # req[r] /\ ~Counted(u) => ~Counted(u)'
      BY <2>3, OthersFresh
    <2>6. \A w \in Workers : Busy(w) /\ ~Counted(wev[w]) => ~Counted(wev[w])'
      BY <1>1, <2>2, <2>3 DEF Counted
    <2> QED
      BY <1>1, <2>4, <2>6 DEF OnceInv, Busy, Cancelled
  <1> QED
    BY <1>2, <1>3 DEF Arrive, BadRequest, HandlerStep, GetPollStatus, GetPollWindow,
       CreateStores, CreateFails, Send, SyncIncrement, FailsWithoutEffect,
       FailsWithEffect, history

LEMMA OnceWorker ==
    ASSUME TypeOK, CountInv, OnceInv, NEW w \in Workers, WorkerStep(w)
    PROVE  OnceInv'
  <1> SUFFICES ASSUME "after" \notin Faults PROVE OnceInv'
    BY DEF OnceInv
  <1>0. UNCHANGED main
    BY DEF WorkerStep, Receive, ReceiveCancelled, StopWorker, CallSucceeds, CallFails,
           BackoffElapses, GiveUp, mainVars
  <1>1. CASE Receive(w)
    <2>1. queue # <<>> /\ ~Counted(Head(queue)) /\ UNCHANGED increments
      <3>1. 1 \in 1..Len(queue) /\ Head(queue) = queue[1]
        BY <1>1, HeadTailProperties, LenProperties DEF Receive, TypeOK
      <3> QED BY <1>1, <3>1 DEF Receive, CountInv, FreshInv, history
    <2> QED
      BY <1>0, <1>1, <2>1 DEF Receive, OnceInv, Counted, Cancelled, TypeOK
  <1>2. CASE ReceiveCancelled(w)
    BY <1>0, <1>2, OnceFrame DEF ReceiveCancelled, poolVars, Cancelled
  <1>3. CASE StopWorker(w)
    BY <1>0, <1>3 DEF StopWorker, OnceInv, Counted, Cancelled, TypeOK, history
  <1>4. CASE BackoffElapses(w)
    BY <1>0, <1>4 DEF BackoffElapses, OnceInv, Counted, Cancelled, TypeOK, history
  <1>5. CASE GiveUp(w)
    BY <1>0, <1>5 DEF GiveUp, Idle, OnceInv, Counted, Cancelled, TypeOK
  <1>6. ASSUME wpc[w] = "call", CallEnds(w), UNCHANGED increments PROVE OnceInv'
    BY <1>0, <1>6 DEF CallEnds, Idle, OnceInv, Counted, Cancelled, TypeOK
  <1>7. ASSUME wpc[w] = "call", CallEnds(w), Increment(wev[w], attempt[w]),
               Idle(w) \/ Cancelled
        PROVE  OnceInv'
    <2>1. Busy(w) /\ ~Counted(wev[w])
      BY <1>7 DEF Busy, OnceInv
    <2>2. increments' = increments \cup {<<wev[w], attempt[w]>>}
      BY <1>7 DEF Increment
    <2>3. \A i, j \in increments' : i[1] = j[1] => i = j
      BY <2>1, <2>2 DEF OnceInv, Counted
    <2>4. ASSUME NEW x \in Workers \ {w}, Busy(x), ~Counted(wev[x]) PROVE ~Counted(wev[x])'
      <3>1. wev[x] # wev[w] /\ wev'[x] = wev[x]
        BY <1>7, <2>1, <2>4, CallEndsEffect DEF CountInv, HeldInv
      <3> QED BY <2>2, <2>4, <3>1 DEF Counted
    <2>5. \A x \in Workers \ {w} : wpc'[x] = wpc[x]
      BY <1>7, <2>1, CallEndsEffect
    <2>6. wpc'[w] = "receive" \/ (wpc'[w] = "backoff" /\ Cancelled')
      BY <1>0, <1>7 DEF CallEnds, Idle, TypeOK, Cancelled
    <2> QED
      BY <1>0, <2>3, <2>4, <2>5, <2>6 DEF OnceInv, Busy, Cancelled
  <1>8. CASE CallSucceeds(w)
    BY <1>7, <1>8 DEF CallSucceeds, CallEnds
  <1>9. CASE CallFails(w)
    <2>1. wpc[w] = "call" /\ CallEnds(w)
      BY <1>9 DEF CallFails, CallEnds
    <2>2. CASE FailsWithEffect(wev[w], attempt[w], CallFaults)
      BY <1>7, <2>1, <2>2 DEF FailsWithEffect, CallFaults
    <2>3. CASE FailsWithoutEffect(wev[w], CallFaults)
      BY <1>6, <2>1, <2>3 DEF FailsWithoutEffect
    <2> QED BY <1>9, <2>2, <2>3 DEF CallFails
  <1> QED
    BY <1>1, <1>2, <1>3, <1>4, <1>5, <1>8, <1>9 DEF WorkerStep

LEMMA OnceStep == TypeOK /\ CountInv /\ OnceInv /\ [Next]_vars => OnceInv'
  <1> SUFFICES ASSUME TypeOK, CountInv, OnceInv, [Next]_vars PROVE OnceInv'
    OBVIOUS
  <1>1. CASE UNCHANGED vars
    BY <1>1, OnceFrame DEF vars, poolVars, mainVars, history, Cancelled
  <1>2. ASSUME NEW p \in Polls,
               \/ \E s \in PollStatus : SetStatus(p, s)
               \/ \E x \in Window : MoveWindow(p, x)
               \/ DeletePoll(p)
        PROVE  OnceInv'
    <2>1. UNCHANGED <<wpc, wev, main>> /\ increments' \subseteq increments
      BY <1>2 DEF SetStatus, MoveWindow, DeletePoll, poolVars, mainVars, history
    <2> QED BY <2>1, OnceFrame DEF Cancelled
  <1>3. CASE Signal \/ MainStep \/ Crash \/ Restart
    <2>1. UNCHANGED increments
      BY <1>3 DEF Signal, MainStep, ShutdownReturns, ShutdownTimesOut, PoolDrained,
         DrainTimesOut, MainReturns, Crash, Restart, MainGoto, Die, history
    <2>2. \/ \A w \in Workers : wpc'[w] \in {"stopped", "receive"}
          \/ UNCHANGED <<wpc, wev>> /\ (Cancelled => Cancelled')
      BY <1>3 DEF Signal, MainStep, ShutdownReturns, ShutdownTimesOut, PoolDrained,
         DrainTimesOut, MainReturns, Crash, Restart, MainGoto, Die, poolVars, Cancelled
    <2> QED BY <2>1, <2>2, OnceFrame DEF OnceInv, Counted
  <1> QED
    BY <1>1, <1>2, <1>3, OnceHandler, OnceWorker DEF Next

LEMMA BoundByAttempts ==
    ASSUME TypeOK, CountInv, NEW p \in Polls, NEW o \in Options
    PROVE  agg[<<p, o>>] <= MaxAttempts * Cardinality(VotesFor(p, o))
  <1>1. IsFiniteSet(VotesFor(p, o)) /\ IsFiniteSet(1..MaxAttempts)
    BY IncrementsFinite, PipelineAssumption, FS_Interval
  <1>2. Cardinality(1..MaxAttempts) = MaxAttempts
    BY PipelineAssumption, FS_Interval
  <1>3. Tallied(p, o) \in SUBSET (VotesFor(p, o) \X (1..MaxAttempts))
    BY DEF Tallied, VotesFor, CountInv, LedgerInv, TypeOK
  <1>4. IsFiniteSet(VotesFor(p, o) \X (1..MaxAttempts))
    BY <1>1, FS_Product
  <1>5. Cardinality(VotesFor(p, o) \X (1..MaxAttempts))
           = Cardinality(VotesFor(p, o)) * MaxAttempts
    BY <1>1, <1>2, FS_Product
  <1>6. Cardinality(Tallied(p, o)) <= Cardinality(VotesFor(p, o)) * MaxAttempts
    BY <1>3, <1>4, <1>5, FS_Subset
  <1>7. Cardinality(VotesFor(p, o)) \in Nat
    BY <1>1, FS_CardinalityType
  <1>8. Cardinality(VotesFor(p, o)) * MaxAttempts = MaxAttempts * Cardinality(VotesFor(p, o))
    BY <1>7, PipelineAssumption
  <1> QED BY <1>6, <1>8 DEF CountInv, LedgerInv

LEMMA BoundByVotes ==
    ASSUME TypeOK, CountInv, OnceInv, "after" \notin Faults, NEW p \in Polls, NEW o \in Options
    PROVE  agg[<<p, o>>] <= Cardinality(VotesFor(p, o))
  <1> DEFINE f == [i \in Tallied(p, o) |-> i[1]]
  <1>1. f \in [Tallied(p, o) -> VotesFor(p, o)]
    BY DEF Tallied, VotesFor, CountInv, LedgerInv
  <1>2. \A i, j \in Tallied(p, o) : f[i] = f[j] => i = j
    BY DEF OnceInv, Tallied
  <1>3. f \in Injection(Tallied(p, o), VotesFor(p, o))
    BY <1>1, <1>2 DEF Injection, IsInjective
  <1>4. Cardinality(Tallied(p, o)) <= Cardinality(VotesFor(p, o))
    BY <1>3, IncrementsFinite, FS_Injection
  <1> QED BY <1>4 DEF CountInv, LedgerInv

\* The results never exceed the votes where no reply is lost, and never exceed
\* MaxAttempts times the votes where a lost reply makes a worker repeat itself.
THEOREM ResultsNeverOvercount == Spec => []NeverOvercounts
  <1>1. TypeOK /\ CountInv /\ OnceInv => NeverOvercounts
    <2> SUFFICES ASSUME TypeOK, CountInv, OnceInv, NEW p \in Polls, NEW o \in Options
                 PROVE  agg[<<p, o>>] <= Limit * Cardinality(VotesFor(p, o))
      BY DEF NeverOvercounts
    <2>1. CASE "after" \in Faults
      BY <2>1, BoundByAttempts DEF Limit
    <2>2. CASE "after" \notin Faults
      <3>1. Cardinality(VotesFor(p, o)) \in Nat
        BY IncrementsFinite, FS_CardinalityType
      <3>2. 1 * Cardinality(VotesFor(p, o)) = Cardinality(VotesFor(p, o))
        BY <3>1
      <3> QED BY <2>2, <3>2, BoundByVotes DEF Limit
    <2> QED BY <2>1, <2>2
  <1> QED BY <1>1, CountCorrect, OnceInit, OnceStep, PTL DEF Spec
-----------------------------------------------------------------------------
(* Accounting.                                                             *)

\* Where a vote that is stored and not counted may be.  Stronger than Accounted
\* where no reply is lost: then an error of Create is no explanation.
Traced(v) == \/ Counted(v)
             \/ v \in InMemory \cup logged \cup dropped
             \/ "after" \in Faults /\ ReplyLost(v)
TracedInv == \A v \in votes : Traced(v)

\* What holds an event, one holder at a time.
LEMMA Holders ==
    ASSUME NEW v
    PROVE  v \in InMemory <=>
             \/ \E r \in Requests : InHandler(r) /\ v = req[r]
             \/ \E i \in 1..Len(queue) : v = queue[i]
             \/ \E w \in Workers : Busy(w) /\ v = wev[w]
  <1>1. v \in ByHandler <=> \E r \in Requests : InHandler(r) /\ v = req[r]
    BY DEF ByHandler, InHandler
  <1>2. v \in ByQueue <=> \E i \in 1..Len(queue) : v = queue[i]
    BY DEF ByQueue
  <1>3. v \in ByWorker <=> \E w \in Workers : Busy(w) /\ v = wev[w]
    BY DEF ByWorker, Busy
  <1> QED BY <1>1, <1>2, <1>3 DEF InMemory

LEMMA TracedInit == Init => TracedInv
  BY DEF Init, TracedInv

\* Every step keeps a trace of what was stored, if it forgets no increment of a
\* vote that stays, no line of the log and no answer.
LEMMA TracedFrame ==
    ASSUME TracedInv, logged \subseteq logged', dropped \subseteq dropped',
           \A i \in increments : i[1] \in votes' => i \in increments',
           \A r \in Requests : resp[r] = "error" => resp'[r] = "error" /\ req'[r] = req[r],
           \A v \in InMemory : v \in votes' =>
               v \in InMemory' \cup logged' \cup dropped' \/ Counted(v)',
           \A v \in votes' : v \in votes \/ Traced(v)'
    PROVE  TracedInv'
  <1> SUFFICES ASSUME NEW v \in votes', v \in votes PROVE Traced(v)'
    BY DEF TracedInv
  <1>1. Traced(v)
    BY DEF TracedInv
  <1>2. Counted(v) => Counted(v)'
    BY DEF Counted
  <1>3. ReplyLost(v) => ReplyLost(v)'
    BY DEF ReplyLost
  <1> QED BY <1>1, <1>2, <1>3 DEF Traced

\* A handler that is running has answered nothing yet, and its answer stays.
LEMMA AnswersStay ==
    ASSUME TypeOK, AcceptedInv, NEW r \in Requests,
           (\E v \in Vote : Arrive(r, v)) \/ BadRequest(r) \/ HandlerStep(r)
    PROVE  \A s \in Requests : resp[s] = "error" => resp'[s] = "error" /\ req'[s] = req[s]
  <1>1. resp[r] = "none"
    BY DEF AcceptedInv, Arrive, BadRequest, HandlerStep, GetPollStatus, GetPollWindow,
           CreateStores, CreateFails, Send, SyncIncrement
  <1>2. \A s \in Requests \ {r} : resp'[s] = resp[s] /\ req'[s] = req[s]
    BY DEF Arrive, BadRequest, HandlerStep, GetPollStatus, GetPollWindow, CreateStores,
           CreateFails, Send, SyncIncrement, Goto, Answer, TypeOK
  <1> QED BY <1>1, <1>2

LEMMA TracedHandler ==
    ASSUME TypeOK, AcceptedInv, TracedInv, NEW r \in Requests,
           (\E v \in Vote : Arrive(r, v)) \/ BadRequest(r) \/ HandlerStep(r)
    PROVE  TracedInv'
  <1>0. UNCHANGED <<wpc, wev, dropped>>
    BY DEF Arrive, BadRequest, HandlerStep, GetPollStatus, GetPollWindow, CreateStores,
           CreateFails, Send, SyncIncrement, poolVars, history
  <1>a. \A w \in Workers : Busy(w)' <=> Busy(w)
    BY <1>0 DEF Busy
  <1>1. ASSUME ~InHandler(r), UNCHANGED <<votes, queue, logged, increments>>,
               \A s \in Requests \ {r} : pc'[s] = pc[s] /\ req'[s] = req[s]
        PROVE  TracedInv'
    <2>1. ASSUME NEW v \in InMemory PROVE v \in InMemory'
      <3>1. CASE \E s \in Requests : InHandler(s) /\ v = req[s]
        BY <1>1, <3>1 DEF InHandler, InMemory, ByHandler
      <3>2. CASE \/ \E i \in 1..Len(queue) : v = queue[i]
                 \/ \E w \in Workers : Busy(w) /\ v = wev[w]
        BY <1>0, <1>1, <1>a, <3>2 DEF InMemory, ByQueue, ByWorker
      <3> QED BY <2>1, <3>1, <3>2, Holders
    <2> QED BY <1>0, <1>1, <2>1, AnswersStay, TracedFrame
  <1>2. CASE \E v \in Vote : Arrive(r, v)
    BY <1>1, <1>2 DEF Arrive, InHandler, TypeOK, history
  <1>3. CASE BadRequest(r)
    BY <1>1, <1>3 DEF BadRequest, Answer, InHandler, TypeOK, history
  <1>4. CASE GetPollStatus(r)
    BY <1>1, <1>4 DEF GetPollStatus, Goto, Answer, InHandler, TypeOK, history
  <1>5. CASE GetPollWindow(r)
    BY <1>1, <1>5 DEF GetPollWindow, Goto, Answer, InHandler, TypeOK, history
  <1>6. CASE CreateFails(r)
    BY <1>1, <1>6 DEF CreateFails, Goto, Answer, InHandler, TypeOK, history
  <1>7. CASE CreateStores(r)
    <2>1. /\ votes' = votes \cup {req[r]} /\ UNCHANGED <<queue, logged, increments, req>>
          /\ \A s \in Requests \ {r} : pc'[s] = pc[s]
      BY <1>7 DEF CreateStores, Goto, Answer, TypeOK, history
    <2>2. ASSUME NEW v \in InMemory PROVE v \in InMemory'
      BY <1>0, <1>7, <1>a, <2>1, <2>2, Holders DEF InHandler, CreateStores,
         InMemory, ByHandler, ByQueue, ByWorker
    <2>3. CASE Goto(r, "send")
      <3>1. InHandler(r)'
        BY <2>3 DEF Goto, InHandler, TypeOK
      <3>2. Traced(req[r])'
        BY <2>1, <3>1 DEF Traced, InMemory, ByHandler, InHandler
      <3> QED BY <1>0, <2>1, <2>2, <3>2, AnswersStay, TracedFrame
    <2>4. CASE "after" \in Faults /\ Answer(r, "error")
      <3>1. ReplyLost(req[r])'
        BY <2>1, <2>4 DEF Answer, ReplyLost, TypeOK
      <3>2. Traced(req[r])'
        BY <2>4, <3>1 DEF Traced
      <3> QED BY <1>0, <2>1, <2>2, <3>2, AnswersStay, TracedFrame
    <2> QED BY <1>7, <2>3, <2>4 DEF CreateStores
  <1>8. CASE Send(r)
    <2>1. /\ UNCHANGED <<votes, logged, increments, req>>
          /\ \A s \in Requests \ {r} : pc'[s] = pc[s]
      BY <1>8 DEF Send, Goto, Answer, TypeOK, history
    <2>2. req[r] \in Vote /\ queue \in Seq(Vote)
      BY <1>8 DEF Send, TypeOK, Handling
    <2>3. /\ \A i \in 1..Len(queue) : i \in 1..Len(queue') /\ queue'[i] = queue[i]
          /\ InHandler(r)' \/ \E i \in 1..Len(queue') : queue'[i] = req[r]
      <3>1. CASE UNCHANGED queue /\ Goto(r, "sync")
        BY <3>1 DEF Goto, InHandler, TypeOK
      <3>2. CASE queue' = Append(queue, req[r])
        BY <2>2, <3>2, AppendProperties, LenProperties
      <3> QED BY <1>8, <3>1, <3>2 DEF Send
    <2>4. ASSUME NEW v \in InMemory PROVE v \in InMemory'
      <3>1. CASE \E s \in Requests \ {r} : InHandler(s) /\ v = req[s]
        BY <2>1, <3>1 DEF InHandler, InMemory, ByHandler
      <3>2. CASE v = req[r] \/ \E i \in 1..Len(queue) : v = queue[i]
        BY <2>1, <2>3, <3>2 DEF InHandler, InMemory, ByHandler, ByQueue
      <3>3. CASE \E w \in Workers : Busy(w) /\ v = wev[w]
        BY <1>0, <1>a, <3>3 DEF InMemory, ByWorker
      <3> QED BY <2>4, <3>1, <3>2, <3>3, Holders
    <2> QED BY <1>0, <2>1, <2>4, AnswersStay, TracedFrame
  <1>9. CASE SyncIncrement(r)
    <2>1. /\ UNCHANGED <<votes, queue, req>> /\ logged \subseteq logged'
          /\ increments \subseteq increments'
          /\ \A s \in Requests \ {r} : pc'[s] = pc[s]
      BY <1>9 DEF SyncIncrement, Answer, TypeOK, Increment, FailsWithEffect,
         FailsWithoutEffect
    <2>2. req[r] \in logged' \/ \E i \in increments' : i[1] = req[r]
      <3>1. CASE Increment(req[r], 1)
        <4>1. <<req[r], 1>> \in increments' /\ <<req[r], 1>>[1] = req[r]
          BY <3>1 DEF Increment
        <4> QED BY <4>1
      <3>2. CASE logged' = logged \cup {req[r]}
        BY <3>2
      <3> QED BY <1>9, <3>1, <3>2 DEF SyncIncrement
    <2>3. ASSUME NEW v \in InMemory PROVE v \in InMemory' \cup logged' \/ Counted(v)'
      <3>1. CASE \E s \in Requests \ {r} : InHandler(s) /\ v = req[s]
        BY <2>1, <3>1 DEF InHandler, InMemory, ByHandler
      <3>2. CASE v = req[r]
        BY <2>1, <2>2, <3>2 DEF Counted
      <3>3. CASE \/ \E i \in 1..Len(queue) : v = queue[i]
                 \/ \E w \in Workers : Busy(w) /\ v = wev[w]
        BY <1>0, <1>a, <2>1, <3>3 DEF InMemory, ByQueue, ByWorker
      <3> QED BY <2>3, <3>1, <3>2, <3>3, Holders
    <2> QED BY <1>0, <2>1, <2>3, AnswersStay, TracedFrame
  <1> QED
    BY <1>2, <1>3, <1>4, <1>5, <1>6, <1>7, <1>8, <1>9 DEF HandlerStep

LEMMA TracedWorker ==
    ASSUME TypeOK, TracedInv, NEW w \in Workers, WorkerStep(w)
    PROVE  TracedInv'
  <1>0. UNCHANGED <<votes, pc, req, resp, dropped>>
    BY DEF WorkerStep, Receive, ReceiveCancelled, StopWorker, CallSucceeds, CallFails,
           BackoffElapses, GiveUp, handlerVars, history
  \* It is enough that w keeps its event, counts it or logs it, and that the
  \* channel loses only an event that w has now, or that was logged.
  <1>1. ASSUME logged \subseteq logged', increments \subseteq increments',
               \A x \in Workers \ {w} : wpc'[x] = wpc[x] /\ wev'[x] = wev[x],
               Busy(w) => \/ Busy(w)' /\ wev'[w] = wev[w]
                          \/ wev[w] \in logged'
                          \/ \E i \in increments' : i[1] = wev[w],
               \A i \in 1..Len(queue) : \/ \E j \in 1..Len(queue') : queue'[j] = queue[i]
                                        \/ Busy(w)' /\ wev'[w] = queue[i]
                                        \/ queue[i] \in logged'
        PROVE  TracedInv'
    <2>1. ASSUME NEW v \in InMemory PROVE v \in InMemory' \cup logged' \/ Counted(v)'
      <3>1. CASE \E r \in Requests : InHandler(r) /\ v = req[r]
        BY <1>0, <3>1 DEF InHandler, InMemory, ByHandler
      <3>2. CASE \E i \in 1..Len(queue) : v = queue[i]
        BY <1>1, <3>2 DEF InMemory, ByQueue, ByWorker
      <3>3. CASE \E x \in Workers \ {w} : Busy(x) /\ v = wev[x]
        <4>1. \A x \in Workers \ {w} : Busy(x) => Busy(x)' /\ wev'[x] = wev[x]
          BY <1>1 DEF Busy
        <4> QED BY <3>3, <4>1 DEF InMemory, ByWorker
      <3>4. CASE Busy(w) /\ v = wev[w]
        BY <1>1, <3>4 DEF InMemory, ByWorker, Counted
      <3> QED BY <2>1, <3>1, <3>2, <3>3, <3>4, Holders
    <2> QED BY <1>0, <1>1, <2>1, TracedFrame
  <1>2. CASE Receive(w) \/ ReceiveCancelled(w)
    <2>1. ASSUME NEW i \in 1..Len(queue)
          PROVE  \/ i = 1 /\ queue[i] = Head(queue)
                 \/ \E j \in 1..Len(Tail(queue)) : Tail(queue)[j] = queue[i]
      <3>1. queue \in Seq(Vote) /\ queue # <<>>
        BY <1>2 DEF Receive, ReceiveCancelled, TypeOK
      <3>2. CASE i = 1
        BY <3>1, <3>2, HeadTailProperties
      <3>3. CASE i # 1
        <4>1. i - 1 \in 1..Len(Tail(queue)) /\ Tail(queue)[i - 1] = queue[i]
          BY <3>1, <3>3, HeadTailProperties, LenProperties
        <4> QED BY <4>1
      <3> QED BY <3>2, <3>3
    <2>2. CASE Receive(w)
      BY <1>1, <2>1, <2>2 DEF Receive, Busy, TypeOK, history
    <2>3. CASE ReceiveCancelled(w)
      BY <1>1, <2>1, <2>3 DEF ReceiveCancelled, Busy, poolVars
    <2> QED BY <1>2, <2>2, <2>3
  <1>3. CASE StopWorker(w)
    BY <1>1, <1>3 DEF StopWorker, Busy, TypeOK, history
  <1>4. CASE CallSucceeds(w)
    <2>1. /\ increments \subseteq increments' /\ UNCHANGED <<queue, logged>>
          /\ <<wev[w], attempt[w]>> \in increments' /\ <<wev[w], attempt[w]>>[1] = wev[w]
      BY <1>4 DEF CallSucceeds, Increment
    <2>2. \E i \in increments' : i[1] = wev[w]
      BY <2>1
    <2> QED BY <1>1, <1>4, <2>1, <2>2 DEF CallSucceeds, Idle, TypeOK
  <1>5. CASE CallFails(w)
    <2>1. increments \subseteq increments' /\ UNCHANGED queue /\ logged \subseteq logged'
      BY <1>5 DEF CallFails, FailsWithEffect, FailsWithoutEffect, Increment
    <2> QED BY <1>1, <1>5, <2>1 DEF CallFails, Idle, Busy, TypeOK
  <1>6. CASE BackoffElapses(w)
    BY <1>1, <1>6 DEF BackoffElapses, Busy, TypeOK, history
  <1>7. CASE GiveUp(w)
    BY <1>1, <1>7 DEF GiveUp, Idle, TypeOK
  <1> QED
    BY <1>2, <1>3, <1>4, <1>5, <1>6, <1>7 DEF WorkerStep

LEMMA TracedMain ==
    ASSUME TypeOK, ShutdownInv, TracedInv, Signal \/ MainStep \/ Crash \/ Restart
    PROVE  TracedInv'
  <1>1. CASE Die
    BY <1>1, TracedFrame DEF Die
  <1>2. ASSUME NEW l, MainGoto(l) PROVE TracedInv'
    <2>1. UNCHANGED <<pc, req, resp, queue, wpc, wev, votes, increments, logged, dropped>>
      BY <1>2 DEF MainGoto, handlerVars, poolVars, history
    <2>2. InMemory' = InMemory
      BY <2>1 DEF InMemory, ByHandler, ByQueue, ByWorker, Busy
    <2> QED BY <2>1, <2>2, TracedFrame
  \* A process that has ended had nothing in memory that a new one could lose.
  <1>3. CASE Restart
    <2>1. UNCHANGED <<pc, req, resp, queue, wev, votes, increments, logged, dropped>>
      BY <1>3 DEF Restart, handlerVars, history
    <2>2. \A w \in Workers : ~Busy(w)
      BY <1>3 DEF Restart, ShutdownInv, Busy
    <2>3. \A v \in InMemory : v \in InMemory'
      BY <2>1, <2>2 DEF InMemory, ByHandler, ByQueue, ByWorker
    <2> QED BY <2>1, <2>3, TracedFrame
  <1> QED
    BY <1>1, <1>2, <1>3 DEF Signal, MainStep, ShutdownReturns, ShutdownTimesOut,
       PoolDrained, DrainTimesOut, MainReturns, Crash

LEMMA TracedStep ==
    TypeOK /\ ShutdownInv /\ AcceptedInv /\ TracedInv /\ [Next]_vars => TracedInv'
  <1> SUFFICES ASSUME TypeOK, ShutdownInv, AcceptedInv, TracedInv, [Next]_vars
               PROVE  TracedInv'
    OBVIOUS
  <1>1. CASE UNCHANGED vars
    <2>1. InMemory' = InMemory
      BY <1>1 DEF vars, handlerVars, poolVars, InMemory, ByHandler, ByQueue, ByWorker, Busy
    <2> QED BY <1>1, <2>1, TracedFrame DEF vars, handlerVars, history
  <1>2. ASSUME NEW p \in Polls,
               \/ \E s \in PollStatus : SetStatus(p, s)
               \/ \E x \in Window : MoveWindow(p, x)
               \/ DeletePoll(p)
        PROVE  TracedInv'
    <2>1. UNCHANGED <<pc, req, resp, queue, wpc, wev, logged, dropped>>
      BY <1>2 DEF SetStatus, MoveWindow, DeletePoll, handlerVars, poolVars, history
    <2>2. InMemory' = InMemory
      BY <2>1 DEF InMemory, ByHandler, ByQueue, ByWorker, Busy
    <2>3. /\ votes' \subseteq votes
          /\ \A i \in increments : i[1] \in votes' => i \in increments'
      BY <1>2 DEF SetStatus, MoveWindow, DeletePoll, history
    <2> QED BY <2>1, <2>2, <2>3, TracedFrame
  <1> QED
    BY <1>1, <1>2, TracedHandler, TracedWorker, TracedMain DEF Next

LEMMA TracedCorrect == Spec => [](TypeOK /\ ShutdownInv /\ TracedInv)
  <1>1. TypeOK /\ ShutdownInv /\ AcceptedInv /\ TracedInv /\ [Next]_vars
        => (TypeOK /\ ShutdownInv /\ AcceptedInv /\ TracedInv)'
    BY TypeStep, ShutdownStep, AcceptedStep, TracedStep
  <1> QED
    BY <1>1, TypeInit, ShutdownInit, AcceptedInit, TracedInit, PTL DEF Spec

\* No stored vote is missing from the results without a trace, over every
\* interleaving, failed call, cancelled pool, crash and restart.
THEOREM VotesAreAccounted == Spec => []Accounted
  <1>1. TracedInv => Accounted
    BY DEF TracedInv, Traced, Accounted
  <1> QED BY <1>1, TracedCorrect, PTL

\* Where every vote of an option is counted, it was counted at least once each.
LEMMA BoundByTally ==
    ASSUME TypeOK, CountInv, NEW p \in Polls, NEW o \in Options,
           \A v \in VotesFor(p, o) : Counted(v)
    PROVE  Cardinality(VotesFor(p, o)) <= agg[<<p, o>>]
  <1> DEFINE f == [v \in VotesFor(p, o) |-> CHOOSE i \in increments : i[1] = v]
  <1>1. \A v \in VotesFor(p, o) : f[v] \in increments /\ f[v][1] = v
    BY DEF Counted
  <1>2. f \in [VotesFor(p, o) -> Tallied(p, o)]
    BY <1>1 DEF VotesFor, Tallied
  <1>3. \A u, v \in VotesFor(p, o) : f[u] = f[v] => u = v
    BY <1>1
  <1> HIDE DEF f
  <1>4. f \in Injection(VotesFor(p, o), Tallied(p, o))
    BY <1>2, <1>3 DEF Injection, IsInjective
  <1>5. Cardinality(VotesFor(p, o)) <= Cardinality(Tallied(p, o))
    BY <1>4, IncrementsFinite, FS_Injection
  <1> QED BY <1>5 DEF CountInv, LedgerInv

\* After an orderly shutdown the results are the votes, where no reply is lost
\* and the log and the deaths of the process explain nothing.
THEOREM DrainsAreExact == Spec => []ExactWhenDrained
  <1>1. TypeOK /\ ShutdownInv /\ CountInv /\ OnceInv /\ TracedInv => ExactWhenDrained
    <2> SUFFICES ASSUME TypeOK, ShutdownInv, CountInv, OnceInv, TracedInv,
                        main = "drained", logged \cup dropped = {}, "after" \notin Faults,
                        NEW p \in Polls, NEW o \in Options
                 PROVE  agg[<<p, o>>] = Cardinality(VotesFor(p, o))
      BY DEF ExactWhenDrained
    <2>1. InMemory = {}
      BY DEF ShutdownInv, NoSendAfterClose, InMemory, ByHandler, ByQueue, ByWorker,
             Serving, Handling, Busy
    <2>2. \A v \in VotesFor(p, o) : Counted(v)
      BY <2>1 DEF TracedInv, Traced, VotesFor
    <2>3. Cardinality(VotesFor(p, o)) <= agg[<<p, o>>]
      BY <2>2, BoundByTally
    <2>4. agg[<<p, o>>] <= Cardinality(VotesFor(p, o))
      BY BoundByVotes
    <2>5. agg[<<p, o>>] \in Nat /\ Cardinality(VotesFor(p, o)) \in Nat
      BY IncrementsFinite, FS_CardinalityType DEF TypeOK
    <2> QED BY <2>3, <2>4, <2>5
  <1>2. Spec => []OnceInv
    BY CountCorrect, OnceInit, OnceStep, PTL DEF Spec
  <1> QED BY <1>1, <1>2, CountCorrect, TracedCorrect, PTL
-----------------------------------------------------------------------------
(* Refinement of VoteLedger.                                               *)

\* Applying an increment counts a vote that was not counted.
LEMMA IncrementCounts ==
    ASSUME LedgerInv, NEW v \in Vote, NEW k, v \in votes, ~Counted(v),
           Increment(v, k), UNCHANGED <<status, votes>>
    PROVE  Ledger!Next
  <1>1. v \notin {i[1] : i \in increments}
    BY DEF Counted
  <1>2. {i[1] : i \in increments'} = {i[1] : i \in increments} \cup {v}
    <2>1. increments' = increments \cup {<<v, k>>} /\ <<v, k>>[1] = v
      BY DEF Increment
    <2>2. ASSUME NEW x PROVE x \in {i[1] : i \in increments'}
                               <=> x \in {i[1] : i \in increments} \cup {v}
      <3>1. x \in {i[1] : i \in increments'} <=> \E i \in increments' : x = i[1]
        OBVIOUS
      <3>2. x \in {i[1] : i \in increments} <=> \E i \in increments : x = i[1]
        OBVIOUS
      <3> QED BY <2>1, <3>1, <3>2
    <2> QED BY <2>2
  <1>3. UNCHANGED {p \in Polls : Present(p)}
    BY DEF Present
  <1>4. Ledger!Count(v)
    BY <1>1, <1>2, <1>3 DEF Ledger!Count, Increment
  <1> QED BY <1>4 DEF Ledger!Next, Vote, Ledger!Vote

LEMMA LedgerSimulation ==
    ASSUME TypeOK, AcceptedInv, CountInv, OnceInv, "after" \notin Faults, [Next]_vars
    PROVE  [Ledger!Next]_(Ledger!vars)
  <1>1. ASSUME UNCHANGED <<votes, agg, increments>>,
               \A p \in Polls : Present(p) <=> Present(p)'
        PROVE  UNCHANGED Ledger!vars
    BY <1>1 DEF Ledger!vars
  <1>2. ASSUME NEW r \in Requests,
               (\E v \in Vote : Arrive(r, v)) \/ BadRequest(r) \/ HandlerStep(r)
        PROVE  [Ledger!Next]_(Ledger!vars)
    <2>1. UNCHANGED status
      BY <1>2 DEF Arrive, BadRequest, HandlerStep, GetPollStatus, GetPollWindow,
         CreateStores, CreateFails, Send, SyncIncrement, pollVars
    <2>2. CASE CreateStores(r)
      <3>1. req[r] \in Vote
        BY <2>2 DEF CreateStores, TypeOK, Handling
      <3>2. /\ Present(req[r].poll) /\ ~AlreadyVoted(req[r])
            /\ votes' = votes \cup {req[r]} /\ UNCHANGED <<agg, increments>>
        BY <2>2 DEF CreateStores, Insertable, history
      <3>3. /\ UNCHANGED {q \in Polls : Present(q)}
            /\ UNCHANGED {i[1] : i \in increments}
        BY <2>1, <3>2 DEF Present
      <3>4. req[r].poll \in {q \in Polls : Present(q)}
        BY <3>1, <3>2 DEF Vote
      <3>5. Ledger!Cast(req[r])
        BY <3>2, <3>3, <3>4 DEF AlreadyVoted, Ledger!Cast
      <3> QED BY <3>1, <3>5 DEF Ledger!Next, Vote, Ledger!Vote
    <2>3. CASE SyncIncrement(r) /\ Increment(req[r], 1)
      <3>1. req[r] \in Vote /\ UNCHANGED votes
        BY <2>3 DEF SyncIncrement, TypeOK, Handling
      <3>2. req[r] \in votes /\ ~Counted(req[r])
        BY <2>3 DEF SyncIncrement, Increment, AcceptedInv, Settled, CountInv, FreshInv,
           InHandler
      <3> QED BY <2>1, <2>3, <3>1, <3>2, IncrementCounts DEF CountInv
    <2>4. CASE UNCHANGED <<votes, agg, increments>>
      BY <1>1, <2>1, <2>4 DEF Present
    <2> QED
      BY <1>2, <2>2, <2>3, <2>4 DEF Arrive, BadRequest, HandlerStep, GetPollStatus,
         GetPollWindow, CreateFails, Send, SyncIncrement, FailsWithoutEffect,
         FailsWithEffect, history
  <1>3. ASSUME NEW w \in Workers, WorkerStep(w)
        PROVE  [Ledger!Next]_(Ledger!vars)
    <2>1. UNCHANGED <<status, votes>>
      BY <1>3 DEF WorkerStep, Receive, ReceiveCancelled, StopWorker, CallSucceeds,
         CallFails, BackoffElapses, GiveUp, pollVars
    <2>2. CASE wpc[w] = "call" /\ Increment(wev[w], attempt[w])
      <3>1. wev[w] \in Vote
        BY <2>2 DEF TypeOK, Busy
      <3>2. wev[w] \in votes /\ ~Counted(wev[w])
        BY <2>2 DEF Increment, CountInv, HeldInv, Busy, OnceInv
      <3> QED BY <2>1, <2>2, <3>1, <3>2, IncrementCounts DEF CountInv
    <2>3. CASE UNCHANGED <<agg, increments>>
      BY <1>1, <2>1, <2>3 DEF Present
    <2> QED
      BY <1>3, <2>2, <2>3 DEF WorkerStep, Receive, ReceiveCancelled, StopWorker,
         CallSucceeds, CallFails, BackoffElapses, GiveUp, FailsWithoutEffect,
         FailsWithEffect, history
  <1>4. ASSUME NEW p \in Polls,
               (\E s \in PollStatus : SetStatus(p, s)) \/ (\E x \in Window : MoveWindow(p, x))
        PROVE  [Ledger!Next]_(Ledger!vars)
    <2>1. UNCHANGED <<votes, agg, increments>> /\ \A q \in Polls : Present(q) <=> Present(q)'
      BY <1>4 DEF SetStatus, MoveWindow, Present, TypeOK, PollStatus, history
    <2> QED BY <1>1, <2>1
  <1>5. ASSUME NEW p \in Polls, DeletePoll(p)
        PROVE  [Ledger!Next]_(Ledger!vars)
    <2>1. {q \in Polls : Present(q)}' = {q \in Polls : Present(q)} \ {p}
      BY <1>5 DEF DeletePoll, Present, TypeOK
    <2>2. {i[1] : i \in increments'} = {v \in {i[1] : i \in increments} : v.poll # p}
      BY <1>5 DEF DeletePoll
    <2>3. p \in {q \in Polls : Present(q)}
      BY <1>5 DEF DeletePoll
    <2>4. Ledger!Remove(p)
      BY <1>5, <2>1, <2>2, <2>3 DEF DeletePoll, Ledger!Remove
    <2> QED BY <2>4 DEF Ledger!Next
  <1>6. CASE Signal \/ MainStep \/ Crash \/ Restart
    <2>1. UNCHANGED <<status, votes, agg, increments>>
      BY <1>6 DEF Signal, MainStep, ShutdownReturns, ShutdownTimesOut, PoolDrained,
         DrainTimesOut, MainReturns, Crash, Restart, MainGoto, Die, pollVars, history
    <2> QED BY <1>1, <2>1 DEF Present
  <1>7. CASE UNCHANGED vars
    BY <1>1, <1>7 DEF vars, pollVars, history, Present
  <1> QED
    BY <1>2, <1>3, <1>4, <1>5, <1>6, <1>7 DEF Next

\* Where no reply is lost, every behaviour of handlers, channel, pool and process,
\* crashes and restarts included, is one of the ledger that casts each vote once
\* and counts each vote at most once.
THEOREM PipelineImplementsLedger ==
    ASSUME "after" \notin Faults
    PROVE  Spec => ImplementsLedger
  <1>1. Init => Ledger!Init
    <2>1. Init => {p \in Polls : Present(p)} = Polls
      BY DEF Init, Present, PollStatus
    <2> QED BY <2>1 DEF Init, Ledger!Init
  <1>2. TypeOK /\ AcceptedInv /\ CountInv /\ OnceInv /\ [Next]_vars
        => [Ledger!Next]_(Ledger!vars)
    BY LedgerSimulation
  <1>3. Spec => [](TypeOK /\ AcceptedInv /\ CountInv) /\ []OnceInv
    BY CountCorrect, OnceInit, OnceStep, PTL DEF Spec
  <1> QED
    BY <1>1, <1>2, <1>3, PTL DEF Spec, ImplementsLedger, Ledger!Spec
-----------------------------------------------------------------------------
(* What EveryRequestAnswered, EventsLeaveMemory and ShutdownEnds need      *)
(* beside fairness: no event is left to nobody, and whoever is under way   *)
(* goes forward, with a number of steps left that is bounded.              *)

EventsAreTended ==
    InMemory # {} =>
        /\ main \notin {"drained", "aborted"}
        /\ ByHandler # {} => Serving
        /\ Cancelled \/ \E w \in Workers : wpc[w] # "stopped"

\* No event is stranded: while there is one in memory the process lives, a
\* handler may still send, and, until the pool is cancelled, some worker is
\* there to take it.  Workers stop on the closed channel and on workerCtx, main
\* closes the one and cancels the other, and each may come between two events.
THEOREM NoEventIsStranded == Spec => []EventsAreTended
  <1>1. TypeOK /\ ShutdownInv => EventsAreTended
    <2> SUFFICES ASSUME TypeOK, ShutdownInv, InMemory # {}
                 PROVE  /\ main \notin {"drained", "aborted"}
                        /\ ByHandler # {} => Serving
                        /\ Cancelled \/ \E w \in Workers : wpc[w] # "stopped"
      BY DEF EventsAreTended
    <2>1. ByHandler # {} => Serving
      BY DEF ByHandler, Handling, ShutdownInv, NoSendAfterClose
    <2>2. main \notin {"drained", "aborted"}
      BY <2>1 DEF InMemory, ByQueue, ByWorker, Busy, ShutdownInv, Serving
    <2>3. CASE main \in {"serving", "stopping"}
      BY <2>1, <2>3, PipelineAssumption DEF ShutdownInv, Serving
    <2>4. CASE main = "draining"
      <3>1. CASE ByWorker # {}
        BY <2>1, <2>2, <3>1 DEF ByWorker, Busy
      <3>2. CASE ByQueue # {}
        BY <2>1, <2>4, <3>2, PipelineAssumption DEF ByQueue, ShutdownInv
      <3> QED BY <2>1, <2>4, <3>1, <3>2 DEF InMemory, Serving
    <2>5. CASE main = "cancelled"
      BY <2>1, <2>5 DEF Cancelled
    <2> QED BY <2>1, <2>2, <2>3, <2>4, <2>5 DEF TypeOK, MainPC
  <1> QED BY <1>1, TypeInit, TypeStep, ShutdownInit, ShutdownStep, PTL DEF Spec

StepsToAnswer(l) ==
    CASE l = "idle" -> 6 [] l = "status" -> 5 [] l = "window" -> 4 [] l = "create" -> 3
      [] l = "send" -> 2 [] l = "sync" -> 1 [] l = "done" -> 0

\* The calls and the pauses that may be left of DoWithRetry.
Effort(w) ==
    IF Busy(w) THEN 2 * (MaxAttempts - attempt[w]) + (IF wpc[w] = "call" THEN 1 ELSE 0)
    ELSE 0

StepsToExit ==
    CASE main = "serving" -> 4 [] main = "stopping" -> 3 [] main = "draining" -> 2
      [] main = "cancelled" -> 1 [] main \in {"drained", "aborted"} -> 0

HandlersGoForward ==
    \A r \in Requests : pc'[r] # pc[r] => StepsToAnswer(pc'[r]) < StepsToAnswer(pc[r])

WorkersGoForward ==
    \A w \in Workers : Busy(w) =>
        \/ <<wpc'[w], wev'[w], attempt'[w]>> = <<wpc[w], wev[w], attempt[w]>>
        \/ Effort(w)' < Effort(w)

MainGoesForward ==
    IF starts' = starts THEN main' = main \/ StepsToExit' < StepsToExit
    ELSE starts' > starts

WorkGoesForward == [][HandlersGoForward /\ WorkersGoForward /\ MainGoesForward]_vars

\* A worker at its event has something left to do, a natural number.
LEMMA EffortType ==
    ASSUME TypeOK, NEW w \in Workers, Busy(w)
    PROVE  Effort(w) \in Nat \ {0}
  <1>1. attempt[w] \in 1..MaxAttempts /\ MaxAttempts \in Nat
    BY PipelineAssumption DEF TypeOK
  <1>2. wpc[w] = "call" \/ attempt[w] < MaxAttempts
    BY DEF TypeOK, Busy
  <1> QED BY <1>1, <1>2 DEF Effort

\* It is done with its event once it is neither in a call nor in a pause.
LEMMA LeavingIsForward ==
    ASSUME TypeOK, NEW w \in Workers, Busy(w), ~Busy(w)'
    PROVE  Effort(w)' < Effort(w)
  <1>1. Effort(w)' = 0
    BY DEF Effort
  <1> QED BY <1>1, EffortType

LEMMA ForwardHandler ==
    ASSUME TypeOK, NEW r \in Requests,
           (\E v \in Vote : Arrive(r, v)) \/ BadRequest(r) \/ HandlerStep(r)
    PROVE  HandlersGoForward /\ WorkersGoForward /\ MainGoesForward
  <1>1. UNCHANGED <<wpc, wev, attempt, main, starts>>
    BY DEF Arrive, BadRequest, HandlerStep, GetPollStatus, GetPollWindow, CreateStores,
           CreateFails, Send, SyncIncrement, poolVars, mainVars
  <1>2. \E l \in HandlerPC : /\ pc' = [pc EXCEPT ![r] = l]
                             /\ StepsToAnswer(l) < StepsToAnswer(pc[r])
    BY DEF Arrive, BadRequest, HandlerStep, GetPollStatus, GetPollWindow, CreateStores,
           CreateFails, Send, SyncIncrement, Goto, Answer, StepsToAnswer, HandlerPC
  <1>3. HandlersGoForward
    BY <1>2 DEF HandlersGoForward, TypeOK
  <1> QED BY <1>1, <1>3 DEF WorkersGoForward, MainGoesForward

LEMMA ForwardWorker ==
    ASSUME TypeOK, NEW w \in Workers, WorkerStep(w)
    PROVE  HandlersGoForward /\ WorkersGoForward /\ MainGoesForward
  <1>1. UNCHANGED <<pc, main, starts>>
    BY DEF WorkerStep, Receive, ReceiveCancelled, StopWorker, CallSucceeds, CallFails,
           BackoffElapses, GiveUp, handlerVars, mainVars
  <1>2. \A x \in Workers \ {w} :
           <<wpc'[x], wev'[x], attempt'[x]>> = <<wpc[x], wev[x], attempt[x]>>
    BY DEF WorkerStep, Receive, ReceiveCancelled, StopWorker, CallSucceeds, CallFails,
           BackoffElapses, GiveUp, Idle, TypeOK, poolVars
  <1>3. Busy(w) => Effort(w)' < Effort(w)
    <2> SUFFICES ASSUME Busy(w) PROVE Effort(w)' < Effort(w)
      OBVIOUS
    <2>1. attempt[w] \in 1..MaxAttempts /\ MaxAttempts \in Nat
      BY PipelineAssumption DEF TypeOK
    <2>2. CASE wpc'[w] = "receive"
      BY <2>2, LeavingIsForward DEF Busy
    \* A failed call of an attempt that was not the last: the pause is left.
    <2>3. CASE wpc[w] = "call" /\ wpc'[w] = "backoff" /\ attempt' = attempt
      BY <2>1, <2>3 DEF Effort, Busy
    \* The pause is over: a call of one attempt more is left.
    <2>4. CASE BackoffElapses(w)
      <3>1. /\ wpc[w] = "backoff" /\ wpc'[w] = "call"
            /\ attempt'[w] = attempt[w] + 1 /\ attempt[w] < MaxAttempts
        BY <2>4 DEF BackoffElapses, TypeOK
      <3> QED BY <2>1, <3>1 DEF Effort, Busy
    <2> QED
      BY <2>2, <2>3, <2>4 DEF WorkerStep, Receive, ReceiveCancelled, StopWorker,
         CallSucceeds, CallFails, GiveUp, Idle, Busy, TypeOK
  <1> QED
    BY <1>1, <1>2, <1>3 DEF HandlersGoForward, WorkersGoForward, MainGoesForward

LEMMA ForwardMain ==
    ASSUME TypeOK, Signal \/ MainStep \/ Crash \/ Restart, ShutdownInv
    PROVE  HandlersGoForward /\ WorkersGoForward /\ MainGoesForward
  \* The process dies: its handlers and its workers are done.
  <1>1. CASE Die /\ main \notin {"drained", "aborted"}
    <2>1. HandlersGoForward
      BY <1>1 DEF Die, HandlersGoForward, Handling, StepsToAnswer, TypeOK, HandlerPC
    <2>2. WorkersGoForward
      BY <1>1, LeavingIsForward DEF Die, WorkersGoForward, Busy
    <2>3. MainGoesForward
      BY <1>1 DEF Die, MainGoesForward, StepsToExit, TypeOK, MainPC
    <2> QED BY <2>1, <2>2, <2>3
  <1>2. CASE Signal \/ ShutdownReturns \/ PoolDrained \/ DrainTimesOut
    <2>1. UNCHANGED <<pc, wpc, wev, attempt, starts>>
      BY <1>2 DEF Signal, ShutdownReturns, PoolDrained, DrainTimesOut, MainGoto,
         handlerVars, poolVars
    <2>2. StepsToExit' < StepsToExit
      BY <1>2 DEF Signal, ShutdownReturns, PoolDrained, DrainTimesOut, MainGoto,
         StepsToExit
    <2> QED
      BY <2>1, <2>2 DEF HandlersGoForward, WorkersGoForward, MainGoesForward
  \* The next process starts where no worker of the last one is at work.
  <1>3. CASE Restart
    <2>1. UNCHANGED pc /\ starts' = starts + 1 /\ starts \in Nat
      BY <1>3, PipelineAssumption DEF Restart, handlerVars, TypeOK
    <2>2. \A w \in Workers : ~Busy(w)
      BY <1>3 DEF Restart, ShutdownInv, Busy
    <2> QED
      BY <2>1, <2>2 DEF HandlersGoForward, WorkersGoForward, MainGoesForward
  <1> QED
    BY <1>1, <1>2, <1>3 DEF MainStep, ShutdownTimesOut, MainReturns, Crash

LEMMA ForwardStep ==
    TypeOK /\ ShutdownInv /\ [Next]_vars
    => [HandlersGoForward /\ WorkersGoForward /\ MainGoesForward]_vars
  <1> SUFFICES ASSUME TypeOK, ShutdownInv, Next
               PROVE  HandlersGoForward /\ WorkersGoForward /\ MainGoesForward
    OBVIOUS
  <1>1. ASSUME NEW p \in Polls,
               \/ \E s \in PollStatus : SetStatus(p, s)
               \/ \E x \in Window : MoveWindow(p, x)
               \/ DeletePoll(p)
        PROVE  HandlersGoForward /\ WorkersGoForward /\ MainGoesForward
    <2>1. UNCHANGED <<pc, wpc, wev, attempt, main, starts>>
      BY <1>1 DEF SetStatus, MoveWindow, DeletePoll, handlerVars, poolVars, mainVars
    <2> QED
      BY <2>1 DEF HandlersGoForward, WorkersGoForward, MainGoesForward
  <1> QED
    BY <1>1, ForwardHandler, ForwardWorker, ForwardMain DEF Next

\* Every step of a handler brings its answer nearer, every step of a busy worker
\* the end of its event, whether the call fails, succeeds or is cancelled, and
\* every step of main the exit of its process.  No request is handled twice, no
\* event returns to an earlier attempt, and no failure starts the count again; so
\* the steps that anyone has left are bounded, and fairness has only to see to it
\* that they are taken.
THEOREM WorkIsBounded == Spec => WorkGoesForward
  <1> QED
    BY TypeInit, TypeStep, ShutdownInit, ShutdownStep, ForwardStep, PTL
       DEF Spec, WorkGoesForward
=============================================================================
