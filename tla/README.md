# TLA+ specifications of the polling system

The repository is a collection of Go programs. The one with a life of its own is
`polling-system`: an HTTP service in which users vote in polls, a pool of
workers aggregates the votes, results are served from a cache, and votes are
limited to a rate for each address. Beside it `go-practice4` moves money between rows
of PostgreSQL, and `go-practice5` pages through a table that each of its starts fills
further. This directory holds specifications of the parts that run concurrently or wait
for something that may fail, the instances on which TLC checks them, and proofs
that TLAPS checks for every instance.

To check a module: `tlc -config <run>.cfg <module>.tla`, with the runs listed
below; to check proofs: `tlapm <module>.tla`.

| module | what it is |
|---|---|
| `VotePipeline` | a vote from the HTTP handler to the tallies, with the channel, the pool, the database, shutdown, crash and restart |
| `VoteLedger` | what that path promises, without its mechanism |
| `ResultsCache` | `GET /polls/{id}/results`: two reads and a cache in front of them |
| `PollAdmin` | creating, changing, deleting and reading polls |
| `PollBook` | what these endpoints promise: one step and a true answer for each request |
| `Accounts` | registration, login, tokens, roles and deactivation |
| `RateLimiter` | the rate limit of `POST /polls/{id}/vote` and the address it counts a request for |
| `TokenBucket` | what that limiter promises, without the table of addresses |
| `ConnectRetry` | the loops that wait for PostgreSQL: `NewPostgres`, and `pingRetry` of go-practice4 |
| `Transfer`, `Bank` | `TransferBalance` of go-practice4, and what it promises |
| `JobsPaging` | go-practice5: starts that insert the samples, clients that page through the rows |
| `MC...` | the instances for TLC: definitions of constants and symmetry |
| `VotePipelineProofs`, `ResultsCacheProofs`, `PollAdminProofs`, `AccountsProofs`, `RateLimiterProofs`, `TransferProofs`, `JobsPagingProofs`, `ConnectRetryProofs` | theorems and their proofs |

## 1. The system

Paths are relative to `polling-system/` unless they say otherwise.

### Components, state, operations

| component | code | state it keeps | operations | 
|---|---|---|---|
| vote handler and voting service | `internal/http/vote_handler.go`, `internal/domain/vote/service.go`, `internal/repository/postgres/vote_repo.go` | rows of `votes` | Vote: read status, read window, insert, invalidate, announce |
| results and their cache | `internal/domain/vote/service.go` | `cache`: a map under a mutex, an entry per poll, good for 10 s | Results, getCached, setCached, invalidateCache |
| worker pool | `internal/worker/stats_worker.go`, `internal/retry/retry.go` | `voteCh` (buffer of 100); each of 4 workers its event and its attempt; rows of `aggregated_results` | receive, IncrementAggregated up to 4 times with backoff, stop |
| polls | `internal/http/poll_handler.go`, `internal/domain/poll/service.go`, `internal/repository/postgres/poll_repo.go` | rows of `polls` and `options` | Create (a transaction), Update (a check, then a write), UpdateStatus, Delete, GetByID, List |
| process | `cmd/server/main.go` | signal context, shutdown deadline, worker context | start, Shutdown, close of the channel, drain, exit |
| schema | `internal/db/migrations` | unique key of votes, foreign keys with ON DELETE CASCADE, TIMESTAMP columns | |
| accounts, tokens | `internal/domain/user`, `internal/http/auth_handler.go`, `user_handler.go`, `middleware.go`, `internal/platform/jwt` | rows of `users` | Register, Login, UpdateRole, Deactivate, AuthMiddleware |
| rate limiter | `internal/http/middleware.go` | a token bucket per address, dropped when idle for 10 minutes | RealIPMiddleware, getLimiter, Allow |
| connection | `internal/platform/database/postgres.go`, `go-practice4/main.go` | none | ping, sleep, give up |
| transfers | `go-practice4/main.go` | rows of `users` with a balance | TransferBalance |
| jobs | `go-practice5/main.go` | rows of `jobs` | insertSamples at each start; handleJobs: a page after an id |

### How they interact

The handler goroutines, the workers and `main` share one process. Handlers
and workers meet in `voteCh`: a handler sends without waiting (`select` with a
`default`), and where the buffer is full it calls `IncrementAggregated` itself.
Both meet the administrator only in PostgreSQL, where each statement commits on
its own, except for the transaction that creates a poll. `Vote` and `Results`
share the cache. `main` closes `voteCh` when `http.Server.Shutdown` has returned,
waits for the pool, and cancels it when the five seconds that began with the
signal are over; when `Shutdown` itself takes longer it exits at once.

A request to vote first passes `RealIPMiddleware`, which decides for which address it
counts, and the limiter, whose table all handlers share under a mutex. The bucket a
handler gets from the table it asks without the mutex. At its start the process
waits for PostgreSQL in `NewPostgres`. Two processes of go-practice5 meet in the file of
the database and at the port.

### What is hard about it

* *Check, then act.* Status, window and insert are three statements; the dates
  of a poll are compared in one statement and written in another; the balance of
  a sender is compared in Go. In between anyone may change the rows.
* *A commit and a message.* The vote is committed before its event is
  sent, and the event lives in memory until a worker has applied it. A crash, a
  lost reply or a full buffer can separate the two.
* *Retries of something that is not idempotent.* `votes_count + 1` is applied once
  more by each attempt that follows a lost reply.
* *Closing a channel* on which handlers send, while workers choose between
  cancellation and receiving.
* *A cache filled in steps* and invalidated in between.
* *Tokens that live for 24 hours* and name a role, beside rows that change meanwhile; a
  free e-mail that is taken before it is used.
* *Locks taken in an order nobody fixes.*
* *An entry that is dropped while somebody holds what it pointed to*: a handler that was held up
  between `getLimiter` and `Allow` may take from a bucket that the table is about to forget.
* *A deadline that is looked at between pings*, while the database comes and goes.
* *Pages of a list that grows*, sorted by a clock that may be set back, with a cursor that is a row.

### What makes the parts correct

Section 3 names the property for each of these. One vote and one 204 for each user and
poll; no vote missing from the results without a trace; no vote counted twice but by
a repeated attempt; no send on a closed channel; a drained pool leaves nothing;
requests, events and shutdown end; a deleted poll leaves nothing and is not
served; a read is not behind what was counted when it began; an invalidation
takes hold; a poll is created whole; concurrent changes of a poll do not undo each other, and answers to
them are true; an e-mail has one
account, nobody acts without having been entitled to, and nobody becomes an
administrator but through one; a transfer is one step, with enough money, and returns; an address
is let through at its rate and not below it, whatever was dropped and whatever others do;
waiting for the database ends, and not too early; a walk over the pages shows each row once.

## 2. Modules and code

Everywhere one SQL statement is one step, because outside of a transaction it
commits on its own, and one operation on the channel or under the cache's mutex
is one step. Two statements are never merged, except inside a transaction of which
nobody can see the middle. A statement may fail *before* its effect or *after* it
(the reply is lost); which of the two may happen is a constant.

History variables record what the properties compare with. No action's guard
reads one.

### VotePipeline

| variable | in the code |
|---|---|
| `status`, `window` | `polls.status` ("absent" once deleted), and where the clock stands between `starts_at` and `ends_at` |
| `votes`, `agg` | the rows of `votes` and of `aggregated_results` |
| `pc`, `req`, `resp` | per request: the statement its handler is at, the vote it asks for, its answer |
| `queue` | `voteCh` |
| `wpc`, `wev`, `attempt` | per worker: at the `select` of `loop` ("receive"), inside `IncrementAggregated` ("call"), at the `select` between attempts ("backoff"), returned ("stopped"); its event; its attempt |
| `main`, `starts` | where `func main` is: before the signal, in `Shutdown`, at the last `select`, after `workerCancel`, returned, dead; how often the process was started |
| `seen`, `increments`, `logged`, `dropped` | history |

| action | in the code |
|---|---|
| `Arrive`, `BadRequest` | `handleVote` up to the call of `Vote` |
| `GetPollStatus`, `GetPollWindow`, `CreateStores`, `CreateFails` | the three statements of `Service.Vote` and the answers their errors are mapped to |
| `Send`, `SyncIncrement` | the `select` with its `default`, and the increment there |
| `Receive`, `ReceiveCancelled`, `StopWorker` | the `select` of `StatsWorker.loop` |
| `CallSucceeds`, `CallFails`, `BackoffElapses`, `GiveUp` | `process` and `DoWithRetry` |
| `SetStatus`, `MoveWindow`, `DeletePoll` | the administrator and the clock |
| `Signal` ... `MainReturns`, `Crash`, `Restart` | `func main` and whoever kills it |

Abstractions. A clock that only says whether the window is still to come, open or
over is enough for `now.Before` and `now.After`; it may move either way, since
administrators move the dates. Delays have no length: a backoff ends
when it ends, the five seconds of shutdown may be over at any moment after the signal. Which
foreign key speaks first when a vote fails several is not promised by PostgreSQL;
the model takes the unique key before the foreign keys, the order in which a row
is inserted and its constraint triggers run. `GetPollStatus` and `GetPollWindow` have no
effect, so their failures are of one kind. The invalidation of
the cache inside `Vote` is left to `ResultsCache`. Requests are those that passed
`AuthMiddleware` (`Accounts`) and the rate limiter (`RateLimiter`).

### VoteLedger

Polls that exist, votes, which of them are counted, and a tally for each option.
`Cast`, `Count`, `Remove`. `VotePipeline` implements it under the mapping at its
end: `counted` are the votes with an increment in the history, `tally` is `agg`.

### ResultsCache

An answer is the set of ballots it shows: counts, total and percentages are
functions of that set. `stored` and `counted` are the rows, `vpc` where
`Service.Vote` stands with each ballot, `cache` the map with the ticks left until
`expiresAt`; `rpc`, `rpoll`, `snap`, `resp` are the requests. `Insert`,
`Invalidate` and `Count` are the writer's side; `GetPollStatus`, `Lookup`,
`AggregatedByPoll`, `CountByPoll` and `Store` are `Service.Results`, one statement
or one lock at a time; `Tick` is the clock. Here every ballot is counted at most
once: that repeated attempts may count more is the subject of `VotePipeline`.

### PollAdmin and PollBook

A row of `polls` with the number of its options. `Create` (the handler's checks),
`InsertPoll`, `InsertOption`, `CommitPoll` are the transaction; `Update`,
`CheckDates`, `WriteUpdate` the partial update of `Service.Update` and
`PollRepo.Update`; `UpdateStatus`, `Delete`, and `Get`, `SelectPoll`,
`SelectOptions` for reading. A date in a request is an instant with
the offset of its zone; the columns are `TIMESTAMP` without a zone, to which the driver
writes the reading of the clock in the zone of the request. `EndsBeforeStart`
compares instants of the request with readings from the row, as the code does. `GetByID` does
not ask `rows.Err()`, so the options it returns may be any initial part of
them: `cut` remembers for which requests they were. `ReadIsWhole` excuses those, so it says that
nothing else shortens a poll and does not keep the code from answering with less; the code does.
`raced` and `shifted` tell of the last change of a poll's dates: that it was checked against a
date that somebody had changed since, or that it came with an offset. The description of a poll is treated by the
code like its title and is left out.

`PollBook` knows polls and answers. Whatever a request changes, it changes in the one step in which it
is answered: `Publish` (a poll appears, whole and as a draft), `Revise` (title and dates, or the
status, never the number of options), `Remove`. Each of them may be answered "error" in place of
its success, since the reply to a statement can be lost; any other answer is true: `Miss` only
of a poll that is not there, `Show` only of one that was there. `PollAdmin` implements it with
`poll` for the book.

### Accounts

| variable | in the code |
|---|---|
| `users` | the rows of `users`, at the place of their id; none is ever deleted |
| `tokens` | what `Manager.Generate` has signed: an id and the role at that time |
| `pc`, `req`, `resp` | per request: the statement it is at, its body or its claims, its answer |
| `stood`, `created` | history: requests whose sender was entitled to them at some moment; registrations that were answered 201 |

| action | in the code |
|---|---|
| `Register`, `RegisterLookup`, `RegisterInsert` | `handleRegister`, the look-up of the e-mail and the insert in `Service.Register` |
| `Login`, `LoginRead` | `handleLogin`; one read, and a token if password and `is_active` agree |
| `Ask`, `Authorize` | `AuthMiddleware` and `RequireRole`: the row is read once and its role takes the place of the one in the claims |
| `UpdateRole`, `Deactivate`, `Missing`, `Own` | the statement behind the middleware: of an administrator, without a row, or of any user |
| `Refuse`, `StatementFails` | what is refused before a statement; a statement that fails |

Abstractions. A password stands for its hash. A token may be refused at any
time (`Refuse`), which covers the expired ones. A `SERIAL` column skips the ids of
inserts that failed; here ids have no gaps, and only their identity matters. `Own` is whatever a
user may do without a role; what votes and polls make of it is in the other modules. The
administrator of `Init` is the one of `2_seed_admin.up.sql`.

### RateLimiter and TokenBucket

| variable | in the code |
|---|---|
| `limiters`, `idle` | `limiters` of `ipRateLimiter`: the bucket of an address, and how long ago its `lastSeen` was |
| `content` | the tokens inside each `rate.Limiter`, in ticks of which `Period` make one token |
| `held`, `who`, `stall` | per handler: the bucket `getLimiter` returned, whose request it is, for how long it has been held |
| `verdict` | whom the limiter answered last, and how |
| `watched`, `since`, `passed` | history: a client, a window of time, its requests let through in it |

`GetLimiter` is `getLimiter`, one step under the mutex: it drops every entry that was idle
for longer than `entryTTL`, finds or makes the one it needs and marks it as seen.
`Allow` and `TooMany` are the call of `Allow` on what it returned. `Address` is
`RealIPMiddleware` with `clientIP`, over what a client may send (`Sent`): directly, with any headers, or
through a trusted proxy, of which the model assumes what the configuration assumes, that it names
the client first.

Abstractions. `rate.Limiter` is a library; it starts full and gains a token per `Period`. Only ages
are kept, so that time may go on for ever. The bound `MaxStall` is a real assumption: a
handler does not stand between `getLimiter` and `Allow` for longer. A bucket needs 18 s to fill up and
is kept for 600 s, so stalls of up to 582 s are harmless, and that sum is all that
`LimiterAssumption` asks for. `Buckets` are identities: a new `rate.Limiter` is any that is
neither in the table nor held.

### ConnectRetry

One of two loops waits (`loop`). `Open` is the `sql.Open` before it, which does not ask the database
and refuses a DSN that is wrong; `pc` and `age` say whether it pings or sleeps, and for how long,
`elapsed` how long it has waited, `attempt` is `i` of `pingRetry`. `Toggle` is the database, at
any moment. A ping fails only if the database was down at some moment of it (`disturbed`); one that was down
may also leave the ping hanging, which `PingContext` of `NewPostgres` ends after two seconds
(`TimesOut`) and nothing ends in `pingRetry`. Time is in half seconds, so the numbers of
the instance are the numbers of the code. The deadline is looked at after a failed ping
(`GiveUp`, `Sleep`); at the very tick of it the clock may stand on either side.

### JobsPaging

Each start inserts the samples one statement at a time (`InsertSample`, which may fail), then
listens and exits if the port is taken (`Listen`), and may be killed. A row has an id, a
company and the second it was inserted in; `SetClock` moves the clock either way. A
request is one SELECT: `Matching` is its WHERE clause, with the row of the cursor as a
subquery, `IsPage` its ORDER BY and LIMIT, `IsLast` the `next_after_id` of the answer. `Begin` and
`Follow` are what clients do with it; `shown`, `began` and `late` are history. Titles and
salaries are left out.

### Transfer and Bank

`TransferBalance` from its first check to its return; `lockedBy` stands for the row locks of
PostgreSQL, `toLock` for what the scan of `SELECT ... FOR UPDATE` has yet to meet.
The statement has no `ORDER BY`, so the order is any order. `OnCycle` is the
deadlock detector. Writes become visible at `Commit`. Amounts are counted in halves of a cent,
the smallest amount that `NUMERIC(12,2)` has to round; `Bank!Round` rounds half up.

## 3. Runs and properties

| run | specification | properties | what it shows |
|---|---|---|---|
| `vote_safety` | `Spec` | `TypeOK`, `AcceptedOnceAndKept`, `Accounted`, `NeverOvercounts`, `GatedByPoll`, `DeletedLeavesNothing`, `ShutdownIsOrderly` | votes, events and tallies stay consistent while calls fail on either side of their effect, polls change and vanish, and the process is shut down, killed and started again |
| `vote_exact` | `FairSpec` | `ExactWhenDrained`, `ImplementsLedger`, `EveryRequestAnswered`, `EventsLeaveMemory`, `ShutdownEnds` | where no reply is lost, every step is one of the ledger, and an orderly shutdown leaves results equal to votes; requests are answered and a signal ends the process though workers hang; if workers run, no event stays in memory |
| `cache` | `FairSpec` | `TypeOK`, `DeletedNotServed`, `ReadIsNotBehind`, `InvalidationTakesHold`, `CountedBecomesVisible` | what the cache and the second look at the votes do guarantee; a counted vote is shown for good from some moment on, without another vote |
| `cache_stale` | `Spec` | `ReadYourVote` (violated) | an answer read before a vote is stored after its invalidation |
| `polls` | `Spec` | `TypeOK`, `ReadIsWhole`, `DatesOrderedUnlessRaced`, `OnlySentColumnsChange`, `ImplementsBook` | polls are created and read whole; concurrent changes do not undo each other; dates out of order are put right by the next change that no other interferes with; each request is one step of which its answer is true |
| `polls_dates` | `Spec` | `DatesOrdered` (violated) | two updates leave a poll that ends before it starts |
| `accounts` | `Spec` | `TypeOK`, `RegistrationIsExclusive`, `ActsWithStanding`, `AdminsComeFromAdmins` | registrations, logins and tokens of any age against changes of roles and deactivations |
| `limiter` | `Spec` | `TypeOK`, `RateKept`, `ImplementsBuckets` | requests race through `getLimiter` and `Allow` while idle buckets are dropped: each client still meets one everlasting bucket of its own |
| `connect` | `Spec` | `TypeOK`, `UpIsNotMissed`, `Returns` | the database comes and goes: neither loop gives up early, and `NewPostgres` returns within 17.5 s |
| `transfer` | `FairSpec` | `TypeOK`, `MoneyConserved`, `AnswerIsTrue`, `ImplementsBank`, `EveryCallReturns` | each transfer is one move of enough money, and every call returns |
| `transfer_order` | `Spec` | `NoDeadlock` (violated) | two transfers wait for each other |
| `jobs` | `Spec` | `TypeOK`, `WalkIsWhole`, `WalkIsSnapshot` | a client pages while another start inserts and the clock is set back: no row twice, none missed, none that came later unless the clock went back |

Each property is stated in words where it is defined, with the code it is about.

### Bounds, and why they are enough

* `vote_safety`: two requests, two users, one poll with two options and one option that belongs to no poll, two workers, a channel
  of one, two attempts, two starts. Two requests of one user make a duplicate, two of
  different users fill the channel, so that the second counts synchronously;
  two workers can each hold an event; two attempts make a retry and a last
  attempt; two starts make a crash in whose wake the other request is handled. A
  second poll would interact with nothing: every row, event and request names
  one poll. The theorems cover all larger instances.
* `vote_exact`: the same, with one option, and calls that fail before their effect only, since a
  lost reply is the one thing after which results and votes may differ. No symmetry, as
  liveness is checked.
* `cache`, `cache_stale`: two readers (one stores what it read before the other's vote was
  invalidated), two ballots in one poll, and an entry that lives for one tick. A
  ballot counted before the requests begin and one that comes later are both among the
  initial states, and statements may fail at any time. `CountedBecomesVisible` speaks of what a
  request finds in the cache; one that finds nothing there reads the rows.
* `polls`: two requests at a time, one id that is free or taken, two titles, two
  instants in each column with a zone at UTC or on either side of it: dates in order, equal and out
  of order, and dates whose order differs between instants and wall clocks. Two requests are enough
  for a race and for a change that mends an offset; that a third one mends a race is in the theorem.
* `accounts`: two requests at a time, the administrator's e-mail and another one, two passwords, statements
  that fail on either side of their effect. Two registrations race for the one e-mail that is free;
  one user beside the administrator is enough for each to change, or deactivate, the other or
  himself, with tokens of either role; requests follow each other without
  end, so a token may be of any age.
* `limiter`: two clients, direct or through one proxy, two handlers, a bucket for each client and one more that takes the
  place of one that was dropped while it is held; two tokens of two ticks. `TTL` and `MaxStall` are as tight as
  `LimiterAssumption` allows, so that an entry is dropped in the very tick in which its bucket is
  full again, after the longest stall. Windows of up to six ticks are longer than the time
  after which an entry is dropped. Time itself has no bound.
* `connect`: the numbers of the code. A tick is half a second, of which all of them are multiples.
* `transfer`: two calls, three accounts with up to one cent, an id without a row, amounts of nothing, half a
  cent and a cent. Two calls over the same two rows meet in every order, and
  the third row makes transfers that share one row only.
* `jobs`: two starts of two samples, so up to four rows; two seconds, so rows share one or not and the
  clock goes back; pages of one and of two rows, the default and the largest; one
  client, since clients share nothing but the rows, which no request changes.

`CHECK_DEADLOCK FALSE` is set where the system may really stop: when the process has
ended for the last time within the bound, when all calls have returned, when the
waiting is over.

### Fairness

* `HandlerFairness`: the Go runtime runs every handler, and a statement is answered
  or fails. A handler never waits for anything else, since its send does not block.
* `WF(MainStep)`: after the signal `main` waits with a deadline, so one of its steps is
  always possible; the deadline is a timer.
* `WorkerFairness` is assumed only where `EventsLeaveMemory` says so. That
  requests are answered and the shutdown ends is shown without it, since a worker may hang
  in a call as long as its context is not cancelled.
* Nothing obliges the signal, the administrator, the clients or a restart.
* `ResultsCache`: time passes, and a request that was begun goes on.
* `ConnectRetry`: `sql.Open` returns, time passes (`Tick`), a sleep ends (`Wake`), a database that is up answers
  (`PingAnswered`), and a context that has expired ends its ping (`TimesOut`). Nothing obliges a ping
  of a database that was down to fail by itself, nor the database to come up. Hence `Returns`
  makes an assumption about `pingRetry`, and none about `NewPostgres`.
* `Transfer`: PostgreSQL answers every statement and breaks every cycle of waits.
  Weak fairness of a call is enough though its locks come and go: a row is
  given back for good when its holder returns, since each call runs once.

### Findings

Where the code does not do what its documentation says:

1. `cache_stale`. `README.md` promises invalidation on new votes. A request that has
   read the tallies stores them after the invalidation, and for up to ten
   seconds others are told that nobody voted. `InvalidationTakesHold` and
   `CountedBecomesVisible` say what holds instead.
2. `polls_dates`. "ends_at must be after starts_at" is checked in another statement
   than the update. `DatesOrderedUnlessRaced` says what holds instead: dates are out of order only
   as long as the last change of them is one that raced, or one with offsets, and then by no more
   than these differ.
3. `transfer_order`. The comment in `go-practice4/main.go` says rows are locked
   in one order. Sorting the two ids decides which parameter each of them is, not which row is locked
   first. PostgreSQL aborts one call, and every call returns all the same.

The models also show, without a run that refutes a document:

* a vote is stored, and answered 204, in a poll that is closed between the reads and the insert,
  though `README.md` says that a poll must be active; `GatedByPoll` says what holds: the
  poll was active, and its window open, at some moment of the request;
* the loser of two registrations of one e-mail is answered 500 where its look-up would have
  answered 400 (`RegisterInsert`);
* the last administrator may deactivate himself, after which there is none for ever
  (`AdminsComeFromAdmins`);
* a vote whose insert was committed but whose reply was lost is never announced, and
  a repetition is answered 409 (`ReplyLost` in `Accounted`);
* an increment whose reply is lost is repeated by the retry (`NeverOvercounts` bounds it by
  the number of attempts);
* events in memory are lost with the process, and nothing recounts them (`dropped` in `Accounted`);
* `pingRetry` waits for ever on a ping that is not answered, since it gives it no context
  (`Returns`);
* every start of go-practice5 inserts the samples once more, though the comment above them
  (`main.go:69`) says they are not duplicated (`InsertSample`); a process that finds the port taken has done so, too;
* a client that sends back the 0 of an empty page begins anew (`Begin`).

## 4. Theorems

All constants are arbitrary: any number of requests, users, polls, options,
workers, clients, any capacity, any number of attempts and restarts. The proofs rest on
the assumptions the modules state for their constants (`PipelineAssumption`,
`CacheAssumption`, `AdminAssumption`, `AccountsAssumption`, `LimiterAssumption`,
`TransferAssumption`, `JobsAssumption`, `ConnectAssumption`), and on nothing else.

| theorem | what it says |
|---|---|
| `TypeCorrect` | `VotePipeline` is well typed; in particular the channel keeps to its capacity and `DoWithRetry` to its attempts |
| `ShutdownCorrect` | `ShutdownIsOrderly`: no handler runs once the channel is closed; a drain that `main` has seen finish leaves nothing in memory |
| `VotingIsIdempotent` | `AcceptedOnceAndKept` |
| `VotesAreGated` | `GatedByPoll` |
| `EventsHeldOnce` | no two of the handlers, the channel and the workers hold the same vote |
| `DeletedPollsLeaveNothing`, `ResultsNeverOvercount` | `DeletedLeavesNothing`, `NeverOvercounts` |
| `VotesAreAccounted`, `DrainsAreExact` | `Accounted`, `ExactWhenDrained` |
| `PipelineImplementsLedger` | where `"after" \notin Faults`, `Spec => Ledger!Spec` |
| `NoEventIsStranded` | while an event is in memory the process lives, and until the pool is cancelled some worker is there to take it |
| `WorkIsBounded` | every step of a handler, a busy worker or `main` brings its answer, the end of its event or its exit nearer |
| `CacheTypeCorrect`, `DeletedPollsAreNotServed`, `ReadsAreNotBehind`, `InvalidationIsEffective` | the safety invariants of `ResultsCache` |
| `StaleEntriesFade` | after a vote is counted, only requests that had read before store results without it; an entry that misses it only ages |
| `AdminTypeCorrect`, `ReadsAreWhole`, `DatesAreOrdered`, `UpdatesAreSeparate` | the invariants of `PollAdmin` and its action property `OnlySentColumnsChange` |
| `AdminImplementsBook` | `Spec => Book!Spec` |
| `AccountsTypeCorrect`, `RegistrationCorrect`, `StandingIsChecked`, `AdminsOnlyFromAdmins` | the invariants and the action property of `Accounts` |
| `LimiterTypeCorrect`, `BucketsAreExclusive`, `LimiterImplementsBuckets`, `RateIsKept` | one bucket for each client; `Spec => Ideal!Spec`; the rate in every window |
| `BalancesStayPositive`, `AnswersAreTrue`, `TransferImplementsBank` | no overdraft; answers are true; `Spec => Bank!Spec` |
| `MoneyStays` | `MoneyConserved`: the sum of the balances changes only by the half cents that both rows round up |
| `WholeCentsStay` | where every amount is in whole cents, the sum of the balances never changes |
| `SomebodyProceeds`, `EveryStepCounts` | while a transfer is under way one of them can take a step; every step is one of at most seven and takes nobody else back |
| `ReturnsInTime`, `NeitherGivesUpEarly` | the invariants of `ConnectRetry`, for all deadlines, timeouts, pauses and numbers of attempts |
| `LoopsGoOn`, `NewPostgresRunsDown` | neither loop is stuck before it returns; `NewPostgres` has a fixed number of steps to take, ticks included |
| `JobsTypeCorrect`, `WalksAreWhole`, `WalksAreSnapshots` | the invariants of `JobsPaging` |

### The arguments

*Shutdown* (`ShutdownInv`). `DrainedIsEmpty` is not inductive: that the channel is empty
when all workers have stopped needs that a worker stops, short of
cancellation, only at an empty closed channel, and that nobody sends after the
closing, which is `NoSendAfterClose`.

*Idempotence* (`AcceptedInv`). The property speaks of answered requests; it is
strengthened to requests that are past their insert. From the insert on, two
requests of one user are told apart by the unique key, whether or not they were answered yet.

*Gate* (`GateInv`). What holds of the poll of a request now is among what was seen while the
request ran; so what a read finds was seen, and what was seen is not forgotten before the answer.

*Counting* (`LedgerInv`, `HeldInv`, `FreshInv`). `agg` is the number of attempts in
the history (`Tallied`), and what remains is to bound that number. An event
has one holder at a time (`HeldInv`), an event nobody has taken is not counted, and one that a
worker holds is counted only by attempts the worker has made (`FreshInv`), so each
increment is new to the history. Pairs of a vote and an attempt are `MaxAttempts` for
each vote; the cardinalities are compared by an injection. Where no reply is lost a vote
is counted by at most one attempt (`OnceInv`). The exception is a cancelled context, which may
fail a call after its effect whatever `Faults` says; it is also the
last thing a worker does with an event, so no attempt follows it.

*Accounting* (`TracedInv`). Stronger than `Accounted` where no reply is lost: an answer
"error" then explains nothing. Each action that takes a vote out of memory counts it, logs it or
ends the process, and a process that has ended has nothing in memory. A drained one has not either
(`DrainedIsEmpty`), so where nothing was logged or dropped every vote is counted; it is counted once
(`OnceInv`), and injections both ways make the two numbers equal.

*Refinement.* Each action of the pipeline is a `Cast`, a `Count`, a `Remove` or a
stutter of the ledger; that an increment is a `Count` needs that its vote
is stored (`HeldInv`) and not yet counted (`FreshInv`, `OnceInv`).

*Progress of the pipeline* (`ShutdownInv`, `TypeOK`). Workers leave on a closed channel or on a
cancelled context. The first happens only at an empty channel, after the last handler; the second
ends with the process. So an event is never left behind by the last worker. `Effort` counts the calls
and pauses that are left of `DoWithRetry`, `StepsToAnswer` and `StepsToExit` the lines
that are left of a handler and of `main`; all of them only fall.

*Cache* (`IInv`). What was counted or stored when a request began is so still, unless its
poll was deleted (`BeganInv`); ballots that were not yet inserted are in nobody's view
(`NewInv`), so what is gone does not come back. A request that got as far as `CountByPoll`
began when nothing was counted that is there now (`ReadInv`). An entry is younger than every
invalidation of its poll (`FillInv`). What a request reads of a poll with counted votes shows all of them,
because the second look, at the votes themselves, is a look at a larger set; so the requests that can
still store results without a counted vote (`Late`) get no more. Each that stores leaves them.

*Polls* (`IInv` of `PollAdminProofs`). The id of an open transaction belongs to it alone and has
no row until its commit, which needs all its options (`BirthInv`). A poll that a reader
found does not turn into another one, because ids are given out once (`ReaderInv`). A request at
its `UPDATE` has compared the dates it leads to with the row it has read (`CheckedInv`); so dates
out of order need another write in between, or an offset. A column reads like the instant it was
given, off by the offset of its zone (`Reads`), so that dates in order are put out of it by the
difference of two offsets (`ReadsOrder`); and a change that raced with none, in UTC, leaves the
dates that its check compared, whatever they were before (`WriteKeepsOrder`). With `BirthInv` and `ReaderInv`, each action that
answers is a step of `PollBook`, and each that goes on leaves poll and answers alone.

*Accounts.* Each property is inductive together with the types, which say that a
token names a row. The email of a new row was free in the step that inserts it, and no
later step touches e-mails or passwords. Only `Authorize` takes a request to its statement
(`OneMoves`), and whoever passes it is entitled right then (`AuthorizeEntitles`).

*Rate limiter* (`Inv`, `Earned`). A handler that holds a bucket got it no longer ago than its
entry is old (`Young`), so a bucket is taken from only while its entry is young; what it
lacks after that it regains tick by tick, within the age of the entry (`Refilled`). An entry that may
be dropped therefore stands for a full bucket (`DroppedIsFull`), the same that the client
gets when it comes back, and is in no handler's hands. Hence each step is one of `TokenBucket`, and what passed
in a window was paid from what the bucket held and gained (`Earned`).

*Transfers* (`Inv`). Past its `SELECT` a call holds both rows (`Locked`), so nobody
else writes them, and the balance it read is still the balance of the sender
(`Checked`). Its `Commit` is therefore a `Move` of the bank with enough money.

*Money* (`MoneyInv`). `Sum` is a fold over a set of accounts, that is, a recursive function on
the subsets of `Accounts`. What a fold computes is usually proved by induction on the set, which would need
a theorem with an operator as parameter. It is proved here by contradiction: a
least set among those where the claim fails exists, because strict inclusion of finite sets
is well founded, and it cannot be least (`AddsUpOnce`, `SumExists`, `SumWithout`, `SumOfEqual`). From this `SumAfterMove`
says what a transfer does to the sum. That rounding creates a whole cent and never more needs
that all balances are even in halves of a cent, as the column stores them.

*Standstill* (`NobodyStandsStill`). A call that cannot proceed waits for a row that another call holds, which cannot proceed
either, so it waits too and, holding one of its two rows, for a single other one. Holders are finitely many; a least set of them in which everybody waits for
another member is one in which everybody is waited for too (`FiniteCycle`), which is what the deadlock detector
looks for. `ToGo` is the number of steps a call has left: statements, and rows to lock.

*Waiting for the database* (`DeadlineInv`, `PausesInv`, `UpInv`). Past the deadline `NewPostgres` only
ends the sleep it is in and makes one more ping, so `elapsed` is bounded by where in the loop it
is; `pingRetry` has made a pause before each attempt but the first. A database that was down at some moment
of a ping has been up for at most the time the ping takes so far. A ping of a database that is down is `disturbed`
(`DownInv`), so the clock may run on it up to its timeout; `StepsLeft` weighs a tick with three, which pays for
going to sleep and waking up.

*Pages* (`Walk`). Rows are added and never change, so the order among known rows is fixed; all a
client was shown comes before its cursor and all it is owed behind it. A new row is behind a
cursor only if the clock stands before the time of an older row, and then it is `late`.

### Model-checked only

* Liveness: `EveryRequestAnswered`, `EventsLeaveMemory`, `ShutdownEnds`,
  `CountedBecomesVisible`, `EveryCallReturns`, `Returns`. Fairness is a statement about
  `ENABLED`, which this prover does not reason about.
  The facts those proofs would put together with fairness are theorems: somebody can go on
  (`NoEventIsStranded`, `SomebodyProceeds`, `LoopsGoOn`), and what is left to do gets
  less (`WorkIsBounded`, `StaleEntriesFade`, `EveryStepCounts`, `NewPostgresRunsDown`). The
  temporal step from there is TLC's.

Every safety invariant, action property and refinement that a passing run checks is a theorem.
No module declares a RECURSIVE operator.

## 5. Not modelled

* Configuration, metrics, logging, routing, CORS, the mapping of errors to JSON: no state of their
  own. What errors are mapped to appears as the answers of the handlers.
* `docs/docs.go` is generated.
* bcrypt, and how tokens are signed and parsed: library code. That a token is ours or
  is refused is what `Accounts` takes from it.
* `GET /users/me/votes`, `List`, `TotalVotes`; `InsertUser` and the reads of go-practice4: single statements.
* Down migrations and seeds.
* `go-practice3` (three tables and a program that prints a line) and `practice2` (handlers without state).

## 6. Plan

Done, in this order: `VotePipeline`, `VoteLedger` and their proofs; `ResultsCache`
and its proofs; `Transfer`, `Bank` and their proofs; `PollAdmin`; `Accounts` and its
proofs; `JobsPaging`, `RateLimiter` and `TokenBucket` with their proofs;
`ConnectRetry`; the proofs of `GatedByPoll`, `Accounted`, `ExactWhenDrained` and of
`PollAdmin`; `PollBook` and the refinement; the proofs of `ConnectRetry`, of the conservation of money,
and of what the liveness properties need beside fairness.

Left: how much the two tables that are cleaned up late or never can hold (buckets, entries of
the cache), which depends on how many clients and polls there are; a proof that a limiter without
idle time lets a client have its rate in the long run, beside the bound from above that `RateIsKept` is.
