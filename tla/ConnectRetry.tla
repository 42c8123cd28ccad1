---------------------------- MODULE ConnectRetry ----------------------------
(***************************************************************************)
(* Waiting for PostgreSQL to come up: database.NewPostgres of the polling  *)
(* system pings with a timeout until a deadline has passed, pingRetry of   *)
(* go-practice4 pings so many times, without a timeout.                    *)
(*                                                                         *)
(* Time is counted in ticks, of half a second in the code's numbers, and   *)
(* passes only inside a ping and a sleep.  A database that is up for the   *)
(* whole of a ping answers it at once; one that was down for a moment of   *)
(* it may answer late, refuse, or leave it hanging.                        *)
(***************************************************************************)
EXTENDS Naturals

CONSTANTS
    Deadline,       \* of NewPostgres: 15 s
    PingTimeout,    \* of its PingContext: 2 s
    Delay,          \* and between two of its pings: 500 ms
    Attempts,       \* of pingRetry: 15
    Pause           \* and between two of them: 1 s

ASSUME ConnectAssumption ==
    /\ {Deadline, PingTimeout, Delay, Pause} \subseteq Nat \ {0}
    /\ Attempts \in Nat \ {0}

VARIABLES
    loop,           \* which of the two functions runs
    pc, age,        \* where it is, and for how long
    attempt,        \* i of pingRetry
    elapsed,        \* since its first ping, up to Forever
    up,             \* the database
    \* history
    disturbed,      \* the database was down at some moment of this ping
    upFor           \* how long it has been up now, up to PingTimeout + 1

vars == <<loop, pc, age, attempt, elapsed, up, disturbed, upFor>>

\* The time by which NewPostgres has returned, and the first tick after that
\* of either loop: clocks stop here.
Latest  == Deadline + Delay + PingTimeout
Forever == Latest + Attempts * Pause + 1

Returned == pc \in {"refused", "connected", "failed"}
SleepOf  == IF loop = "NewPostgres" THEN Delay ELSE Pause
Later(n, top) == IF n < top THEN n + 1 ELSE top

Init ==
    /\ loop \in {"NewPostgres", "pingRetry"}
    /\ pc = "open" /\ age = 0 /\ attempt = 1 /\ elapsed = 0
    /\ up \in BOOLEAN /\ disturbed = FALSE /\ upFor = 0

Return(result) ==
    /\ pc' = result /\ age' = 0
    /\ UNCHANGED <<loop, attempt, elapsed, up, disturbed, upFor>>

\* sql.Open only reads the DSN: it fails on one that is wrong, and the first
\* ping follows at once, without a pause, on one that is not.
Open ==
    /\ pc = "open"
    /\ \/ Return("refused")
       \/ /\ pc' = "ping" /\ disturbed' = ~up
          /\ UNCHANGED <<loop, age, attempt, elapsed, up, upFor>>

PingAnswered == pc = "ping" /\ up /\ Return("connected")

\* Mutant: the last attempt is not made.
GiveUpOneShort ==
    /\ pc = "ping" /\ disturbed
    /\ IF loop = "NewPostgres" THEN elapsed >= Deadline ELSE attempt + 1 >= Attempts
    /\ Return("failed")

\* The deadline is looked at when a ping has failed.  At the very tick of it
\* the clock may stand on either side.
GiveUp ==
    /\ pc = "ping" /\ disturbed
    /\ IF loop = "NewPostgres" THEN elapsed >= Deadline ELSE attempt = Attempts
    /\ Return("failed")

\* Mutant: it sleeps once more after the deadline.
SleepNoDeadline ==
    /\ pc = "ping" /\ disturbed
    /\ loop = "NewPostgres" \/ attempt < Attempts
    /\ pc' = "sleep" /\ age' = 0
    /\ UNCHANGED <<loop, attempt, elapsed, up, disturbed, upFor>>

Sleep ==
    /\ pc = "ping" /\ disturbed
    /\ IF loop = "NewPostgres" THEN elapsed <= Deadline ELSE attempt < Attempts
    /\ pc' = "sleep" /\ age' = 0
    /\ UNCHANGED <<loop, attempt, elapsed, up, disturbed, upFor>>

Wake ==
    /\ pc = "sleep" /\ age = SleepOf
    /\ pc' = "ping" /\ age' = 0
    /\ attempt' = IF loop = "pingRetry" THEN attempt + 1 ELSE attempt
    /\ disturbed' = ~up
    /\ UNCHANGED <<loop, elapsed, up, upFor>>

\* Mutant: the ping has no timeout in either loop.
TickWhateverAge ==
    /\ (pc = "sleep" /\ age < SleepOf) \/ (pc = "ping" /\ disturbed)
    /\ age' = Later(age, PingTimeout + Delay + Pause)
    /\ elapsed' = Later(elapsed, Forever)
    /\ upFor' = IF up THEN Later(upFor, PingTimeout + 1) ELSE 0
    /\ UNCHANGED <<loop, pc, attempt, up, disturbed>>

Tick ==
    /\ \/ pc = "sleep" /\ age < SleepOf
       \/ pc = "ping" /\ disturbed /\ (loop = "NewPostgres" => age < PingTimeout)
    /\ age' = Later(age, PingTimeout + Delay + Pause)
    /\ elapsed' = Later(elapsed, Forever)
    /\ upFor' = IF up THEN Later(upFor, PingTimeout + 1) ELSE 0
    /\ UNCHANGED <<loop, pc, attempt, up, disturbed>>

\* The container starts, or the server stops answering.
Toggle ==
    /\ ~Returned
    /\ up' = ~up /\ upFor' = 0
    /\ disturbed' = (pc # "open" /\ (disturbed \/ up))
    /\ UNCHANGED <<loop, pc, age, attempt, elapsed>>

\* The context of the ping expires, and the ping fails.
TimesOut == loop = "NewPostgres" /\ age = PingTimeout /\ (GiveUp \/ Sleep)

Next == Open \/ PingAnswered \/ GiveUp \/ Sleep \/ Wake \/ Tick \/ Toggle

\* sql.Open returns, time passes, a database that is up answers, and a timeout
\* takes effect.
\* Nothing else ends a ping.
Spec == /\ Init /\ [][Next]_vars
        /\ WF_vars(Open) /\ WF_vars(Tick) /\ WF_vars(Wake)
        /\ WF_vars(PingAnswered) /\ WF_vars(TimesOut)
-----------------------------------------------------------------------------
(* Properties.                                                             *)

\* NewPostgres returns within its deadline, one sleep and one ping: 17.5 s.
TypeOK ==
    /\ loop \in {"NewPostgres", "pingRetry"}
    /\ pc \in {"open", "ping", "sleep", "refused", "connected", "failed"}
    /\ age \in 0..(PingTimeout + Delay + Pause)
    /\ attempt \in 1..Attempts
    /\ elapsed \in 0..Forever /\ (loop = "NewPostgres" => elapsed <= Latest)
    /\ up \in BOOLEAN /\ disturbed \in BOOLEAN
    /\ upFor \in 0..(PingTimeout + 1)

\* Neither loop gives up early, on a database that keeps going up and down
\* either: it has had the deadline, or all the pauses, to come up; and when
\* NewPostgres gives up, the database was down within the last PingTimeout.
UpIsNotMissed ==
    pc = "failed" =>
        IF loop = "NewPostgres" THEN elapsed >= Deadline /\ upFor <= PingTimeout
        ELSE elapsed >= (Attempts - 1) * Pause

\* NewPostgres returns even if no ping is ever answered; pingRetry, only if
\* every ping comes to an end.
Returns == loop = "NewPostgres" \/ []<>(pc # "ping") => <>Returned
=============================================================================
