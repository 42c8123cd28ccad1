------------------------- MODULE ConnectRetryProofs -------------------------
(***************************************************************************)
(* Both loops that wait for the database take the time they promise, for   *)
(* every deadline, timeout, pause and number of attempts: NewPostgres no   *)
(* more than its deadline, a sleep and a ping; neither gives up before it  *)
(* has waited as long as it says.                                          *)
(* The last part is about progress: neither loop is ever stuck, and        *)
(* NewPostgres runs down.                                                  *)
(***************************************************************************)
EXTENDS ConnectRetry, TLAPS

\* The clock of NewPostgres: past the deadline it only ends the sleep that it
\* is in and makes one more ping.
DeadlineInv ==
    loop = "NewPostgres" =>
        /\ pc = "sleep" => age <= Delay /\ elapsed <= Deadline + age
        /\ pc = "ping" => age <= PingTimeout /\ elapsed <= Deadline + Delay + age

\* The clock of pingRetry: every attempt but the first has had its pause.
PausesInv ==
    loop = "pingRetry" =>
        /\ pc = "sleep" =>
              age <= Pause /\ attempt < Attempts /\ elapsed >= (attempt - 1) * Pause + age
        /\ pc = "ping" => elapsed >= (attempt - 1) * Pause

\* A database that has been down during a ping has not been up for longer.
UpInv ==
    /\ ~up => upFor = 0
    /\ pc = "ping" /\ disturbed => upFor <= age

\* The clock starts with the first ping.
OpenInv == pc = "open" => age = 0 /\ attempt = 1 /\ elapsed = 0

Inv == TypeOK /\ OpenInv /\ DeadlineInv /\ PausesInv /\ UpInv /\ UpIsNotMissed
-----------------------------------------------------------------------------
LEMMA Constants ==
    /\ Deadline \in Nat /\ PingTimeout \in Nat /\ Delay \in Nat /\ Pause \in Nat
    /\ PingTimeout > 0 /\ Delay > 0 /\ Pause > 0
    /\ Attempts \in Nat /\ Attempts > 0
  BY ConnectAssumption

\* n pauses, as a clock counts them.
LEMMA Pauses ==
    ASSUME NEW n \in Nat, n < Attempts
    PROVE  /\ n * Pause \in Nat /\ (n + 1) * Pause = n * Pause + Pause
           /\ (n + 1) * Pause <= Attempts * Pause /\ Attempts * Pause \in Nat
  <1>1. \A m, p \in Nat : m * p \in Nat /\ (m + 1) * p = m * p + p
    OBVIOUS
  <1>2. PICK k \in Nat : Attempts = (n + 1) + k
    <2>1. Attempts - (n + 1) \in Nat /\ Attempts = (n + 1) + (Attempts - (n + 1))
      BY Constants
    <2> QED BY <2>1
  <1>3. Attempts * Pause = (n + 1) * Pause + k * Pause
    BY <1>2, Constants
  <1> QED BY <1>1, <1>2, <1>3, Constants

LEMMA Horizon == Latest \in Nat /\ Forever \in Nat /\ Latest < Forever
  <1>1. Attempts * Pause \in Nat
    BY Pauses, Constants
  <1> QED BY <1>1, Constants DEF Latest, Forever

LEMMA LaterIs ==
    ASSUME NEW top \in Nat, NEW n \in 0..top
    PROVE  Later(n, top) \in n..top /\ (n < top => Later(n, top) = n + 1) /\ Later(n, top) <= n + 1
  BY DEF Later

LEMMA InvInit == Init => Inv
  <1> SUFFICES ASSUME Init PROVE Inv
    OBVIOUS
  <1>1. TypeOK
    <2>1. up \in BOOLEAN /\ disturbed \in BOOLEAN
      BY DEF Init
    <2> QED BY <2>1, Constants, Horizon DEF Init, TypeOK
  <1>2. OpenInv /\ DeadlineInv /\ PausesInv /\ UpInv /\ UpIsNotMissed
    BY DEF Init, OpenInv, DeadlineInv, PausesInv, UpInv, UpIsNotMissed
  <1> QED BY <1>1, <1>2 DEF Inv

\* Neither clock stops at its bound while the invariant needs it.
LEMMA TickKeeps == ASSUME Inv, Tick PROVE Inv'
  <1> USE Constants, Horizon
  <1> DEFINE top == PingTimeout + Delay + Pause
  <1>1. /\ age' \in age..top /\ (age < top => age' = age + 1)
        /\ elapsed' \in elapsed..Forever /\ elapsed' <= elapsed + 1
        /\ elapsed < Forever => elapsed' = elapsed + 1
        /\ upFor' \in 0..(PingTimeout + 1) /\ upFor' <= upFor + 1 /\ (~up => upFor' = 0)
        /\ UNCHANGED <<loop, pc, attempt, up, disturbed>>
    <2>1. /\ age \in 0..top /\ elapsed \in 0..Forever /\ upFor \in 0..(PingTimeout + 1)
          /\ top \in Nat /\ PingTimeout + 1 \in Nat
      BY DEF Inv, TypeOK
    <2>2. /\ age' = Later(age, top) /\ elapsed' = Later(elapsed, Forever)
          /\ upFor' = IF up THEN Later(upFor, PingTimeout + 1) ELSE 0
          /\ UNCHANGED <<loop, pc, attempt, up, disturbed>>
      BY DEF Tick
    <2> HIDE DEF top
    <2>3. age' \in age..top /\ (age < top => age' = age + 1)
      BY <2>1, <2>2, LaterIs
    <2>4. /\ elapsed' \in elapsed..Forever /\ elapsed' <= elapsed + 1
          /\ elapsed < Forever => elapsed' = elapsed + 1
      BY <2>1, <2>2, LaterIs
    <2>5. upFor' \in 0..(PingTimeout + 1) /\ upFor' <= upFor + 1 /\ (~up => upFor' = 0)
      <3>1. Later(upFor, PingTimeout + 1) \in 0..(PingTimeout + 1)
            /\ Later(upFor, PingTimeout + 1) <= upFor + 1
        BY <2>1, LaterIs
      <3> QED BY <2>1, <2>2, <3>1
    <2> QED BY <2>2, <2>3, <2>4, <2>5
  <1>0. OpenInv'
    BY <1>1 DEF OpenInv, Tick
  <1>2. DeadlineInv'
    BY <1>1 DEF DeadlineInv, Tick, SleepOf, Inv, TypeOK, Latest
  <1>3. PausesInv'
    <2>1. PICK n \in Nat : n = attempt - 1
      BY DEF Inv, TypeOK
    <2>2. /\ loop = "pingRetry" /\ pc = "sleep" =>
                /\ age < Pause /\ n + 1 < Attempts /\ elapsed >= n * Pause + age
          /\ loop = "pingRetry" /\ pc = "ping" => elapsed >= n * Pause
      BY <2>1 DEF PausesInv, Tick, SleepOf, Inv, TypeOK
    <2>3. n * Pause \in Nat
      BY <2>1, Pauses DEF Inv, TypeOK
    <2>4. loop = "pingRetry" /\ pc = "sleep" => n * Pause + age + 1 < Forever
      <3>1. n < Attempts => n * Pause \in Nat /\ n * Pause + Pause <= Attempts * Pause
        BY Pauses
      <3>2. Attempts * Pause \in Nat /\ Attempts * Pause < Forever
        BY Pauses DEF Forever, Latest
      <3>3. age \in Nat
        BY DEF Inv, TypeOK
      <3>4. PICK m \in Nat, k \in Nat : m = n * Pause /\ k = Attempts * Pause
        BY <2>3, <3>2
      <3> QED BY <2>2, <3>1, <3>2, <3>3, <3>4
    <2>5. loop = "pingRetry" /\ pc = "sleep" =>
             age' <= Pause /\ attempt < Attempts /\ elapsed' >= n * Pause + age'
      <3>1. PICK m \in Nat : m = n * Pause
        BY <2>3
      <3>2. age \in Nat /\ elapsed \in 0..Forever /\ age < Pause => age < top
        BY DEF Inv, TypeOK
      <3>3. ASSUME loop = "pingRetry", pc = "sleep" PROVE age' = age + 1 /\ elapsed' >= m + age'
        <4>1. age < Pause /\ elapsed >= m + age /\ m + age + 1 < Forever
          BY <2>2, <2>4, <3>1, <3>3
        <4>2. age' = age + 1
          BY <1>1, <3>2, <4>1 DEF Inv, TypeOK
        <4> QED BY <1>1, <3>2, <4>1, <4>2 DEF Inv, TypeOK
      <3> QED BY <2>1, <2>2, <3>1, <3>3 DEF Inv, TypeOK
    <2>6. loop = "pingRetry" /\ pc = "ping" => elapsed' >= n * Pause
      BY <1>1, <2>2, <2>3 DEF Inv, TypeOK
    <2> QED BY <1>1, <2>1, <2>5, <2>6 DEF PausesInv
  <1>4. UpInv'
    BY <1>1 DEF UpInv, Inv, TypeOK
  <1>5. TypeOK'
    BY <1>1, <1>2 DEF Tick, DeadlineInv, Inv, TypeOK, Latest
  <1> QED BY <1>0, <1>1, <1>2, <1>3, <1>4, <1>5 DEF Inv, UpIsNotMissed, Tick

LEMMA InvStep == Inv /\ [Next]_vars => Inv'
  <1> SUFFICES ASSUME Inv, [Next]_vars PROVE Inv'
    OBVIOUS
  <1> USE Constants, Horizon
  <1>1. CASE UNCHANGED vars
    BY <1>1 DEF vars, Inv, TypeOK, OpenInv, DeadlineInv, PausesInv, UpInv, UpIsNotMissed
  <1>2. CASE PingAnswered
    BY <1>2 DEF PingAnswered, Return, Latest, Inv, TypeOK, OpenInv, DeadlineInv, PausesInv, UpInv,
       UpIsNotMissed
  <1>3. CASE GiveUp
    BY <1>3 DEF GiveUp, Return, Latest, Inv, TypeOK, OpenInv, DeadlineInv, PausesInv, UpInv,
       UpIsNotMissed
  <1>4. CASE Sleep
    BY <1>4 DEF Sleep, Inv, TypeOK, OpenInv, DeadlineInv, PausesInv, UpInv, UpIsNotMissed
  <1>5. CASE Wake
    <2>1. PICK n \in Nat : n = attempt - 1 /\ n + 1 = attempt
      BY DEF Inv, TypeOK
    <2>2. loop = "pingRetry" =>
             attempt < Attempts /\ elapsed >= n * Pause + Pause /\ attempt' = attempt + 1
      BY <1>5, <2>1 DEF Wake, SleepOf, Inv, PausesInv, TypeOK
    <2>3. attempt * Pause = n * Pause + Pause
      BY <2>1, Pauses DEF Inv, TypeOK
    <2>4. PausesInv'
      <3>1. loop = "pingRetry" => elapsed' >= (attempt' - 1) * Pause
        <4>1. loop = "pingRetry" => attempt' - 1 = attempt
          BY <2>1, <2>2
        <4> QED BY <1>5, <2>2, <2>3, <4>1 DEF Wake
      <3> QED BY <1>5, <3>1 DEF Wake, PausesInv
    <2>5. TypeOK'
      BY <1>5, <2>2 DEF Wake, Inv, TypeOK
    <2>6. DeadlineInv' /\ UpIsNotMissed' /\ OpenInv'
      BY <1>5 DEF Wake, SleepOf, OpenInv, Inv, TypeOK, OpenInv, DeadlineInv, UpIsNotMissed
    <2>7. UpInv'
      <3>1. upFor' = upFor /\ upFor \in Nat /\ age' = 0 /\ (~up => upFor = 0)
        BY <1>5 DEF Wake, Inv, TypeOK, UpInv
      <3>2. (disturbed' => ~up) /\ (~up' => ~up)
        BY <1>5 DEF Wake
      <3> QED BY <3>1, <3>2 DEF UpInv
    <2> QED BY <2>4, <2>5, <2>6, <2>7 DEF Inv
  <1>6. CASE Tick
    BY <1>6, TickKeeps
  <1>7. CASE Toggle
    <2>1. up' \in BOOLEAN /\ disturbed' \in BOOLEAN
      BY <1>7 DEF Toggle, Inv, TypeOK
    <2>2. TypeOK'
      BY <1>7, <2>1 DEF Toggle, Inv, TypeOK
    <2>3. UpInv'
      BY <1>7 DEF Toggle, Inv, TypeOK, UpInv
    <2> QED BY <1>7, <2>2, <2>3 DEF Toggle, Returned, Inv, OpenInv, DeadlineInv, PausesInv,
               UpIsNotMissed
  <1>8. CASE Open
    <2>1. up' \in BOOLEAN /\ disturbed' \in BOOLEAN
      BY <1>8 DEF Open, Return, Inv, TypeOK
    <2>2. TypeOK'
      BY <1>8, <2>1 DEF Open, Return, Inv, TypeOK
    <2>3. UpInv'
      <3>1. upFor' = upFor /\ upFor \in Nat /\ age' = 0 /\ (~up => upFor = 0)
        BY <1>8 DEF Open, Return, Inv, TypeOK, OpenInv, UpInv
      <3>2. CASE Return("refused")
        BY <3>1, <3>2 DEF Return, UpInv
      <3>3. CASE disturbed' = ~up /\ UNCHANGED up
        <4>1. ASSUME disturbed' PROVE upFor' <= age'
          <5>1. ~up
            BY <3>3, <4>1, Zenon
          <5> QED BY <3>1, <5>1
        <4>2. ~up' => upFor' = 0
          BY <3>1, <3>3
        <4> QED BY <4>1, <4>2 DEF UpInv
      <3> QED BY <1>8, <3>2, <3>3 DEF Open
    <2>4. OpenInv' /\ DeadlineInv' /\ UpIsNotMissed'
      BY <1>8 DEF Open, Return, Inv, TypeOK, OpenInv, DeadlineInv, UpIsNotMissed
    <2>5. PausesInv'
      BY <1>8 DEF Open, Return, Inv, TypeOK, OpenInv, PausesInv
    <2> QED BY <2>2, <2>3, <2>4, <2>5 DEF Inv
  <1> QED BY <1>1, <1>2, <1>3, <1>4, <1>5, <1>6, <1>7, <1>8 DEF Next

\* Every state has the types TypeOK gives its variables; in particular
\* NewPostgres has returned when its deadline, a sleep and a ping are over.
THEOREM ReturnsInTime == Spec => []TypeOK
  <1>1. Inv => TypeOK
    BY DEF Inv
  <1> QED BY <1>1, InvInit, InvStep, PTL DEF Spec

\* A loop that gives up has waited as long as it should, and NewPostgres has
\* not overlooked a database that was up all through its last ping.
THEOREM NeitherGivesUpEarly == Spec => []UpIsNotMissed
  <1>1. Inv => UpIsNotMissed
    BY DEF Inv
  <1> QED BY <1>1, InvInit, InvStep, PTL DEF Spec
-----------------------------------------------------------------------------
(* What Returns needs beside fairness: a loop that has not returned can    *)
(* always go on, and NewPostgres has only so many steps to take, whatever  *)
(* the database does meanwhile.                                            *)

\* The guards of the actions that Spec is fair to.
CanGoOn ==
    \/ pc = "open"                                             \* Open
    \/ pc = "ping" /\ up                                        \* PingAnswered
    \/ pc = "sleep" /\ age = SleepOf                            \* Wake
    \/ pc = "sleep" /\ age < SleepOf                            \* Tick
    \/ pc = "ping" /\ disturbed /\ (loop = "NewPostgres" => age < PingTimeout)
    \/ loop = "NewPostgres" /\ pc = "ping" /\ disturbed /\ age = PingTimeout  \* TimesOut

\* A ping of a database that is down now has not gone undisturbed.
DownInv == pc = "ping" /\ ~up => disturbed

NeverStuck == DownInv /\ (~Returned => CanGoOn)

LEMMA DownStep == TypeOK /\ DownInv /\ [Next]_vars => DownInv'
  <1> SUFFICES ASSUME TypeOK, DownInv, [Next]_vars, pc' = "ping", ~up' PROVE disturbed'
    BY DEF DownInv
  <1> USE DEF DownInv, TypeOK
  <1>1. CASE PingAnswered \/ GiveUp \/ Sleep
    BY <1>1 DEF PingAnswered, GiveUp, Sleep, Return
  <1>2. CASE Wake
    BY <1>2 DEF Wake
  <1>3. CASE Tick \/ UNCHANGED vars
    BY <1>3 DEF Tick, vars
  <1>4. CASE Toggle
    BY <1>4 DEF Toggle, Returned
  <1>5. CASE Open
    BY <1>5 DEF Open, Return
  <1> QED BY <1>1, <1>2, <1>3, <1>4, <1>5 DEF Next

\* Neither loop can hang in a state of its own making: where no ping and no
\* pause ends by itself, there is a timeout or the clock to end it.
THEOREM LoopsGoOn == Spec => []NeverStuck
  <1>1. Init => DownInv
    BY DEF Init, DownInv
  <1>2. Inv /\ DownInv => NeverStuck
    <2> SUFFICES ASSUME Inv, DownInv, ~Returned PROVE CanGoOn
      BY DEF NeverStuck
    <2>1. CASE pc = "sleep"
      BY <2>1, Constants DEF CanGoOn, SleepOf, Inv, TypeOK, OpenInv, DeadlineInv, PausesInv
    <2>2. CASE pc = "ping" /\ ~up
      BY <2>2, Constants DEF CanGoOn, DownInv, Inv, TypeOK, OpenInv, DeadlineInv
    <2>3. CASE pc = "ping" /\ up
      BY <2>3 DEF CanGoOn
    <2>4. CASE pc = "open"
      BY <2>4 DEF CanGoOn
    <2> QED BY <2>1, <2>2, <2>3, <2>4 DEF Returned, Inv, TypeOK
  <1> QED BY <1>1, <1>2, DownStep, ReturnsInTime, InvInit, InvStep, PTL DEF Spec

\* Ticks until NewPostgres must have returned, and where it stands between two
\* of them.  A sleep lasts a tick at least, so waking up is paid for.
StepsLeft ==
    IF Returned THEN 0
    ELSE 3 * (Latest - elapsed)
         + (IF pc = "ping" THEN 2 ELSE IF pc = "sleep" /\ age = 0 THEN 1 ELSE 3)

RunsDown ==
    [][loop = "NewPostgres" =>
          IF <<pc, age, elapsed>>' = <<pc, age, elapsed>> THEN up' # up
          ELSE StepsLeft' < StepsLeft]_vars

LEMMA StepsLeftType == Inv /\ loop = "NewPostgres" /\ ~Returned => StepsLeft \in Nat \ {0}
  <1> SUFFICES ASSUME Inv, loop = "NewPostgres", ~Returned PROVE StepsLeft \in Nat \ {0}
    OBVIOUS
  <1>1. PICK k \in Nat : k = Latest - elapsed
    BY Horizon DEF Inv, TypeOK
  <1> QED BY <1>1 DEF StepsLeft

\* Every step that NewPostgres takes, a tick of the clock included, uses up one
\* of a number of steps that its deadline, its pause and its timeout fix.  Only
\* the database may do as it pleases.
THEOREM NewPostgresRunsDown == Spec => RunsDown
  <1>1. Inv /\ Inv' /\ [Next]_vars
        => [loop = "NewPostgres" =>
               IF <<pc, age, elapsed>>' = <<pc, age, elapsed>> THEN up' # up
               ELSE StepsLeft' < StepsLeft]_vars
    <2> SUFFICES ASSUME Inv, Inv', Next, loop = "NewPostgres", vars' # vars
                 PROVE  IF <<pc, age, elapsed>>' = <<pc, age, elapsed>> THEN up' # up
                        ELSE StepsLeft' < StepsLeft
      OBVIOUS
    <2>1. CASE PingAnswered \/ GiveUp
      <3>1. StepsLeft' = 0 /\ ~Returned /\ pc' # pc
        BY <2>1 DEF PingAnswered, GiveUp, Return, Returned, StepsLeft
      <3> QED BY <3>1, StepsLeftType
    <2>2. CASE Sleep
      <3>1. PICK k \in Nat : k = Latest - elapsed
        BY Horizon DEF Inv, TypeOK
      <3>2. StepsLeft = 3 * k + 2 /\ StepsLeft' = 3 * k + 1 /\ pc' # pc
        BY <2>2, <3>1 DEF Sleep, Returned, StepsLeft, Latest
      <3> QED BY <3>2
    <2>3. CASE Wake
      <3>1. PICK k \in Nat : k = Latest - elapsed
        BY Horizon DEF Inv, TypeOK
      <3>2. age # 0
        BY <2>3, Constants DEF Wake, SleepOf
      <3>3. StepsLeft = 3 * k + 3 /\ StepsLeft' = 3 * k + 2 /\ pc' # pc
        BY <2>3, <3>1, <3>2 DEF Wake, Returned, StepsLeft, Latest
      <3> QED BY <3>3
    <2>4. CASE Tick
      <3>1. elapsed' = elapsed + 1 /\ elapsed \in Nat /\ elapsed + 1 <= Latest
        <4>1. elapsed \in 0..Latest /\ elapsed' \in 0..Latest
          BY <2>4, Horizon DEF Tick, Inv, TypeOK
        <4>2. elapsed' = elapsed + 1
          <5>1. elapsed < Forever /\ elapsed' = Later(elapsed, Forever)
            BY <2>4, <4>1, Horizon DEF Tick
          <5> QED BY <5>1 DEF Later
        <4> QED BY <4>1, <4>2, Horizon
      <3>2. PICK k \in Nat : k = Latest - elapsed'
        BY <3>1, Horizon
      <3>3. Latest - elapsed = k + 1
        BY <3>1, <3>2, Horizon
      <3>4. StepsLeft' <= 3 * k + 3 /\ (pc = "ping" => StepsLeft' = 3 * k + 2)
        BY <2>4, <3>2 DEF Tick, StepsLeft, Returned, Latest
      <3>5. StepsLeft >= 3 * (k + 1) + 1
        BY <2>4, <3>3 DEF Tick, StepsLeft, Returned
      <3>6. StepsLeft \in Nat /\ StepsLeft' \in Nat
        BY <2>4, <3>2, <3>3 DEF Tick, StepsLeft, Returned, Latest
      <3> QED BY <3>1, <3>4, <3>5, <3>6
    <2>5. CASE Toggle
      BY <2>5 DEF Toggle, Inv, TypeOK
    <2>6. CASE Open
      <3>1. PICK k \in Nat : k = Latest - elapsed
        BY Horizon DEF Inv, TypeOK
      <3>2. StepsLeft = 3 * k + 3 /\ pc' # pc
        BY <2>6, <3>1 DEF Open, Return, Returned, StepsLeft
      <3>3. StepsLeft' \in {0, 3 * k + 2}
        BY <2>6, <3>1 DEF Open, Return, Returned, StepsLeft, Latest
      <3> QED BY <3>2, <3>3
    <2> QED BY <2>1, <2>2, <2>3, <2>4, <2>5, <2>6 DEF Next
  <1> QED BY <1>1, InvInit, InvStep, PTL DEF Spec, RunsDown
=============================================================================
