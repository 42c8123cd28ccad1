----------------------------- MODULE JobsPaging -----------------------------
(***************************************************************************)
(* The paged list of jobs of go-practice5 (main.go): every start of the    *)
(* program inserts the samples into the same SQLite file, one statement    *)
(* each, and then serves GET /jobs unless another process holds the port.  *)
(* Clients page through the rows by created_at and id, both descending,    *)
(* and name the last id of a page to get the next one, while another start *)
(* may be inserting and the wall clock may be set back.                    *)
(*                                                                         *)
(* A request is one SELECT and leaves nothing behind on the server, so one *)
(* that fails, or whose answer is lost, is one that was never made.        *)
(***************************************************************************)
EXTENDS Naturals, Sequences, FiniteSets

CONSTANTS
    Starts,         \* bound: the starts of the program
    Clients,
    Samples,        \* the companies of the samples, in the order of their inserts
    Times,          \* the seconds that datetime('now') may read
    Limits,         \* values of ?limit=, 0 where it is missing or of no use
    DefaultLimit, MaxLimit,     \* 10 and 100 in the code
    Anywhere        \* no ?company=

ASSUME JobsAssumption ==
    /\ Samples = [i \in 1..Len(Samples) |-> Samples[i]] /\ Len(Samples) \in Nat
    /\ Times \subseteq Nat /\ Limits \subseteq Nat
    /\ DefaultLimit \in Nat \ {0} /\ MaxLimit \in Nat \ {0}

VARIABLES
    jobs,           \* the rows of jobs, at the place of their id
    now,            \* the wall clock
    boot, next,     \* per start: where its process is, and the sample it inserts next
    company, after, \* per client: its filter, and next_after_id of the last answer
    page,           \* the ids of the last answer
    \* history
    shown,          \* the ids of the answers before it, since the client began
    began,          \* the ids that were there to be shown when it began
    late            \* ids inserted with an earlier time than a row before them

server == <<jobs, now, boot, next, late>>
client == <<company, after, page, shown, began>>
vars == <<server, client>>

Companies == {Samples[i] : i \in 1..Len(Samples)}
Row == [sample : 1..Len(Samples), at : Times]
Ids == 1..Len(jobs)

\* Mutant: the oldest row comes first.
PrecedesAscending(i, j) == jobs[i].at < jobs[j].at \/ (jobs[i].at = jobs[j].at /\ i < j)

\* ORDER BY created_at DESC, id DESC
Precedes(i, j) == jobs[i].at > jobs[j].at \/ (jobs[i].at = jobs[j].at /\ i > j)

Init ==
    /\ jobs = <<>> /\ late = {}
    /\ now \in Times
    /\ boot = [s \in Starts |-> "insert"]
    /\ next = [s \in Starts |-> 1]
    /\ company = [k \in Clients |-> Anywhere]
    /\ after = [k \in Clients |-> 0]
    /\ page = [k \in Clients |-> {}]
    /\ shown = [k \in Clients |-> {}]
    /\ began = [k \in Clients |-> {}]
-----------------------------------------------------------------------------
(* func main and insertSamples.                                            *)

\* Each insert commits on its own; one that fails is logged and passed over.
InsertSample(s) ==
    /\ boot[s] = "insert" /\ next[s] <= Len(Samples)
    /\ next' = [next EXCEPT ![s] = @ + 1]
    /\ \/ /\ jobs' = Append(jobs, [sample |-> next[s], at |-> now])
          /\ late' = IF \E i \in Ids : jobs[i].at > now THEN late \cup {Len(jobs) + 1}
                                                        ELSE late
       \/ UNCHANGED <<jobs, late>>
    /\ UNCHANGED <<now, boot, client>>

Serving == \E s \in Starts : boot[s] = "serving"

\* Mutant: the port is shared.
ListenShared(s) ==
    /\ boot[s] = "insert" /\ next[s] > Len(Samples)
    /\ boot' = [boot EXCEPT ![s] = "serving"]
    /\ UNCHANGED <<jobs, now, next, late, client>>

\* ListenAndServe: the port is free, or the process exits.
Listen(s) ==
    /\ boot[s] = "insert" /\ next[s] > Len(Samples)
    /\ boot' = [boot EXCEPT ![s] = IF Serving THEN "exited" ELSE "serving"]
    /\ UNCHANGED <<jobs, now, next, late, client>>

Kill(s) ==
    /\ boot[s] # "exited"
    /\ boot' = [boot EXCEPT ![s] = "exited"]
    /\ UNCHANGED <<jobs, now, next, late, client>>

\* Time passes, or the clock is set.
SetClock(t) == now' = t /\ UNCHANGED <<jobs, boot, next, late, client>>
-----------------------------------------------------------------------------
(* GET /jobs: handleJobs.                                                  *)

LimitOf(l) == IF l = 0 THEN DefaultLimit ELSE IF l > MaxLimit THEN MaxLimit ELSE l

\* Mutant: the row of the cursor is compared by its time alone.
MatchingByTime(c, a) ==
    {i \in Ids : /\ c \in {Anywhere, Samples[jobs[i].sample]}
                 /\ a = 0 \/ (a \in Ids /\ jobs[i].at < jobs[a].at)}

\* The rows behind row a that pass filter c.  There is nothing behind an id
\* without a row, and 0 stands for the beginning.
Matching(c, a) ==
    {i \in Ids : /\ c \in {Anywhere, Samples[jobs[i].sample]}
                 /\ a = 0 \/ (a \in Ids /\ Precedes(a, i))}

IsPage(p, rows, n) ==
    IF Cardinality(rows) <= n THEN p = rows
    ELSE Cardinality(p) = n /\ \A i \in p, j \in rows \ p : Precedes(i, j)

\* next_after_id: the row scanned last, 0 where there was none.
IsLast(a, p) ==
    IF p = {} THEN a = 0 ELSE a \in p /\ \A i \in p \ {a} : Precedes(i, a)

Answer(k, c, a, l) ==
    /\ Serving
    /\ \E p \in SUBSET Matching(c, a) :
          /\ IsPage(p, Matching(c, a), LimitOf(l))
          /\ page' = [page EXCEPT ![k] = p]
          /\ \E b \in p \cup {0} : IsLast(b, p) /\ after' = [after EXCEPT ![k] = b]
    /\ company' = [company EXCEPT ![k] = c]
    /\ UNCHANGED server

\* A client begins, at the first row or behind one that it knows of, or makes up.
\* The 0 of an empty page, sent back, begins anew.
Begin(k, c, a, l) ==
    /\ Answer(k, c, a, l)
    /\ shown' = [shown EXCEPT ![k] = {}]
    /\ began' = [began EXCEPT ![k] = Matching(c, a)]

Follow(k, l) ==
    /\ after[k] # 0
    /\ Answer(k, company[k], after[k], l)
    /\ shown' = [shown EXCEPT ![k] = @ \cup page[k]]
    /\ UNCHANGED began
-----------------------------------------------------------------------------
Next ==
    \/ \E s \in Starts : InsertSample(s) \/ Listen(s) \/ Kill(s)
    \/ \E t \in Times : SetClock(t)
    \/ \E k \in Clients, l \in Limits :
          \/ \E c \in Companies \cup {Anywhere}, a \in 0..(Len(jobs) + 1) : Begin(k, c, a, l)
          \/ Follow(k, l)

Spec == Init /\ [][Next]_vars
-----------------------------------------------------------------------------
(* Properties.                                                             *)

\* At most one process serves; what a client was told are ids of rows.
TypeOK ==
    /\ jobs \in Seq(Row) /\ late \subseteq Ids
    /\ now \in Times
    /\ boot \in [Starts -> {"insert", "serving", "exited"}]
    /\ \A s, t \in Starts : boot[s] = "serving" /\ boot[t] = "serving" => s = t
    /\ next \in [Starts -> 1..(Len(Samples) + 1)]
    /\ company \in [Clients -> Companies \cup {Anywhere}]
    /\ after \in [Clients -> Ids \cup {0}]
    /\ page \in [Clients -> SUBSET Ids]
    /\ shown \in [Clients -> SUBSET Ids]
    /\ began \in [Clients -> SUBSET Ids]

\* However many rows share a second or come in meanwhile, wherever the clock
\* stands, and whatever the sizes of its pages: a client that follows
\* next_after_id is shown no row twice and skips none that was there when it
\* began, and it is sent back to the beginning only when it has seen them all.
WalkIsWhole ==
    \A k \in Clients :
        /\ page[k] \cap shown[k] = {}
        /\ \A i \in began[k] \ (shown[k] \cup page[k]) :
              after[k] # 0 /\ Precedes(after[k], i)

\* It is shown only what was there when it began, unless the clock was set back
\* and a new row was sorted in among older ones.
WalkIsSnapshot ==
    \A k \in Clients : shown[k] \cup page[k] \subseteq began[k] \cup late
=============================================================================
