------------------------------ MODULE EventLog ------------------------------
(***************************************************************************)
(* The rows of one run in the tenant's events table and the three kinds of *)
(* process that write them:                                                *)
(*   hub tasks      - anything in agent-hub that awaits persistAndPublish  *)
(*                    (an HTTP handler, a round-table, an agent callback); *)
(*                    numbers come from the in-memory SequenceCounter;     *)
(*   queue writers  - POST /api/runs/[id]/messages while a round is in     *)
(*                    flight: SELECT MAX + 1, insert, one retry;           *)
(*   watchers       - the idle-timeout worker's publishStateTransition:    *)
(*                    SELECT MAX + 1, insert, publish.                     *)
(* Every await is a step boundary.  A statement may fail before or after   *)
(* it took effect, and each process may crash between two steps.           *)
(***************************************************************************)
EXTENDS Integers, FiniteSets, Sequences

CONSTANTS
    HubTasks, QueueWriters, Watchers,
    NoSeq,          \* the counter Map has no entry for the run
    MaxOps          \* bound: how many events each process submits

Procs == HubTasks \cup QueueWriters \cup Watchers

ASSUME ProcsAssumption ==
    /\ HubTasks \cap QueueWriters = {}
    /\ HubTasks \cap Watchers = {}
    /\ QueueWriters \cap Watchers = {}
ASSUME NoSeqAssumption == NoSeq \notin Nat
ASSUME MaxOpsAssumption == MaxOps \in [Procs -> Nat]

VARIABLES
    rows,           \* events table: set of [seq, ev]
    counter,        \* SequenceCounter.counters.get(runId), or NoSeq
    pc,             \* where each process is in its current submission
    num,            \* the number each process has read or reserved
    tries,          \* failed attempts of the current queue insert
    ops,            \* submissions begun by each process
    channel,        \* messages published on the run's Redis channel
    acked,          \* history: events whose submitter saw success
    collided,       \* history: [seq, ev] of hub inserts the index refused
    overlap         \* history: a seed failed or ran beside another hub task

program == <<rows, counter, pc, num, tries, ops, channel>>
vars == <<rows, counter, pc, num, tries, ops, channel, acked, collided, overlap>>

Events == Procs \X Nat

\* The event a process is submitting and the row it would become.
Ev(p) == <<p, ops[p]>>
Row(p) == [seq |-> num[p], ev |-> Ev(p)]

Seqs == {r.seq : r \in rows}

\* COALESCE(MAX(sequence_number), 0)
IsMaxSeq(m) == /\ \A s \in Seqs : s <= m
               /\ m = 0 \/ m \in Seqs

\* A hub task between reading the counter and the end of its insert.
InFlight(t) == pc[t] \in {"cold", "seed", "insert"}

TypeOK ==
    /\ rows \subseteq [seq : Nat, ev : Events]
    /\ counter \in Nat \cup {NoSeq}
    /\ pc \in [Procs -> {"idle", "cold", "seed", "insert", "retry", "publish"}]
    /\ num \in [Procs -> Nat]
    /\ tries \in [QueueWriters -> 0..1]
    /\ ops \in [Procs -> Nat]
    /\ \A p \in Procs : ops[p] <= MaxOps[p]
    /\ channel \in Seq([seq : Nat, ev : Events])
    /\ acked \subseteq Events
    /\ collided \subseteq [seq : Nat, ev : Events]
    /\ overlap \in BOOLEAN

Init ==
    /\ rows = {}
    /\ counter = NoSeq
    /\ pc = [p \in Procs |-> "idle"]
    /\ num = [p \in Procs |-> 0]
    /\ tries = [w \in QueueWriters |-> 0]
    /\ ops = [p \in Procs |-> 0]
    /\ channel = << >>
    /\ acked = {}
    /\ collided = {}
    /\ overlap = FALSE

-----------------------------------------------------------------------------
(* Pieces shared by the writers.                                           *)

\* The submission is over, its local variables are gone.
Done(p) == /\ pc' = [pc EXCEPT ![p] = "idle"]
           /\ num' = [num EXCEPT ![p] = 0]

Begin(p) == /\ pc[p] = "idle"
            /\ ops[p] < MaxOps[p]
            /\ ops' = [ops EXCEPT ![p] = @ + 1]

\* INSERT INTO events, accepted by events_run_seq_idx.
Stored(p) == /\ num[p] \notin Seqs
             /\ rows' = rows \cup {Row(p)}

\* INSERT that throws: refused by the index, or a database error before or
\* after the row was written.
StoreThrows(p) == \/ UNCHANGED rows
                  \/ Stored(p)

\* redis.publish resolves: the message is on the channel.
Published(p) == channel' = Append(channel, Row(p))

-----------------------------------------------------------------------------
(* Hub: EventStore.persist = SequenceCounter.next ; INSERT, then publish.  *)

\* Variant: the set is forgotten, the cached value never advances.
NextWarmNoSet(t) ==
    /\ Begin(t)
    /\ counter # NoSeq
    /\ num' = [num EXCEPT ![t] = counter + 1]
    /\ pc' = [pc EXCEPT ![t] = "insert"]
    /\ UNCHANGED <<rows, counter, tries, channel, acked, collided, overlap>>

\* next() with a cached counter: no await between the get and the set.
NextWarm(t) ==
    /\ Begin(t)
    /\ counter # NoSeq
    /\ counter' = counter + 1
    /\ num' = [num EXCEPT ![t] = counter + 1]
    /\ pc' = [pc EXCEPT ![t] = "insert"]
    /\ UNCHANGED <<rows, tries, channel, acked, collided, overlap>>

\* next() finds no cached counter and issues the MAX query.
NextCold(t) ==
    /\ Begin(t)
    /\ counter = NoSeq
    /\ pc' = [pc EXCEPT ![t] = "cold"]
    /\ overlap' = (overlap \/ \E u \in HubTasks : InFlight(u))
    /\ UNCHANGED <<rows, counter, num, tries, channel, acked, collided>>

\* Variant: no recovery from the database, a restarted hub counts from 0.
SeedReadFromZero(t) ==
    /\ pc[t] = "cold"
    /\ num' = [num EXCEPT ![t] = 0]
    /\ pc' = [pc EXCEPT ![t] = "seed"]
    /\ UNCHANGED <<rows, counter, tries, ops, channel, acked, collided, overlap>>

\* The query returns; an error is caught and read as 0.
SeedRead(t) ==
    /\ pc[t] = "cold"
    /\ \E m \in {0} \cup Seqs :
          /\ m = 0 \/ IsMaxSeq(m)
          /\ num' = [num EXCEPT ![t] = m]
          /\ overlap' = (overlap \/ ~IsMaxSeq(m))
    /\ pc' = [pc EXCEPT ![t] = "seed"]
    /\ UNCHANGED <<rows, counter, tries, ops, channel, acked, collided>>

\* The continuation stores current + 1, whatever the Map holds by now.
SeedSet(t) ==
    /\ pc[t] = "seed"
    /\ counter' = num[t] + 1
    /\ num' = [num EXCEPT ![t] = @ + 1]
    /\ pc' = [pc EXCEPT ![t] = "insert"]
    /\ UNCHANGED <<rows, tries, ops, channel, acked, collided, overlap>>

HubInsert(t) ==
    /\ pc[t] = "insert"
    /\ Stored(t)
    /\ pc' = [pc EXCEPT ![t] = "publish"]
    /\ UNCHANGED <<counter, num, tries, ops, channel, acked, collided, overlap>>

\* Variants: persist tries again with a new number; persist gives the number
\* back; persist swallows the error and the event is published.
HubInsertRetries(t) ==
    /\ pc[t] = "insert"
    /\ StoreThrows(t)
    /\ counter # NoSeq
    /\ counter' = counter + 1
    /\ num' = [num EXCEPT ![t] = counter + 1]
    /\ UNCHANGED <<pc, tries, ops, channel, acked, collided, overlap>>

HubInsertRollsBack(t) ==
    /\ pc[t] = "insert"
    /\ StoreThrows(t)
    /\ collided' = IF num[t] \in Seqs THEN collided \cup {Row(t)} ELSE collided
    /\ counter' = IF counter = num[t] THEN counter - 1 ELSE counter
    /\ Done(t)
    /\ UNCHANGED <<tries, ops, channel, acked, overlap>>

HubInsertSwallows(t) ==
    /\ pc[t] = "insert"
    /\ StoreThrows(t)
    /\ pc' = [pc EXCEPT ![t] = "publish"]
    /\ UNCHANGED <<counter, num, tries, ops, channel, acked, collided, overlap>>

\* persist rethrows: the event is not published, its number is spent.
HubInsertThrows(t) ==
    /\ pc[t] = "insert"
    /\ StoreThrows(t)
    /\ collided' = IF num[t] \in Seqs THEN collided \cup {Row(t)} ELSE collided
    /\ Done(t)
    /\ UNCHANGED <<counter, tries, ops, channel, acked, overlap>>

HubPublish(t) ==
    /\ pc[t] = "publish"
    /\ Published(t)
    /\ acked' = acked \cup {Ev(t)}
    /\ Done(t)
    /\ UNCHANGED <<rows, counter, tries, ops, collided, overlap>>

\* Redis unavailable: the caller sees a failure although the row is there.
HubPublishThrows(t) ==
    /\ pc[t] = "publish"
    /\ Done(t)
    /\ UNCHANGED <<rows, counter, tries, ops, channel, acked, collided, overlap>>

\* A stop request (of this run, or of another while this one is the active
\* run) drops the cached counter; persists in flight go on.
ClearActiveRun ==
    /\ counter # NoSeq
    /\ counter' = NoSeq
    /\ UNCHANGED <<rows, pc, num, tries, ops, channel, acked, collided, overlap>>

\* The hub process restarts: the Map and every task in flight are gone.
HubRestart ==
    /\ counter' = NoSeq
    /\ pc' = [p \in Procs |-> IF p \in HubTasks THEN "idle" ELSE pc[p]]
    /\ num' = [p \in Procs |-> IF p \in HubTasks THEN 0 ELSE num[p]]
    /\ UNCHANGED <<rows, tries, ops, channel, acked, collided, overlap>>

HubStep(t) == \/ NextWarm(t) \/ NextCold(t) \/ SeedRead(t) \/ SeedSet(t)
              \/ HubInsert(t) \/ HubInsertThrows(t)
              \/ HubPublish(t) \/ HubPublishThrows(t)

-----------------------------------------------------------------------------
(* Web: the queue branch of POST /api/runs/[id]/messages.                  *)

\* nextSeq(): SELECT COALESCE(MAX(sequence_number), 0) + 1.
ReadsMaxPlusOne(p) == \E m \in {0} \cup Seqs :
                         /\ IsMaxSeq(m)
                         /\ num' = [num EXCEPT ![p] = m + 1]

QueueRead(w) ==
    /\ Begin(w)
    /\ ReadsMaxPlusOne(w)
    /\ pc' = [pc EXCEPT ![w] = "insert"]
    /\ UNCHANGED <<rows, counter, tries, channel, acked, collided, overlap>>

QueueRetry(w) ==
    /\ pc[w] = "retry"
    /\ ReadsMaxPlusOne(w)
    /\ pc' = [pc EXCEPT ![w] = "insert"]
    /\ UNCHANGED <<rows, counter, tries, ops, channel, acked, collided, overlap>>

\* 200 {queued: true}: stored, not published, the hub not told.
QueueInsert(w) ==
    /\ pc[w] = "insert"
    /\ Stored(w)
    /\ acked' = acked \cup {Ev(w)}
    /\ Done(w)
    /\ tries' = [tries EXCEPT ![w] = 0]
    /\ UNCHANGED <<counter, ops, channel, collided, overlap>>

\* First failure: try once more.  Second: 500.
QueueInsertThrows(w) ==
    /\ pc[w] = "insert"
    /\ StoreThrows(w)
    /\ \/ /\ tries[w] = 0
          /\ tries' = [tries EXCEPT ![w] = 1]
          /\ pc' = [pc EXCEPT ![w] = "retry"]
          /\ UNCHANGED num
       \/ /\ tries[w] = 1
          /\ tries' = [tries EXCEPT ![w] = 0]
          /\ Done(w)
    /\ UNCHANGED <<counter, ops, channel, acked, collided, overlap>>

QueueStep(w) == \/ QueueRead(w) \/ QueueRetry(w)
                \/ QueueInsert(w) \/ QueueInsertThrows(w)

-----------------------------------------------------------------------------
(* Worker: publishStateTransition.                                         *)

WatcherRead(w) ==
    /\ Begin(w)
    /\ ReadsMaxPlusOne(w)
    /\ pc' = [pc EXCEPT ![w] = "insert"]
    /\ UNCHANGED <<rows, counter, tries, channel, acked, collided, overlap>>

WatcherInsert(w) ==
    /\ pc[w] = "insert"
    /\ Stored(w)
    /\ pc' = [pc EXCEPT ![w] = "publish"]
    /\ UNCHANGED <<counter, num, tries, ops, channel, acked, collided, overlap>>

WatcherPublish(w) ==
    /\ pc[w] = "publish"
    /\ Published(w)
    /\ acked' = acked \cup {Ev(w)}
    /\ Done(w)
    /\ UNCHANGED <<rows, counter, tries, ops, collided, overlap>>

\* processIdleTimeout logs whatever publishStateTransition throws.
WatcherThrows(w) ==
    /\ \/ pc[w] = "insert" /\ StoreThrows(w)
       \/ pc[w] = "publish" /\ UNCHANGED rows
    /\ Done(w)
    /\ UNCHANGED <<counter, tries, ops, channel, acked, collided, overlap>>

WatcherStep(w) == \/ WatcherRead(w) \/ WatcherInsert(w)
                  \/ WatcherPublish(w) \/ WatcherThrows(w)

-----------------------------------------------------------------------------

\* A web or worker process dies between two steps.
WriterCrash(w) ==
    /\ pc[w] # "idle"
    /\ Done(w)
    /\ tries' = [v \in QueueWriters |-> IF v = w THEN 0 ELSE tries[v]]
    /\ UNCHANGED <<rows, counter, ops, channel, acked, collided, overlap>>

Next == \/ \E t \in HubTasks : HubStep(t)
        \/ \E w \in QueueWriters : QueueStep(w)
        \/ \E w \in Watchers : WatcherStep(w)
        \/ \E w \in QueueWriters \cup Watchers : WriterCrash(w)
        \/ ClearActiveRun
        \/ HubRestart

Spec == Init /\ [][Next]_vars

-----------------------------------------------------------------------------
(* Properties                                                              *)

IsHub(r) == r.ev[1] \in HubTasks

\* An event has at most one row for each try of its submitter, whichever
\* statement failed and whichever process died.  The hub and the watcher try
\* once.  The queue branch tries again without knowing what became of the first
\* insert, so its message may be stored twice, the second row after the first;
\* it is never stored a third time.
RowPerTry ==
    \A r, s \in rows : r.ev = s.ev /\ r # s =>
        /\ r.ev[1] \in QueueWriters
        /\ \A t \in rows : t.ev = r.ev => t \in {r, s}

\* While every seed of the counter ran alone and succeeded, the index refuses
\* a hub event only because a writer outside the hub took that very number:
\* hub tasks never take numbers from one another, however their persists
\* interleave with each other, with stop requests and with restarts.
CollisionHasForeignCause ==
    ~overlap => \A c \in collided :
                   \E r \in rows : r.seq = c.seq /\ ~IsHub(r)

\* Under the same condition one foreign row costs the hub at most one event:
\* no number is refused twice.
OneLossPerForeignRow ==
    ~overlap => \A c, d \in collided : c.seq = d.seq => c = d

\* Under the same condition a task's events are numbered in the order it
\* persisted them, foreign rows or not: replay shows its turns in order.
TaskOrderKept ==
    ~overlap => \A r, s \in rows :
        IsHub(r) /\ r.ev[1] = s.ev[1] /\ r.ev[2] < s.ev[2] => r.seq < s.seq

\* The run's rows, its Redis channel and the acknowledgements implement the
\* append-only log: rows are never rewritten or renumbered, nothing is
\* published that is not stored (D-08), nothing is published twice, and an
\* acknowledged event is in the table.
Log == INSTANCE AppendOnlyLog WITH log <- rows, feed <- channel
ImplementsLog == Log!Spec
=============================================================================
