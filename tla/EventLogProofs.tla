--------------------------- MODULE EventLogProofs ---------------------------
(***************************************************************************)
(* Proofs about EventLog for any number of hub tasks, queue writers and    *)
(* watchers, submitting any number of events.                              *)
(***************************************************************************)
EXTENDS EventLog, TLAPS

\* Which program points each kind of process has.
ProcessPoints ==
    /\ \A t \in HubTasks : pc[t] # "retry"
    /\ \A w \in QueueWriters : pc[w] \in {"idle", "insert", "retry"}
    /\ \A w \in Watchers : pc[w] \in {"idle", "insert", "publish"}

\* The table: numbers identify rows, and a row belongs to a submission begun.
TableInv ==
    /\ \A r, s \in rows : r.seq = s.seq => r = s
    /\ \A r \in rows : r.ev[2] <= ops[r.ev[1]]

\* A hub task or watcher that has not inserted yet has no row.
FreshInv == \A p \in HubTasks \cup Watchers :
               pc[p] \in {"cold", "seed", "insert"} => \A r \in rows : r.ev # Ev(p)

\* A queue writer has no row before its first try and at most one before the
\* second, and its retry is its last.
TryInv == \A w \in QueueWriters :
    /\ pc[w] = "idle" => tries[w] = 0
    /\ pc[w] = "retry" => tries[w] = 1
    /\ pc[w] = "insert" /\ tries[w] = 0 => \A r \in rows : r.ev # Ev(w)
    /\ tries[w] = 1 => \A r, s \in rows : r.ev = Ev(w) /\ s.ev = Ev(w) => r = s

\* One that is about to publish has its row in the table, not on the channel.
PublishInv == \A p \in Procs : pc[p] = "publish" =>
                 /\ Row(p) \in rows
                 /\ \A i \in DOMAIN channel : channel[i] # Row(p)

\* Everything sent live, and everything acknowledged, is in the table.
ChannelInv == \A i \in DOMAIN channel : channel[i] \in rows
AckedInv == \A e \in acked : \E r \in rows : r.ev = e

StoreInv == /\ TypeOK
            /\ ProcessPoints
            /\ TableInv
            /\ FreshInv
            /\ PublishInv
            /\ ChannelInv
            /\ AckedInv
            /\ TryInv
            /\ RowPerTry

-----------------------------------------------------------------------------
(* How the hub's numbers relate as long as every seed was sound.           *)

HubRows == {r \in rows : IsHub(r)}

\* Everything the hub has numbered so far is at most n.
NumberedUpTo(n) == /\ \A r \in HubRows : r.seq <= n
                   /\ \A c \in collided : c.seq <= n

\* A task seeding the counter is the only one in flight.
SeedInv == \A t \in HubTasks : pc[t] \in {"cold", "seed"} =>
              /\ counter = NoSeq
              /\ \A u \in HubTasks : u # t => ~InFlight(u)
              /\ pc[t] = "seed" => NumberedUpTo(num[t])

\* A reserved number was never used by the hub and is nobody else's.
ReservedInv == \A t \in HubTasks : pc[t] = "insert" =>
                  /\ \A r \in HubRows : r.seq # num[t]
                  /\ \A r \in HubRows : r.ev[1] = t => r.seq < num[t]
                  /\ \A c \in collided : c.seq # num[t]
                  /\ \A u \in HubTasks : u # t /\ pc[u] = "insert" => num[u] # num[t]
                  /\ counter # NoSeq => num[t] <= counter

CounterInv == counter # NoSeq => NumberedUpTo(counter)

\* The bodies of the three numbering properties.
ForeignCause == \A c \in collided : \E r \in rows : r.seq = c.seq /\ ~IsHub(r)
OneLoss == \A c, d \in collided : c.seq = d.seq => c = d
TaskOrder == \A r, s \in HubRows :
                r.ev[1] = s.ev[1] /\ r.ev[2] < s.ev[2] => r.seq < s.seq

Sound == /\ SeedInv
         /\ ReservedInv
         /\ CounterInv
         /\ ForeignCause
         /\ OneLoss
         /\ TaskOrder

Inv == StoreInv /\ (~overlap => Sound)
-----------------------------------------------------------------------------
(* Storage: types, table, submissions.                                     *)

\* The table after a step: as before, or with the row of a process that was
\* about to insert it.
Inserts(p) == pc[p] = "insert" /\ Stored(p) /\ ops' = ops
RowsStep == rows' = rows \/ \E p \in Procs : Inserts(p)
OpsGrow == ops' \in [Procs -> Nat] /\ \A p \in Procs : ops[p] <= ops'[p]

\* Every step keeps the types.
LEMMA TypeStep == TypeOK /\ [Next]_vars => TypeOK'
<1> SUFFICES ASSUME TypeOK, [Next]_vars PROVE TypeOK'
  OBVIOUS
<1>1. ASSUME NEW t \in HubTasks, NextWarm(t) PROVE TypeOK'
  BY <1>1, ProcsAssumption, MaxOpsAssumption DEF NextWarm, Begin, TypeOK, Events, Procs,
     Seqs, Row, Ev
<1>2. ASSUME NEW t \in HubTasks, NextCold(t) PROVE TypeOK'
  BY <1>2, ProcsAssumption, MaxOpsAssumption DEF NextCold, Begin, TypeOK, Events, Procs,
     Seqs, Row, Ev
<1>3. ASSUME NEW t \in HubTasks, SeedRead(t) PROVE TypeOK'
  BY <1>3, ProcsAssumption, MaxOpsAssumption DEF SeedRead, TypeOK, Events, Procs, Seqs,
     Row, Ev
<1>4. ASSUME NEW t \in HubTasks, SeedSet(t) PROVE TypeOK'
  BY <1>4, ProcsAssumption, MaxOpsAssumption DEF SeedSet, TypeOK, Events, Procs, Seqs,
     Row, Ev
<1>5. ASSUME NEW t \in HubTasks, HubInsert(t) PROVE TypeOK'
  BY <1>5, ProcsAssumption, MaxOpsAssumption DEF HubInsert, Stored, TypeOK, Events, Procs,
     Seqs, Row, Ev
<1>6. ASSUME NEW t \in HubTasks, HubInsertThrows(t) PROVE TypeOK'
  BY <1>6, ProcsAssumption, MaxOpsAssumption DEF HubInsertThrows, StoreThrows, Stored,
     Done, TypeOK, Events, Procs, Seqs, Row, Ev
<1>7. ASSUME NEW t \in HubTasks, HubPublish(t) PROVE TypeOK'
  BY <1>7, ProcsAssumption, MaxOpsAssumption DEF HubPublish, Published, Done, TypeOK,
     Events, Procs, Seqs, Row, Ev
<1>8. ASSUME NEW t \in HubTasks, HubPublishThrows(t) PROVE TypeOK'
  BY <1>8, ProcsAssumption, MaxOpsAssumption DEF HubPublishThrows, Done, TypeOK, Events,
     Procs, Seqs, Row, Ev
<1>9. ASSUME NEW w \in QueueWriters, QueueRead(w) PROVE TypeOK'
  BY <1>9, ProcsAssumption, MaxOpsAssumption DEF QueueRead, Begin, ReadsMaxPlusOne,
     TypeOK, Events, Procs, Seqs, Row, Ev
<1>10. ASSUME NEW w \in QueueWriters, QueueRetry(w) PROVE TypeOK'
  BY <1>10, ProcsAssumption, MaxOpsAssumption DEF QueueRetry, ReadsMaxPlusOne, TypeOK,
     Events, Procs, Seqs, Row, Ev
<1>11. ASSUME NEW w \in QueueWriters, QueueInsert(w) PROVE TypeOK'
  BY <1>11, ProcsAssumption, MaxOpsAssumption DEF QueueInsert, Stored, Done, TypeOK,
     Events, Procs, Seqs, Row, Ev
<1>12. ASSUME NEW w \in QueueWriters, QueueInsertThrows(w) PROVE TypeOK'
  <2>1. rows' \subseteq [seq : Nat, ev : Events]
    BY <1>12 DEF QueueInsertThrows, StoreThrows, Stored, Row, Ev, TypeOK, Events, Procs
  <2>2. pc' \in [Procs -> {"idle", "cold", "seed", "insert", "retry", "publish"}]
    BY <1>12 DEF QueueInsertThrows, Done, TypeOK
  <2>3. num' \in [Procs -> Nat]
    BY <1>12 DEF QueueInsertThrows, Done, TypeOK
  <2>4. tries' \in [QueueWriters -> 0..1]
    <3>1. tries' = [tries EXCEPT ![w] = 0] \/ tries' = [tries EXCEPT ![w] = 1]
      BY <1>12 DEF QueueInsertThrows
    <3>2. tries \in [QueueWriters -> 0..1] /\ 0 \in 0..1 /\ 1 \in 0..1
      BY DEF TypeOK
    <3>3. QED
      BY <3>1, <3>2
  <2>5. QED
    BY <1>12, <2>1, <2>2, <2>3, <2>4 DEF QueueInsertThrows, TypeOK, Events
<1>13. ASSUME NEW w \in Watchers, WatcherRead(w) PROVE TypeOK'
  BY <1>13, ProcsAssumption, MaxOpsAssumption DEF WatcherRead, Begin, ReadsMaxPlusOne,
     TypeOK, Events, Procs, Seqs, Row, Ev
<1>14. ASSUME NEW w \in Watchers, WatcherInsert(w) PROVE TypeOK'
  BY <1>14, ProcsAssumption, MaxOpsAssumption DEF WatcherInsert, Stored, TypeOK, Events,
     Procs, Seqs, Row, Ev
<1>15. ASSUME NEW w \in Watchers, WatcherPublish(w) PROVE TypeOK'
  BY <1>15, ProcsAssumption, MaxOpsAssumption DEF WatcherPublish, Published, Done, TypeOK,
     Events, Procs, Seqs, Row, Ev
<1>16. ASSUME NEW w \in Watchers, WatcherThrows(w) PROVE TypeOK'
  BY <1>16, ProcsAssumption, MaxOpsAssumption DEF WatcherThrows, StoreThrows, Stored,
     Done, TypeOK, Events, Procs, Seqs, Row, Ev
<1>17. ASSUME NEW w \in QueueWriters \cup Watchers, WriterCrash(w) PROVE TypeOK'
  BY <1>17, ProcsAssumption, MaxOpsAssumption DEF WriterCrash, Done, TypeOK, Events,
     Procs, Seqs, Row, Ev
<1>18. CASE ClearActiveRun
  BY <1>18, ProcsAssumption, MaxOpsAssumption DEF ClearActiveRun, TypeOK, Events, Procs,
     Seqs, Row, Ev
<1>19. CASE HubRestart
  BY <1>19, ProcsAssumption, MaxOpsAssumption DEF HubRestart, TypeOK, Events, Procs, Seqs,
     Row, Ev
<1>20. CASE UNCHANGED vars
  BY <1>20, ProcsAssumption, MaxOpsAssumption DEF vars, TypeOK, Events, Procs, Seqs, Row, Ev
<1>. QED
  BY <1>1, <1>2, <1>3, <1>4, <1>5, <1>6, <1>7, <1>8, <1>9, <1>10,
     <1>11, <1>12, <1>13, <1>14, <1>15, <1>16, <1>17, <1>18, <1>19, <1>20
  DEF Next, HubStep, QueueStep, WatcherStep

\* Every step leaves each process at a point of its own kind.
LEMMA PointsStep == TypeOK /\ ProcessPoints /\ [Next]_vars => ProcessPoints'
<1> SUFFICES ASSUME TypeOK, ProcessPoints, [Next]_vars PROVE ProcessPoints'
  OBVIOUS
<1>1. ASSUME NEW t \in HubTasks, NextWarm(t) PROVE ProcessPoints'
  BY <1>1, ProcsAssumption DEF NextWarm, Begin, TypeOK, ProcessPoints, Procs
<1>2. ASSUME NEW t \in HubTasks, NextCold(t) PROVE ProcessPoints'
  BY <1>2, ProcsAssumption DEF NextCold, Begin, TypeOK, ProcessPoints, Procs
<1>3. ASSUME NEW t \in HubTasks, SeedRead(t) PROVE ProcessPoints'
  BY <1>3, ProcsAssumption DEF SeedRead, TypeOK, ProcessPoints, Procs
<1>4. ASSUME NEW t \in HubTasks, SeedSet(t) PROVE ProcessPoints'
  BY <1>4, ProcsAssumption DEF SeedSet, TypeOK, ProcessPoints, Procs
<1>5. ASSUME NEW t \in HubTasks, HubInsert(t) PROVE ProcessPoints'
  BY <1>5, ProcsAssumption DEF HubInsert, Stored, TypeOK, ProcessPoints, Procs
<1>6. ASSUME NEW t \in HubTasks, HubInsertThrows(t) PROVE ProcessPoints'
  BY <1>6, ProcsAssumption DEF HubInsertThrows, StoreThrows, Stored, Done, TypeOK,
     ProcessPoints, Procs
<1>7. ASSUME NEW t \in HubTasks, HubPublish(t) PROVE ProcessPoints'
  BY <1>7, ProcsAssumption DEF HubPublish, Published, Done, TypeOK, ProcessPoints, Procs
<1>8. ASSUME NEW t \in HubTasks, HubPublishThrows(t) PROVE ProcessPoints'
  BY <1>8, ProcsAssumption DEF HubPublishThrows, Done, TypeOK, ProcessPoints, Procs
<1>9. ASSUME NEW w \in QueueWriters, QueueRead(w) PROVE ProcessPoints'
  BY <1>9, ProcsAssumption DEF QueueRead, Begin, ReadsMaxPlusOne, TypeOK, ProcessPoints,
     Procs
<1>10. ASSUME NEW w \in QueueWriters, QueueRetry(w) PROVE ProcessPoints'
  BY <1>10, ProcsAssumption DEF QueueRetry, ReadsMaxPlusOne, TypeOK, ProcessPoints, Procs
<1>11. ASSUME NEW w \in QueueWriters, QueueInsert(w) PROVE ProcessPoints'
  BY <1>11, ProcsAssumption DEF QueueInsert, Stored, Done, TypeOK, ProcessPoints, Procs
<1>12. ASSUME NEW w \in QueueWriters, QueueInsertThrows(w) PROVE ProcessPoints'
  BY <1>12, ProcsAssumption DEF QueueInsertThrows, StoreThrows, Stored, Done, TypeOK,
     ProcessPoints, Procs
<1>13. ASSUME NEW w \in Watchers, WatcherRead(w) PROVE ProcessPoints'
  BY <1>13, ProcsAssumption DEF WatcherRead, Begin, ReadsMaxPlusOne, TypeOK,
     ProcessPoints, Procs
<1>14. ASSUME NEW w \in Watchers, WatcherInsert(w) PROVE ProcessPoints'
  BY <1>14, ProcsAssumption DEF WatcherInsert, Stored, TypeOK, ProcessPoints, Procs
<1>15. ASSUME NEW w \in Watchers, WatcherPublish(w) PROVE ProcessPoints'
  BY <1>15, ProcsAssumption DEF WatcherPublish, Published, Done, TypeOK, ProcessPoints,
     Procs
<1>16. ASSUME NEW w \in Watchers, WatcherThrows(w) PROVE ProcessPoints'
  BY <1>16, ProcsAssumption DEF WatcherThrows, StoreThrows, Stored, Done, TypeOK,
     ProcessPoints, Procs
<1>17. ASSUME NEW w \in QueueWriters \cup Watchers, WriterCrash(w) PROVE ProcessPoints'
  BY <1>17, ProcsAssumption DEF WriterCrash, Done, TypeOK, ProcessPoints, Procs
<1>18. CASE ClearActiveRun
  BY <1>18, ProcsAssumption DEF ClearActiveRun, TypeOK, ProcessPoints, Procs
<1>19. CASE HubRestart
  BY <1>19, ProcsAssumption DEF HubRestart, TypeOK, ProcessPoints, Procs
<1>20. CASE UNCHANGED vars
  BY <1>20, ProcsAssumption DEF vars, TypeOK, ProcessPoints, Procs
<1>. QED
  BY <1>1, <1>2, <1>3, <1>4, <1>5, <1>6, <1>7, <1>8, <1>9, <1>10,
     <1>11, <1>12, <1>13, <1>14, <1>15, <1>16, <1>17, <1>18, <1>19, <1>20
  DEF Next, HubStep, QueueStep, WatcherStep

\* A step leaves the table alone or inserts one row of a process at its insert.
LEMMA RowsEffect == TypeOK /\ [Next]_vars => RowsStep
<1> SUFFICES ASSUME TypeOK, [Next]_vars PROVE RowsStep
  OBVIOUS
<1>1. ASSUME NEW t \in HubTasks, NextWarm(t) PROVE RowsStep
  BY <1>1, ProcsAssumption DEF NextWarm, Begin, TypeOK, RowsStep, Inserts, Procs, Stored
<1>2. ASSUME NEW t \in HubTasks, NextCold(t) PROVE RowsStep
  BY <1>2, ProcsAssumption DEF NextCold, Begin, TypeOK, RowsStep, Inserts, Procs, Stored
<1>3. ASSUME NEW t \in HubTasks, SeedRead(t) PROVE RowsStep
  BY <1>3, ProcsAssumption DEF SeedRead, TypeOK, RowsStep, Inserts, Procs, Stored
<1>4. ASSUME NEW t \in HubTasks, SeedSet(t) PROVE RowsStep
  BY <1>4, ProcsAssumption DEF SeedSet, TypeOK, RowsStep, Inserts, Procs, Stored
<1>5. ASSUME NEW t \in HubTasks, HubInsert(t) PROVE RowsStep
  BY <1>5, ProcsAssumption DEF HubInsert, Stored, TypeOK, RowsStep, Inserts, Procs, Stored
<1>6. ASSUME NEW t \in HubTasks, HubInsertThrows(t) PROVE RowsStep
  BY <1>6, ProcsAssumption DEF HubInsertThrows, StoreThrows, Stored, Done, TypeOK,
     RowsStep, Inserts, Procs, Stored
<1>7. ASSUME NEW t \in HubTasks, HubPublish(t) PROVE RowsStep
  BY <1>7, ProcsAssumption DEF HubPublish, Published, Done, TypeOK, RowsStep, Inserts,
     Procs, Stored
<1>8. ASSUME NEW t \in HubTasks, HubPublishThrows(t) PROVE RowsStep
  BY <1>8, ProcsAssumption DEF HubPublishThrows, Done, TypeOK, RowsStep, Inserts, Procs,
     Stored
<1>9. ASSUME NEW w \in QueueWriters, QueueRead(w) PROVE RowsStep
  BY <1>9, ProcsAssumption DEF QueueRead, Begin, ReadsMaxPlusOne, TypeOK, RowsStep,
     Inserts, Procs, Stored
<1>10. ASSUME NEW w \in QueueWriters, QueueRetry(w) PROVE RowsStep
  BY <1>10, ProcsAssumption DEF QueueRetry, ReadsMaxPlusOne, TypeOK, RowsStep, Inserts,
     Procs, Stored
<1>11. ASSUME NEW w \in QueueWriters, QueueInsert(w) PROVE RowsStep
  BY <1>11, ProcsAssumption DEF QueueInsert, Stored, Done, TypeOK, RowsStep, Inserts,
     Procs, Stored
<1>12. ASSUME NEW w \in QueueWriters, QueueInsertThrows(w) PROVE RowsStep
  BY <1>12, ProcsAssumption DEF QueueInsertThrows, StoreThrows, Stored, Done, TypeOK,
     RowsStep, Inserts, Procs, Stored
<1>13. ASSUME NEW w \in Watchers, WatcherRead(w) PROVE RowsStep
  BY <1>13, ProcsAssumption DEF WatcherRead, Begin, ReadsMaxPlusOne, TypeOK, RowsStep,
     Inserts, Procs, Stored
<1>14. ASSUME NEW w \in Watchers, WatcherInsert(w) PROVE RowsStep
  BY <1>14, ProcsAssumption DEF WatcherInsert, Stored, TypeOK, RowsStep, Inserts, Procs,
     Stored
<1>15. ASSUME NEW w \in Watchers, WatcherPublish(w) PROVE RowsStep
  BY <1>15, ProcsAssumption DEF WatcherPublish, Published, Done, TypeOK, RowsStep,
     Inserts, Procs, Stored
<1>16. ASSUME NEW w \in Watchers, WatcherThrows(w) PROVE RowsStep
  BY <1>16, ProcsAssumption DEF WatcherThrows, StoreThrows, Stored, Done, TypeOK,
     RowsStep, Inserts, Procs, Stored
<1>17. ASSUME NEW w \in QueueWriters \cup Watchers, WriterCrash(w) PROVE RowsStep
  BY <1>17, ProcsAssumption DEF WriterCrash, Done, TypeOK, RowsStep, Inserts, Procs, Stored
<1>18. CASE ClearActiveRun
  BY <1>18, ProcsAssumption DEF ClearActiveRun, TypeOK, RowsStep, Inserts, Procs, Stored
<1>19. CASE HubRestart
  BY <1>19, ProcsAssumption DEF HubRestart, TypeOK, RowsStep, Inserts, Procs, Stored
<1>20. CASE UNCHANGED vars
  BY <1>20, ProcsAssumption DEF vars, TypeOK, RowsStep, Inserts, Procs, Stored
<1>. QED
  BY <1>1, <1>2, <1>3, <1>4, <1>5, <1>6, <1>7, <1>8, <1>9, <1>10,
     <1>11, <1>12, <1>13, <1>14, <1>15, <1>16, <1>17, <1>18, <1>19, <1>20
  DEF Next, HubStep, QueueStep, WatcherStep

\* No step takes a submission back.
LEMMA OpsEffect == TypeOK /\ [Next]_vars => OpsGrow
<1> SUFFICES ASSUME TypeOK, [Next]_vars PROVE OpsGrow
  OBVIOUS
<1>1. ASSUME NEW t \in HubTasks, NextWarm(t) PROVE OpsGrow
  BY <1>1 DEF NextWarm, Begin, TypeOK, OpsGrow, Procs
<1>2. ASSUME NEW t \in HubTasks, NextCold(t) PROVE OpsGrow
  BY <1>2 DEF NextCold, Begin, TypeOK, OpsGrow, Procs
<1>3. ASSUME NEW t \in HubTasks, SeedRead(t) PROVE OpsGrow
  BY <1>3 DEF SeedRead, TypeOK, OpsGrow, Procs
<1>4. ASSUME NEW t \in HubTasks, SeedSet(t) PROVE OpsGrow
  BY <1>4 DEF SeedSet, TypeOK, OpsGrow, Procs
<1>5. ASSUME NEW t \in HubTasks, HubInsert(t) PROVE OpsGrow
  BY <1>5 DEF HubInsert, Stored, TypeOK, OpsGrow, Procs
<1>6. ASSUME NEW t \in HubTasks, HubInsertThrows(t) PROVE OpsGrow
  BY <1>6 DEF HubInsertThrows, StoreThrows, Stored, Done, TypeOK, OpsGrow, Procs
<1>7. ASSUME NEW t \in HubTasks, HubPublish(t) PROVE OpsGrow
  BY <1>7 DEF HubPublish, Published, Done, TypeOK, OpsGrow, Procs
<1>8. ASSUME NEW t \in HubTasks, HubPublishThrows(t) PROVE OpsGrow
  BY <1>8 DEF HubPublishThrows, Done, TypeOK, OpsGrow, Procs
<1>9. ASSUME NEW w \in QueueWriters, QueueRead(w) PROVE OpsGrow
  BY <1>9 DEF QueueRead, Begin, ReadsMaxPlusOne, TypeOK, OpsGrow, Procs
<1>10. ASSUME NEW w \in QueueWriters, QueueRetry(w) PROVE OpsGrow
  BY <1>10 DEF QueueRetry, ReadsMaxPlusOne, TypeOK, OpsGrow, Procs
<1>11. ASSUME NEW w \in QueueWriters, QueueInsert(w) PROVE OpsGrow
  BY <1>11 DEF QueueInsert, Stored, Done, TypeOK, OpsGrow, Procs
<1>12. ASSUME NEW w \in QueueWriters, QueueInsertThrows(w) PROVE OpsGrow
  BY <1>12 DEF QueueInsertThrows, StoreThrows, Stored, Done, TypeOK, OpsGrow, Procs
<1>13. ASSUME NEW w \in Watchers, WatcherRead(w) PROVE OpsGrow
  BY <1>13 DEF WatcherRead, Begin, ReadsMaxPlusOne, TypeOK, OpsGrow, Procs
<1>14. ASSUME NEW w \in Watchers, WatcherInsert(w) PROVE OpsGrow
  BY <1>14 DEF WatcherInsert, Stored, TypeOK, OpsGrow, Procs
<1>15. ASSUME NEW w \in Watchers, WatcherPublish(w) PROVE OpsGrow
  BY <1>15 DEF WatcherPublish, Published, Done, TypeOK, OpsGrow, Procs
<1>16. ASSUME NEW w \in Watchers, WatcherThrows(w) PROVE OpsGrow
  BY <1>16 DEF WatcherThrows, StoreThrows, Stored, Done, TypeOK, OpsGrow, Procs
<1>17. ASSUME NEW w \in QueueWriters \cup Watchers, WriterCrash(w) PROVE OpsGrow
  BY <1>17 DEF WriterCrash, Done, TypeOK, OpsGrow, Procs
<1>18. CASE ClearActiveRun
  BY <1>18 DEF ClearActiveRun, TypeOK, OpsGrow, Procs
<1>19. CASE HubRestart
  BY <1>19 DEF HubRestart, TypeOK, OpsGrow, Procs
<1>20. CASE UNCHANGED vars
  BY <1>20 DEF vars, TypeOK, OpsGrow, Procs
<1>. QED
  BY <1>1, <1>2, <1>3, <1>4, <1>5, <1>6, <1>7, <1>8, <1>9, <1>10,
     <1>11, <1>12, <1>13, <1>14, <1>15, <1>16, <1>17, <1>18, <1>19, <1>20
  DEF Next, HubStep, QueueStep, WatcherStep

\* Every step keeps the numbers unique and the rows within what was begun.
LEMMA TableStep == TypeOK /\ TableInv /\ RowsStep /\ OpsGrow => TableInv'
<1> SUFFICES ASSUME TypeOK, TableInv, RowsStep, OpsGrow PROVE TableInv'
  OBVIOUS
<1>1. CASE rows' = rows
  <2>1. \A r \in rows : r.ev[1] \in Procs /\ r.ev[2] \in Nat
    BY DEF TypeOK, Events
  <2>2. QED
    BY <1>1, <2>1 DEF TableInv, OpsGrow, TypeOK
<1>2. ASSUME NEW p \in Procs, Inserts(p) PROVE TableInv'
  <2>1. \A r \in rows : r.seq # Row(p).seq
    BY <1>2 DEF Inserts, Stored, Seqs, Row
  <2>2. Row(p).ev[2] <= ops[Row(p).ev[1]]
    BY DEF Row, Ev, TypeOK
  <2>3. QED
    BY <1>2, <2>1, <2>2 DEF TableInv, Inserts, Stored
<1>3. QED
  BY <1>1, <1>2 DEF RowsStep

\* Every step keeps an event to as many rows as it had tries.
LEMMA RowPerTryStep == TypeOK /\ FreshInv /\ TryInv /\ RowPerTry /\ RowsStep => RowPerTry'
<1> SUFFICES ASSUME TypeOK, FreshInv, TryInv, RowPerTry, RowsStep PROVE RowPerTry'
  OBVIOUS
<1>1. CASE rows' = rows
  BY <1>1 DEF RowPerTry
<1>2. ASSUME NEW p \in Procs, Inserts(p) PROVE RowPerTry'
  <2>1. Row(p).ev = Ev(p) /\ Ev(p)[1] = p /\ rows' = rows \cup {Row(p)}
    BY <1>2 DEF Row, Ev, Inserts, Stored
  <2>2. p \notin QueueWriters => \A r \in rows : r.ev # Ev(p)
    BY <1>2 DEF FreshInv, Inserts, Procs
  <2>3. p \in QueueWriters => \A r, s \in rows : r.ev = Ev(p) /\ s.ev = Ev(p) => r = s
    <3>1. p \in QueueWriters => tries[p] = 0 \/ tries[p] = 1
      BY DEF TypeOK
    <3>2. pc[p] = "insert"
      BY <1>2 DEF Inserts
    <3>3. QED
      BY <3>1, <3>2 DEF TryInv
  <2>4. \A r, s \in rows : r.ev = Ev(p) /\ s.ev = Ev(p) => r = s /\ p \in QueueWriters
    BY <2>2, <2>3
  <2> DEFINE new == Row(p)
  <2> HIDE DEF new
  <2>5. new.ev = Ev(p) /\ rows' = rows \cup {new}
    BY <2>1 DEF new
  <2> SUFFICES ASSUME NEW r \in rows', NEW s \in rows', r.ev = s.ev, r # s
               PROVE  r.ev[1] \in QueueWriters /\ \A t \in rows' : t.ev = r.ev => t \in {r, s}
    BY DEF RowPerTry
  <2>6. CASE r.ev = Ev(p)
    BY <2>1, <2>4, <2>5, <2>6
  <2>7. CASE r.ev # Ev(p)
    BY <2>5, <2>7 DEF RowPerTry
  <2>8. QED
    BY <2>6, <2>7
<1>3. QED
  BY <1>1, <1>2 DEF RowsStep

\* A queue writer's tries and rows are no other process's business.
OthersMove(w) ==
    /\ pc'[w] = pc[w] /\ ops'[w] = ops[w] /\ tries'[w] = tries[w]
    /\ \A r \in rows' : r \in rows \/ r.ev # Ev(w)

LEMMA TryKept ==
    ASSUME NEW w \in QueueWriters, OthersMove(w), TryInv
    PROVE  /\ pc'[w] = "idle" => tries'[w] = 0
           /\ pc'[w] = "retry" => tries'[w] = 1
           /\ pc'[w] = "insert" /\ tries'[w] = 0 => \A r \in rows' : r.ev # Ev(w)'
           /\ tries'[w] = 1 => \A r, s \in rows' : r.ev = Ev(w)' /\ s.ev = Ev(w)' => r = s
<1>1. Ev(w)' = Ev(w)
  BY DEF OthersMove, Ev
<1>2. QED
  BY <1>1 DEF OthersMove, TryInv

\* Every step keeps the tries and their rows in step.
LEMMA TryStep == TypeOK /\ ProcessPoints /\ TableInv /\ TryInv /\ [Next]_vars => TryInv'
<1> SUFFICES ASSUME TypeOK, ProcessPoints, TableInv, TryInv, [Next]_vars PROVE TryInv'
  OBVIOUS
<1>1. \A p \in Procs : Row(p).ev = Ev(p) /\ Ev(p)[1] = p
  BY DEF Row, Ev
<1>2. ASSUME NEW t \in HubTasks, HubStep(t) PROVE \A w \in QueueWriters : OthersMove(w)
  <2>1. t \in Procs /\ t \notin QueueWriters /\ QueueWriters \subseteq Procs
    BY ProcsAssumption DEF Procs
  <2>2. rows' = rows \/ rows' = rows \cup {Row(t)}
    BY <1>2 DEF HubStep, NextWarm, NextCold, SeedRead, SeedSet, HubInsert, HubInsertThrows,
       HubPublish, HubPublishThrows, StoreThrows, Stored
  <2>3. \A w \in QueueWriters : pc'[w] = pc[w] /\ ops'[w] = ops[w] /\ tries'[w] = tries[w]
    BY <1>2, <2>1 DEF HubStep, NextWarm, NextCold, SeedRead, SeedSet, HubInsert, HubInsertThrows,
       HubPublish, HubPublishThrows, Begin, Done, TypeOK
  <2>4. \A w \in QueueWriters : Ev(t) # Ev(w)
    BY <1>1, <2>1
  <2>5. QED
    BY <1>1, <2>1, <2>2, <2>3, <2>4 DEF OthersMove
<1>3. ASSUME NEW v \in Watchers, WatcherStep(v) \/ WriterCrash(v)
      PROVE  \A w \in QueueWriters : OthersMove(w)
  <2>1. v \in Procs /\ v \notin QueueWriters /\ QueueWriters \subseteq Procs
    BY ProcsAssumption DEF Procs
  <2>2. rows' = rows \/ rows' = rows \cup {Row(v)}
    BY <1>3 DEF WatcherStep, WatcherRead, WatcherInsert, WatcherPublish, WatcherThrows, WriterCrash,
       StoreThrows, Stored
  <2>3. \A w \in QueueWriters : pc'[w] = pc[w] /\ ops'[w] = ops[w] /\ tries'[w] = tries[w]
    BY <1>3, <2>1 DEF WatcherStep, WatcherRead, WatcherInsert, WatcherPublish, WatcherThrows,
       WriterCrash, Begin, Done, TypeOK
  <2>4. \A w \in QueueWriters : Ev(v) # Ev(w)
    BY <1>1, <2>1
  <2>5. QED
    BY <1>1, <2>1, <2>2, <2>3, <2>4 DEF OthersMove
<1>4. ASSUME ClearActiveRun \/ HubRestart \/ UNCHANGED vars
      PROVE  \A w \in QueueWriters : OthersMove(w)
  BY <1>4, ProcsAssumption DEF ClearActiveRun, HubRestart, vars, OthersMove, Procs, TypeOK
<1>5. ASSUME NEW w \in QueueWriters, QueueStep(w) \/ WriterCrash(w),
             NEW u \in QueueWriters, u # w
      PROVE  OthersMove(u)
  <2>1. rows' = rows \/ rows' = rows \cup {Row(w)}
    BY <1>5 DEF QueueStep, QueueRead, QueueRetry, QueueInsert, QueueInsertThrows, WriterCrash,
       StoreThrows, Stored
  <2>2. pc'[u] = pc[u] /\ ops'[u] = ops[u] /\ tries'[u] = tries[u]
    <3>1. u \in Procs /\ w \in Procs
      BY DEF Procs
    <3>2. QED
      BY <1>5, <3>1 DEF QueueStep, QueueRead, QueueRetry, QueueInsert, QueueInsertThrows,
         WriterCrash, Begin, Done, TypeOK
  <2>3. Ev(w) # Ev(u) /\ Row(w).ev = Ev(w)
    BY <1>1, <1>5 DEF Procs
  <2>4. QED
    BY <2>1, <2>2, <2>3 DEF OthersMove
<1>6. ASSUME NEW w \in QueueWriters, QueueStep(w) \/ WriterCrash(w)
      PROVE  /\ pc'[w] = "idle" => tries'[w] = 0
             /\ pc'[w] = "retry" => tries'[w] = 1
             /\ pc'[w] = "insert" /\ tries'[w] = 0 => \A r \in rows' : r.ev # Ev(w)'
             /\ tries'[w] = 1 => \A r, s \in rows' : r.ev = Ev(w)' /\ s.ev = Ev(w)' => r = s
  <2>1. w \in Procs /\ tries[w] \in 0..1
    BY DEF Procs, TypeOK
  <2>2. CASE QueueRead(w)
    <3>1. /\ pc[w] = "idle" /\ rows' = rows /\ tries' = tries /\ ops'[w] = ops[w] + 1
          /\ pc'[w] = "insert"
      BY <2>1, <2>2 DEF QueueRead, Begin, TypeOK
    <3>2. Ev(w)' = <<w, ops[w] + 1>>
      BY <3>1 DEF Ev
    <3>3. \A r \in rows : r.ev # <<w, ops[w] + 1>>
      <4>1. ops[w] \in Nat
        BY <2>1 DEF TypeOK
      <4>2. QED
        BY <4>1 DEF TableInv
    <3>4. QED
      BY <3>1, <3>2, <3>3 DEF TryInv
  <2>3. CASE QueueRetry(w)
    <3>1. /\ pc[w] = "retry" /\ rows' = rows /\ tries' = tries /\ ops' = ops /\ pc'[w] = "insert"
      BY <2>1, <2>3 DEF QueueRetry, TypeOK
    <3>2. QED
      BY <3>1 DEF TryInv, Ev
  <2>4. CASE QueueInsert(w) \/ WriterCrash(w)
    <3>1. pc'[w] = "idle" /\ tries'[w] = 0
      BY <2>1, <2>4 DEF QueueInsert, WriterCrash, Done, TypeOK
    <3>2. QED
      BY <3>1
  <2>5. CASE QueueInsertThrows(w)
    <3>1. CASE tries[w] = 0
      <4>1. /\ tries'[w] = 1 /\ pc'[w] = "retry" /\ ops' = ops /\ pc[w] = "insert"
            /\ rows' = rows \/ rows' = rows \cup {Row(w)}
        BY <2>1, <2>5, <3>1 DEF QueueInsertThrows, StoreThrows, Stored, TypeOK
      <4>2. \A r \in rows : r.ev # Ev(w)
        BY <3>1, <4>1 DEF TryInv
      <4>3. Ev(w)' = Ev(w)
        BY <4>1 DEF Ev
      <4>4. QED
        BY <4>1, <4>2, <4>3
    <3>2. CASE tries[w] = 1
      <4>1. pc'[w] = "idle" /\ tries'[w] = 0
        BY <2>1, <2>5, <3>2 DEF QueueInsertThrows, Done, TypeOK
      <4>2. QED
        BY <4>1
    <3>3. QED
      BY <2>1, <3>1, <3>2
  <2>6. QED
    BY <1>6, <2>2, <2>3, <2>4, <2>5 DEF QueueStep
<1>7. ASSUME NEW w \in QueueWriters, QueueStep(w) \/ WriterCrash(w) PROVE TryInv'
  BY <1>5, <1>6, <1>7, TryKept DEF TryInv
<1>8. ASSUME \A w \in QueueWriters : OthersMove(w) PROVE TryInv'
  BY <1>8, TryKept DEF TryInv
<1>9. QED
  BY <1>2, <1>3, <1>4, <1>7, <1>8 DEF Next

\* Every step keeps pending submissions out of the table.
LEMMA FreshStep ==
  TypeOK /\ ProcessPoints /\ TableInv /\ FreshInv /\ [Next]_vars => FreshInv'
<1> SUFFICES ASSUME TypeOK, ProcessPoints, TableInv, FreshInv, [Next]_vars PROVE FreshInv'
  OBVIOUS
<1>1. ASSUME NEW t \in HubTasks, NextWarm(t) PROVE FreshInv'
  BY <1>1, ProcsAssumption DEF NextWarm, Begin, TypeOK, ProcessPoints, TableInv, FreshInv,
     Procs, Events, Row, Ev
<1>2. ASSUME NEW t \in HubTasks, NextCold(t) PROVE FreshInv'
  BY <1>2, ProcsAssumption DEF NextCold, Begin, TypeOK, ProcessPoints, TableInv, FreshInv,
     Procs, Events, Row, Ev
<1>3. ASSUME NEW t \in HubTasks, SeedRead(t) PROVE FreshInv'
  BY <1>3, ProcsAssumption DEF SeedRead, TypeOK, ProcessPoints, TableInv, FreshInv, Procs,
     Events, Row, Ev
<1>4. ASSUME NEW t \in HubTasks, SeedSet(t) PROVE FreshInv'
  BY <1>4, ProcsAssumption DEF SeedSet, TypeOK, ProcessPoints, TableInv, FreshInv, Procs,
     Events, Row, Ev
<1>5. ASSUME NEW t \in HubTasks, HubInsert(t) PROVE FreshInv'
  BY <1>5, ProcsAssumption DEF HubInsert, Stored, TypeOK, ProcessPoints, TableInv,
     FreshInv, Procs, Events, Row, Ev
<1>6. ASSUME NEW t \in HubTasks, HubInsertThrows(t) PROVE FreshInv'
  BY <1>6, ProcsAssumption DEF HubInsertThrows, StoreThrows, Stored, Done, TypeOK,
     ProcessPoints, TableInv, FreshInv, Procs, Events, Row, Ev
<1>7. ASSUME NEW t \in HubTasks, HubPublish(t) PROVE FreshInv'
  BY <1>7, ProcsAssumption DEF HubPublish, Published, Done, TypeOK, ProcessPoints,
     TableInv, FreshInv, Procs, Events, Row, Ev
<1>8. ASSUME NEW t \in HubTasks, HubPublishThrows(t) PROVE FreshInv'
  BY <1>8, ProcsAssumption DEF HubPublishThrows, Done, TypeOK, ProcessPoints, TableInv,
     FreshInv, Procs, Events, Row, Ev
<1>9. ASSUME NEW w \in QueueWriters, QueueRead(w) PROVE FreshInv'
  BY <1>9, ProcsAssumption DEF QueueRead, Begin, ReadsMaxPlusOne, TypeOK, ProcessPoints,
     TableInv, FreshInv, Procs, Events, Row, Ev
<1>10. ASSUME NEW w \in QueueWriters, QueueRetry(w) PROVE FreshInv'
  BY <1>10, ProcsAssumption DEF QueueRetry, ReadsMaxPlusOne, TypeOK, ProcessPoints,
     TableInv, FreshInv, Procs, Events, Row, Ev
<1>11. ASSUME NEW w \in QueueWriters, QueueInsert(w) PROVE FreshInv'
  BY <1>11, ProcsAssumption DEF QueueInsert, Stored, Done, TypeOK, ProcessPoints,
     TableInv, FreshInv, Procs, Events, Row, Ev
<1>12. ASSUME NEW w \in QueueWriters, QueueInsertThrows(w) PROVE FreshInv'
  <2>1. ASSUME NEW p \in HubTasks \cup Watchers PROVE p # w /\ pc'[p] = pc[p] /\ Ev(p)' = Ev(p)
    BY <1>12, ProcsAssumption DEF QueueInsertThrows, Done, TypeOK, Procs, Ev
  <2>2. rows' = rows \/ rows' = rows \cup {Row(w)}
    BY <1>12 DEF QueueInsertThrows, StoreThrows, Stored
  <2>3. \A p \in HubTasks \cup Watchers : Row(w).ev # Ev(p)
    BY <2>1 DEF Row, Ev
  <2>4. QED
    BY <2>1, <2>2, <2>3 DEF FreshInv
<1>13. ASSUME NEW w \in Watchers, WatcherRead(w) PROVE FreshInv'
  BY <1>13, ProcsAssumption DEF WatcherRead, Begin, ReadsMaxPlusOne, TypeOK,
     ProcessPoints, TableInv, FreshInv, Procs, Events, Row, Ev
<1>14. ASSUME NEW w \in Watchers, WatcherInsert(w) PROVE FreshInv'
  BY <1>14, ProcsAssumption DEF WatcherInsert, Stored, TypeOK, ProcessPoints, TableInv,
     FreshInv, Procs, Events, Row, Ev
<1>15. ASSUME NEW w \in Watchers, WatcherPublish(w) PROVE FreshInv'
  BY <1>15, ProcsAssumption DEF WatcherPublish, Published, Done, TypeOK, ProcessPoints,
     TableInv, FreshInv, Procs, Events, Row, Ev
<1>16. ASSUME NEW w \in Watchers, WatcherThrows(w) PROVE FreshInv'
  BY <1>16, ProcsAssumption DEF WatcherThrows, StoreThrows, Stored, Done, TypeOK,
     ProcessPoints, TableInv, FreshInv, Procs, Events, Row, Ev
<1>17. ASSUME NEW w \in QueueWriters \cup Watchers, WriterCrash(w) PROVE FreshInv'
  BY <1>17, ProcsAssumption DEF WriterCrash, Done, TypeOK, ProcessPoints, TableInv,
     FreshInv, Procs, Events, Row, Ev
<1>18. CASE ClearActiveRun
  BY <1>18, ProcsAssumption DEF ClearActiveRun, TypeOK, ProcessPoints, TableInv, FreshInv,
     Procs, Events, Row, Ev
<1>19. CASE HubRestart
  BY <1>19, ProcsAssumption DEF HubRestart, TypeOK, ProcessPoints, TableInv, FreshInv,
     Procs, Events, Row, Ev
<1>20. CASE UNCHANGED vars
  BY <1>20, ProcsAssumption DEF vars, TypeOK, ProcessPoints, TableInv, FreshInv, Procs,
     Events, Row, Ev
<1>. QED
  BY <1>1, <1>2, <1>3, <1>4, <1>5, <1>6, <1>7, <1>8, <1>9, <1>10,
     <1>11, <1>12, <1>13, <1>14, <1>15, <1>16, <1>17, <1>18, <1>19, <1>20
  DEF Next, HubStep, QueueStep, WatcherStep

\* Every step keeps what is about to be published stored and unpublished.
LEMMA PublishStep ==
  TypeOK /\ ProcessPoints /\ FreshInv /\ PublishInv /\ ChannelInv /\ [Next]_vars => PublishInv'
<1> SUFFICES ASSUME TypeOK, ProcessPoints, FreshInv, PublishInv, ChannelInv, [Next]_vars PROVE PublishInv'
  OBVIOUS
<1>1. ASSUME NEW t \in HubTasks, NextWarm(t) PROVE PublishInv'
  BY <1>1, ProcsAssumption DEF NextWarm, Begin, TypeOK, ProcessPoints, FreshInv,
     PublishInv, ChannelInv, Procs, Row, Ev
<1>2. ASSUME NEW t \in HubTasks, NextCold(t) PROVE PublishInv'
  BY <1>2, ProcsAssumption DEF NextCold, Begin, TypeOK, ProcessPoints, FreshInv,
     PublishInv, ChannelInv, Procs, Row, Ev
<1>3. ASSUME NEW t \in HubTasks, SeedRead(t) PROVE PublishInv'
  BY <1>3, ProcsAssumption DEF SeedRead, TypeOK, ProcessPoints, FreshInv, PublishInv,
     ChannelInv, Procs, Row, Ev
<1>4. ASSUME NEW t \in HubTasks, SeedSet(t) PROVE PublishInv'
  BY <1>4, ProcsAssumption DEF SeedSet, TypeOK, ProcessPoints, FreshInv, PublishInv,
     ChannelInv, Procs, Row, Ev
<1>5. ASSUME NEW t \in HubTasks, HubInsert(t) PROVE PublishInv'
  <2>1. Row(t)' = Row(t) /\ Row(t) \in rows' /\ rows \subseteq rows' /\ channel' = channel
    BY <1>5 DEF HubInsert, Stored, Row, Ev
  <2>2. \A i \in DOMAIN channel : channel[i] # Row(t)
    BY <1>5 DEF HubInsert, ChannelInv, FreshInv, Row
  <2>3. \A p \in Procs : p # t => pc'[p] = pc[p] /\ Row(p)' = Row(p)
    BY <1>5 DEF HubInsert, TypeOK, Row, Ev
  <2>4. QED
    BY <2>1, <2>2, <2>3 DEF PublishInv
<1>6. ASSUME NEW t \in HubTasks, HubInsertThrows(t) PROVE PublishInv'
  BY <1>6, ProcsAssumption DEF HubInsertThrows, StoreThrows, Stored, Done, TypeOK,
     ProcessPoints, FreshInv, PublishInv, ChannelInv, Procs, Row, Ev
<1>7. ASSUME NEW t \in HubTasks, HubPublish(t) PROVE PublishInv'
  BY <1>7, ProcsAssumption DEF HubPublish, Published, Done, TypeOK, ProcessPoints,
     FreshInv, PublishInv, ChannelInv, Procs, Row, Ev
<1>8. ASSUME NEW t \in HubTasks, HubPublishThrows(t) PROVE PublishInv'
  BY <1>8, ProcsAssumption DEF HubPublishThrows, Done, TypeOK, ProcessPoints, FreshInv,
     PublishInv, ChannelInv, Procs, Row, Ev
<1>9. ASSUME NEW w \in QueueWriters, QueueRead(w) PROVE PublishInv'
  BY <1>9, ProcsAssumption DEF QueueRead, Begin, ReadsMaxPlusOne, TypeOK, ProcessPoints,
     FreshInv, PublishInv, ChannelInv, Procs, Row, Ev
<1>10. ASSUME NEW w \in QueueWriters, QueueRetry(w) PROVE PublishInv'
  BY <1>10, ProcsAssumption DEF QueueRetry, ReadsMaxPlusOne, TypeOK, ProcessPoints,
     FreshInv, PublishInv, ChannelInv, Procs, Row, Ev
<1>11. ASSUME NEW w \in QueueWriters, QueueInsert(w) PROVE PublishInv'
  BY <1>11, ProcsAssumption DEF QueueInsert, Stored, Done, TypeOK, ProcessPoints,
     FreshInv, PublishInv, ChannelInv, Procs, Row, Ev
<1>12. ASSUME NEW w \in QueueWriters, QueueInsertThrows(w) PROVE PublishInv'
  BY <1>12, ProcsAssumption DEF QueueInsertThrows, StoreThrows, Stored, Done, TypeOK,
     ProcessPoints, FreshInv, PublishInv, ChannelInv, Procs, Row, Ev
<1>13. ASSUME NEW w \in Watchers, WatcherRead(w) PROVE PublishInv'
  BY <1>13, ProcsAssumption DEF WatcherRead, Begin, ReadsMaxPlusOne, TypeOK,
     ProcessPoints, FreshInv, PublishInv, ChannelInv, Procs, Row, Ev
<1>14. ASSUME NEW w \in Watchers, WatcherInsert(w) PROVE PublishInv'
  <2>1. Row(w)' = Row(w) /\ Row(w) \in rows' /\ rows \subseteq rows' /\ channel' = channel
    BY <1>14 DEF WatcherInsert, Stored, Row, Ev
  <2>2. \A i \in DOMAIN channel : channel[i] # Row(w)
    BY <1>14 DEF WatcherInsert, ChannelInv, FreshInv, Row
  <2>3. \A p \in Procs : p # w => pc'[p] = pc[p] /\ Row(p)' = Row(p)
    BY <1>14 DEF WatcherInsert, TypeOK, Row, Ev
  <2>4. QED
    BY <2>1, <2>2, <2>3 DEF PublishInv
<1>15. ASSUME NEW w \in Watchers, WatcherPublish(w) PROVE PublishInv'
  BY <1>15, ProcsAssumption DEF WatcherPublish, Published, Done, TypeOK, ProcessPoints,
     FreshInv, PublishInv, ChannelInv, Procs, Row, Ev
<1>16. ASSUME NEW w \in Watchers, WatcherThrows(w) PROVE PublishInv'
  BY <1>16, ProcsAssumption DEF WatcherThrows, StoreThrows, Stored, Done, TypeOK,
     ProcessPoints, FreshInv, PublishInv, ChannelInv, Procs, Row, Ev
<1>17. ASSUME NEW w \in QueueWriters \cup Watchers, WriterCrash(w) PROVE PublishInv'
  BY <1>17, ProcsAssumption DEF WriterCrash, Done, TypeOK, ProcessPoints, FreshInv,
     PublishInv, ChannelInv, Procs, Row, Ev
<1>18. CASE ClearActiveRun
  BY <1>18, ProcsAssumption DEF ClearActiveRun, TypeOK, ProcessPoints, FreshInv,
     PublishInv, ChannelInv, Procs, Row, Ev
<1>19. CASE HubRestart
  BY <1>19, ProcsAssumption DEF HubRestart, TypeOK, ProcessPoints, FreshInv, PublishInv,
     ChannelInv, Procs, Row, Ev
<1>20. CASE UNCHANGED vars
  BY <1>20, ProcsAssumption DEF vars, TypeOK, ProcessPoints, FreshInv, PublishInv,
     ChannelInv, Procs, Row, Ev
<1>. QED
  BY <1>1, <1>2, <1>3, <1>4, <1>5, <1>6, <1>7, <1>8, <1>9, <1>10,
     <1>11, <1>12, <1>13, <1>14, <1>15, <1>16, <1>17, <1>18, <1>19, <1>20
  DEF Next, HubStep, QueueStep, WatcherStep

\* Every step keeps the channel within the table (persist before broadcast).
LEMMA ChannelStep == TypeOK /\ PublishInv /\ ChannelInv /\ [Next]_vars => ChannelInv'
<1> SUFFICES ASSUME TypeOK, PublishInv, ChannelInv, [Next]_vars PROVE ChannelInv'
  OBVIOUS
<1>1. ASSUME NEW t \in HubTasks, NextWarm(t) PROVE ChannelInv'
  BY <1>1 DEF NextWarm, Begin, TypeOK, PublishInv, ChannelInv, Procs
<1>2. ASSUME NEW t \in HubTasks, NextCold(t) PROVE ChannelInv'
  BY <1>2 DEF NextCold, Begin, TypeOK, PublishInv, ChannelInv, Procs
<1>3. ASSUME NEW t \in HubTasks, SeedRead(t) PROVE ChannelInv'
  BY <1>3 DEF SeedRead, TypeOK, PublishInv, ChannelInv, Procs
<1>4. ASSUME NEW t \in HubTasks, SeedSet(t) PROVE ChannelInv'
  BY <1>4 DEF SeedSet, TypeOK, PublishInv, ChannelInv, Procs
<1>5. ASSUME NEW t \in HubTasks, HubInsert(t) PROVE ChannelInv'
  BY <1>5 DEF HubInsert, Stored, TypeOK, PublishInv, ChannelInv, Procs
<1>6. ASSUME NEW t \in HubTasks, HubInsertThrows(t) PROVE ChannelInv'
  BY <1>6 DEF HubInsertThrows, StoreThrows, Stored, Done, TypeOK, PublishInv, ChannelInv,
     Procs
<1>7. ASSUME NEW t \in HubTasks, HubPublish(t) PROVE ChannelInv'
  BY <1>7 DEF HubPublish, Published, Done, TypeOK, PublishInv, ChannelInv, Procs
<1>8. ASSUME NEW t \in HubTasks, HubPublishThrows(t) PROVE ChannelInv'
  BY <1>8 DEF HubPublishThrows, Done, TypeOK, PublishInv, ChannelInv, Procs
<1>9. ASSUME NEW w \in QueueWriters, QueueRead(w) PROVE ChannelInv'
  BY <1>9 DEF QueueRead, Begin, ReadsMaxPlusOne, TypeOK, PublishInv, ChannelInv, Procs
<1>10. ASSUME NEW w \in QueueWriters, QueueRetry(w) PROVE ChannelInv'
  BY <1>10 DEF QueueRetry, ReadsMaxPlusOne, TypeOK, PublishInv, ChannelInv, Procs
<1>11. ASSUME NEW w \in QueueWriters, QueueInsert(w) PROVE ChannelInv'
  BY <1>11 DEF QueueInsert, Stored, Done, TypeOK, PublishInv, ChannelInv, Procs
<1>12. ASSUME NEW w \in QueueWriters, QueueInsertThrows(w) PROVE ChannelInv'
  BY <1>12 DEF QueueInsertThrows, StoreThrows, Stored, Done, TypeOK, PublishInv,
     ChannelInv, Procs
<1>13. ASSUME NEW w \in Watchers, WatcherRead(w) PROVE ChannelInv'
  BY <1>13 DEF WatcherRead, Begin, ReadsMaxPlusOne, TypeOK, PublishInv, ChannelInv, Procs
<1>14. ASSUME NEW w \in Watchers, WatcherInsert(w) PROVE ChannelInv'
  BY <1>14 DEF WatcherInsert, Stored, TypeOK, PublishInv, ChannelInv, Procs
<1>15. ASSUME NEW w \in Watchers, WatcherPublish(w) PROVE ChannelInv'
  BY <1>15 DEF WatcherPublish, Published, Done, TypeOK, PublishInv, ChannelInv, Procs
<1>16. ASSUME NEW w \in Watchers, WatcherThrows(w) PROVE ChannelInv'
  BY <1>16 DEF WatcherThrows, StoreThrows, Stored, Done, TypeOK, PublishInv, ChannelInv,
     Procs
<1>17. ASSUME NEW w \in QueueWriters \cup Watchers, WriterCrash(w) PROVE ChannelInv'
  BY <1>17 DEF WriterCrash, Done, TypeOK, PublishInv, ChannelInv, Procs
<1>18. CASE ClearActiveRun
  BY <1>18 DEF ClearActiveRun, TypeOK, PublishInv, ChannelInv, Procs
<1>19. CASE HubRestart
  BY <1>19 DEF HubRestart, TypeOK, PublishInv, ChannelInv, Procs
<1>20. CASE UNCHANGED vars
  BY <1>20 DEF vars, TypeOK, PublishInv, ChannelInv, Procs
<1>. QED
  BY <1>1, <1>2, <1>3, <1>4, <1>5, <1>6, <1>7, <1>8, <1>9, <1>10,
     <1>11, <1>12, <1>13, <1>14, <1>15, <1>16, <1>17, <1>18, <1>19, <1>20
  DEF Next, HubStep, QueueStep, WatcherStep

\* Every step keeps acknowledged events in the table.
LEMMA AckedStep == TypeOK /\ PublishInv /\ AckedInv /\ [Next]_vars => AckedInv'
<1> SUFFICES ASSUME TypeOK, PublishInv, AckedInv, [Next]_vars PROVE AckedInv'
  OBVIOUS
<1>1. ASSUME NEW t \in HubTasks, NextWarm(t) PROVE AckedInv'
  BY <1>1 DEF NextWarm, Begin, TypeOK, PublishInv, AckedInv, Procs, Row
<1>2. ASSUME NEW t \in HubTasks, NextCold(t) PROVE AckedInv'
  BY <1>2 DEF NextCold, Begin, TypeOK, PublishInv, AckedInv, Procs, Row
<1>3. ASSUME NEW t \in HubTasks, SeedRead(t) PROVE AckedInv'
  BY <1>3 DEF SeedRead, TypeOK, PublishInv, AckedInv, Procs, Row
<1>4. ASSUME NEW t \in HubTasks, SeedSet(t) PROVE AckedInv'
  BY <1>4 DEF SeedSet, TypeOK, PublishInv, AckedInv, Procs, Row
<1>5. ASSUME NEW t \in HubTasks, HubInsert(t) PROVE AckedInv'
  BY <1>5 DEF HubInsert, Stored, TypeOK, PublishInv, AckedInv, Procs, Row
<1>6. ASSUME NEW t \in HubTasks, HubInsertThrows(t) PROVE AckedInv'
  BY <1>6 DEF HubInsertThrows, StoreThrows, Stored, Done, TypeOK, PublishInv, AckedInv,
     Procs, Row
<1>7. ASSUME NEW t \in HubTasks, HubPublish(t) PROVE AckedInv'
  BY <1>7 DEF HubPublish, Published, Done, TypeOK, PublishInv, AckedInv, Procs, Row
<1>8. ASSUME NEW t \in HubTasks, HubPublishThrows(t) PROVE AckedInv'
  BY <1>8 DEF HubPublishThrows, Done, TypeOK, PublishInv, AckedInv, Procs, Row
<1>9. ASSUME NEW w \in QueueWriters, QueueRead(w) PROVE AckedInv'
  BY <1>9 DEF QueueRead, Begin, ReadsMaxPlusOne, TypeOK, PublishInv, AckedInv, Procs, Row
<1>10. ASSUME NEW w \in QueueWriters, QueueRetry(w) PROVE AckedInv'
  BY <1>10 DEF QueueRetry, ReadsMaxPlusOne, TypeOK, PublishInv, AckedInv, Procs, Row
<1>11. ASSUME NEW w \in QueueWriters, QueueInsert(w) PROVE AckedInv'
  <2>1. Row(w) \in rows' /\ Row(w).ev = Ev(w) /\ acked' = acked \cup {Ev(w)}
    BY <1>11 DEF QueueInsert, Stored, Row
  <2>2. rows \subseteq rows'
    BY <1>11 DEF QueueInsert, Stored
  <2>3. QED
    BY <2>1, <2>2 DEF AckedInv
<1>12. ASSUME NEW w \in QueueWriters, QueueInsertThrows(w) PROVE AckedInv'
  BY <1>12 DEF QueueInsertThrows, StoreThrows, Stored, Done, TypeOK, PublishInv, AckedInv,
     Procs, Row
<1>13. ASSUME NEW w \in Watchers, WatcherRead(w) PROVE AckedInv'
  BY <1>13 DEF WatcherRead, Begin, ReadsMaxPlusOne, TypeOK, PublishInv, AckedInv, Procs, Row
<1>14. ASSUME NEW w \in Watchers, WatcherInsert(w) PROVE AckedInv'
  BY <1>14 DEF WatcherInsert, Stored, TypeOK, PublishInv, AckedInv, Procs, Row
<1>15. ASSUME NEW w \in Watchers, WatcherPublish(w) PROVE AckedInv'
  BY <1>15 DEF WatcherPublish, Published, Done, TypeOK, PublishInv, AckedInv, Procs, Row
<1>16. ASSUME NEW w \in Watchers, WatcherThrows(w) PROVE AckedInv'
  BY <1>16 DEF WatcherThrows, StoreThrows, Stored, Done, TypeOK, PublishInv, AckedInv,
     Procs, Row
<1>17. ASSUME NEW w \in QueueWriters \cup Watchers, WriterCrash(w) PROVE AckedInv'
  BY <1>17 DEF WriterCrash, Done, TypeOK, PublishInv, AckedInv, Procs, Row
<1>18. CASE ClearActiveRun
  BY <1>18 DEF ClearActiveRun, TypeOK, PublishInv, AckedInv, Procs, Row
<1>19. CASE HubRestart
  BY <1>19 DEF HubRestart, TypeOK, PublishInv, AckedInv, Procs, Row
<1>20. CASE UNCHANGED vars
  BY <1>20 DEF vars, TypeOK, PublishInv, AckedInv, Procs, Row
<1>. QED
  BY <1>1, <1>2, <1>3, <1>4, <1>5, <1>6, <1>7, <1>8, <1>9, <1>10,
     <1>11, <1>12, <1>13, <1>14, <1>15, <1>16, <1>17, <1>18, <1>19, <1>20
  DEF Next, HubStep, QueueStep, WatcherStep

-----------------------------------------------------------------------------
(* Numbering: steps that do not concern the hub, then each hub step.       *)

\* The hub's part of the state is as before; foreign rows may have arrived.
HubUntouched == /\ HubRows' = HubRows /\ rows \subseteq rows'
                /\ collided' = collided /\ counter' = counter
                /\ \A t \in HubTasks : pc'[t] = pc[t] /\ num'[t] = num[t]

\* Web and worker steps do not touch what the hub numbered.
LEMMA ForeignStep ==
  ASSUME TypeOK, TypeOK',
         \/ \E w \in QueueWriters : QueueStep(w)
         \/ \E w \in Watchers : WatcherStep(w)
         \/ \E w \in QueueWriters \cup Watchers : WriterCrash(w)
         \/ UNCHANGED vars
  PROVE  HubUntouched
<1>1. ASSUME NEW w \in QueueWriters, QueueStep(w) PROVE HubUntouched
  <2>1. Row(w).ev[1] \notin HubTasks
    BY ProcsAssumption DEF Row, Ev
  <2>2. rows' = rows \/ rows' = rows \cup {Row(w)}
    BY <1>1 DEF QueueStep, QueueRead, QueueRetry, QueueInsert, QueueInsertThrows,
       StoreThrows, Stored
  <2>3. HubRows' = HubRows /\ rows \subseteq rows'
    BY <2>1, <2>2 DEF HubRows, IsHub
  <2>4. \A t \in HubTasks : pc'[t] = pc[t] /\ num'[t] = num[t]
    BY <1>1, ProcsAssumption DEF QueueStep, QueueRead, QueueRetry, QueueInsert,
       QueueInsertThrows,
       ReadsMaxPlusOne, Done, TypeOK, Procs
  <2>5. QED
    BY <1>1, <2>3, <2>4 DEF HubUntouched, QueueStep, QueueRead, QueueRetry, QueueInsert,
       QueueInsertThrows
<1>2. ASSUME NEW w \in Watchers, WatcherStep(w) PROVE HubUntouched
  <2>1. Row(w).ev[1] \notin HubTasks
    BY ProcsAssumption DEF Row, Ev
  <2>2. rows' = rows \/ rows' = rows \cup {Row(w)}
    BY <1>2 DEF WatcherStep, WatcherRead, WatcherInsert, WatcherPublish, WatcherThrows,
       StoreThrows, Stored
  <2>3. HubRows' = HubRows /\ rows \subseteq rows'
    BY <2>1, <2>2 DEF HubRows, IsHub
  <2>4. \A t \in HubTasks : pc'[t] = pc[t] /\ num'[t] = num[t]
    BY <1>2, ProcsAssumption DEF WatcherStep, WatcherRead, WatcherInsert, WatcherPublish,
       WatcherThrows,
       ReadsMaxPlusOne, Done, TypeOK, Procs
  <2>5. QED
    BY <1>2, <2>3, <2>4 DEF HubUntouched, WatcherStep, WatcherRead, WatcherInsert,
       WatcherPublish, WatcherThrows
<1>3. ASSUME NEW w \in QueueWriters \cup Watchers, WriterCrash(w) PROVE HubUntouched
  BY <1>3, ProcsAssumption DEF HubUntouched, HubRows, IsHub, WriterCrash, Done, TypeOK,
     Procs
<1>4. CASE UNCHANGED vars
  BY <1>4 DEF HubUntouched, HubRows, IsHub, vars
<1>5. QED
  BY <1>1, <1>2, <1>3, <1>4

\* So they keep the numbering sound.
LEMMA UntouchedStep == Sound /\ HubUntouched => Sound'
<1> SUFFICES ASSUME Sound, HubUntouched PROVE Sound'
  OBVIOUS
<1>1. SeedInv'
  BY DEF Sound, HubUntouched, SeedInv, NumberedUpTo, InFlight
<1>2. ReservedInv'
  BY DEF Sound, HubUntouched, ReservedInv
<1>3. CounterInv'
  BY DEF Sound, HubUntouched, CounterInv, NumberedUpTo
<1>4. ForeignCause' /\ OneLoss' /\ TaskOrder'
  BY DEF Sound, HubUntouched, ForeignCause, OneLoss, TaskOrder, IsHub
<1>5. QED
  BY <1>1, <1>2, <1>3, <1>4 DEF Sound

\* A cached counter hands out a number above all the hub's numbers.
LEMMA WarmSound ==
  ASSUME TypeOK, Sound, NEW t \in HubTasks, NextWarm(t)
  PROVE  Sound'
<1>1. counter \in Nat /\ NumberedUpTo(counter)
  BY DEF NextWarm, TypeOK, Sound, CounterInv
<1>2. \A r \in HubRows : r.seq \in Nat
  BY DEF HubRows, TypeOK
<1>3. \A c \in collided : c.seq \in Nat
  BY DEF TypeOK
<1>4. HubRows' = HubRows /\ collided' = collided /\ counter' = counter + 1
  BY DEF NextWarm, HubRows, IsHub
<1>5. \A u \in HubTasks : u # t => pc'[u] = pc[u] /\ num'[u] = num[u]
  BY DEF NextWarm, TypeOK, Procs
<1>6. pc'[t] = "insert" /\ num'[t] = counter + 1
  BY DEF NextWarm, TypeOK, Procs
<1>7. SeedInv'
  BY <1>1, <1>5, <1>6, NoSeqAssumption DEF Sound, SeedInv
<1>8. \A u \in HubTasks : pc[u] = "insert" => num[u] <= counter /\ num[u] \in Nat
  BY <1>1, NoSeqAssumption DEF Sound, ReservedInv, TypeOK, Procs
<1>9. ReservedInv'
  BY <1>1, <1>2, <1>3, <1>4, <1>5, <1>6, <1>8 DEF Sound, ReservedInv, NumberedUpTo
<1>10. CounterInv'
  BY <1>1, <1>2, <1>3, <1>4 DEF CounterInv, NumberedUpTo
<1>11. ForeignCause' /\ OneLoss' /\ TaskOrder'
  BY DEF NextWarm, Sound, ForeignCause, OneLoss, TaskOrder, HubRows, IsHub
<1>12. QED
  BY <1>7, <1>9, <1>10, <1>11 DEF Sound

\* A seed that begins with no other hub task in flight is alone.
LEMMA ColdSound ==
  ASSUME TypeOK, Sound, NEW t \in HubTasks, NextCold(t), ~overlap'
  PROVE  Sound'
<1>1. \A u \in HubTasks : ~InFlight(u)
  BY DEF NextCold
<1>2. \A u \in HubTasks : u # t => pc'[u] = pc[u] /\ ~InFlight(u)'
  BY <1>1 DEF NextCold, TypeOK, Procs, InFlight
<1>3. pc'[t] = "cold" /\ counter' = NoSeq
  BY DEF NextCold, TypeOK, Procs
<1>4. SeedInv'
  BY <1>2, <1>3 DEF SeedInv, InFlight
<1>5. ReservedInv'
  BY <1>2, <1>3 DEF ReservedInv, InFlight
<1>6. CounterInv' /\ ForeignCause' /\ OneLoss' /\ TaskOrder'
  BY <1>3 DEF NextCold, Sound, CounterInv, ForeignCause, OneLoss, TaskOrder, HubRows, IsHub
<1>7. QED
  BY <1>4, <1>5, <1>6 DEF Sound

\* The maximum read bounds everything the hub numbered: refused numbers too, for
\* the row that refused them is in the table.
LEMMA SeedReadSound ==
  ASSUME TypeOK, Sound, NEW t \in HubTasks, SeedRead(t), ~overlap'
  PROVE  Sound'
<1>1. PICK m \in {0} \cup Seqs : IsMaxSeq(m) /\ num' = [num EXCEPT ![t] = m]
  BY DEF SeedRead
<1>2. NumberedUpTo(m)
  <2>1. \A r \in rows : r.seq <= m
    BY <1>1 DEF IsMaxSeq, Seqs
  <2>2. QED
    BY <2>1 DEF NumberedUpTo, HubRows, Sound, ForeignCause
<1>3. /\ pc'[t] = "seed" /\ num'[t] = m
      /\ \A u \in HubTasks : u # t => pc'[u] = pc[u] /\ num'[u] = num[u]
  BY <1>1 DEF SeedRead, TypeOK, Procs
<1>4. NumberedUpTo(m)'
  BY <1>2, <1>1 DEF SeedRead, NumberedUpTo, HubRows, IsHub
<1>5. counter' = NoSeq /\ \A u \in HubTasks : u # t => ~InFlight(u) /\ ~InFlight(u)'
  BY <1>3 DEF SeedRead, Sound, SeedInv, InFlight
<1>6. SeedInv'
  BY <1>1, <1>3, <1>4, <1>5 DEF SeedInv, InFlight, NumberedUpTo, HubRows, IsHub
<1>7. ReservedInv'
  BY <1>3, <1>5 DEF ReservedInv, InFlight
<1>8. CounterInv' /\ ForeignCause' /\ OneLoss' /\ TaskOrder'
  BY <1>5 DEF SeedRead, Sound, CounterInv, ForeignCause, OneLoss, TaskOrder, HubRows, IsHub
<1>9. QED
  BY <1>6, <1>7, <1>8 DEF Sound

\* The number after that maximum is new.
LEMMA SeedSetSound ==
  ASSUME TypeOK, Sound, NEW t \in HubTasks, SeedSet(t)
  PROVE  Sound'
<1>1. num[t] \in Nat /\ NumberedUpTo(num[t]) /\ \A u \in HubTasks : u # t => ~InFlight(u)
  BY DEF SeedSet, TypeOK, Procs, Sound, SeedInv
<1>2. /\ pc'[t] = "insert" /\ num'[t] = num[t] + 1 /\ counter' = num[t] + 1
      /\ \A u \in HubTasks : u # t => pc'[u] = pc[u]
  BY DEF SeedSet, TypeOK, Procs
<1>3. (\A r \in HubRows : r.seq \in Nat) /\ \A c \in collided : c.seq \in Nat
  BY DEF HubRows, TypeOK
<1>4. HubRows' = HubRows /\ collided' = collided
  BY DEF SeedSet, HubRows, IsHub
<1>5. SeedInv'
  BY <1>1, <1>2 DEF SeedInv, InFlight
<1>6. ReservedInv'
  BY <1>1, <1>2, <1>3, <1>4 DEF ReservedInv, InFlight, NumberedUpTo
<1>7. CounterInv'
  BY <1>1, <1>2, <1>3, <1>4 DEF CounterInv, NumberedUpTo
<1>8. ForeignCause' /\ OneLoss' /\ TaskOrder'
  BY <1>4 DEF SeedSet, Sound, ForeignCause, OneLoss, TaskOrder, IsHub
<1>9. QED
  BY <1>5, <1>6, <1>7, <1>8 DEF Sound

\* A hub insert, whether or not it reports success.
LEMMA StoredSound ==
  ASSUME TypeOK, TypeOK', TableInv, FreshInv, Sound,
         NEW t \in HubTasks, pc[t] = "insert", Stored(t),
         collided' = collided, counter' = counter,
         pc'[t] \in {"publish", "idle"},
         \A u \in HubTasks : u # t => pc'[u] = pc[u] /\ num'[u] = num[u]
  PROVE  Sound'
<1>1. HubRows' = HubRows \cup {Row(t)} /\ rows \subseteq rows'
  BY DEF Stored, HubRows, IsHub, Row, Ev
<1>2. Row(t).seq = num[t] /\ Row(t).ev[1] = t /\ Row(t).ev[2] = ops[t] /\ num[t] \in Nat /\ ops[t] \in Nat
  BY DEF Row, Ev, TypeOK, Procs
<1>3. \A r \in HubRows : r.seq \in Nat /\ r.ev[2] \in Nat /\ r \in rows
  BY DEF HubRows, TypeOK, Events
<1>4. SeedInv'
  BY DEF Sound, SeedInv, InFlight
<1>5. ReservedInv'
  BY <1>1, <1>2 DEF Sound, ReservedInv
<1>6. counter # NoSeq => num[t] <= counter
  BY DEF Sound, ReservedInv
<1>7. CounterInv'
  BY <1>1, <1>2, <1>6 DEF Sound, CounterInv, NumberedUpTo
<1>8. TaskOrder'
  <2>1. \A r \in HubRows : r.ev[1] = t => r.seq < num[t] /\ r.ev[2] <= ops[t]
    BY <1>3 DEF Sound, ReservedInv, TableInv
  <2>2. QED
    BY <1>1, <1>2, <1>3, <2>1 DEF Sound, TaskOrder
<1>9. ForeignCause' /\ OneLoss'
  BY <1>1 DEF Sound, ForeignCause, OneLoss, IsHub
<1>10. QED
  BY <1>4, <1>5, <1>7, <1>8, <1>9 DEF Sound

\* A hub insert that stored nothing: refused by the index, or a fault.
LEMMA RefusedSound ==
  ASSUME TypeOK, Sound, NEW t \in HubTasks, HubInsertThrows(t), rows' = rows
  PROVE  Sound'
<1>1. HubRows' = HubRows /\ counter' = counter
  BY DEF HubInsertThrows, HubRows, IsHub
<1>2. pc'[t] = "idle" /\ \A u \in HubTasks : u # t => pc'[u] = pc[u] /\ num'[u] = num[u]
  BY DEF HubInsertThrows, Done, TypeOK, Procs
<1>3. pc[t] = "insert" /\ InFlight(t) /\ Row(t).seq = num[t]
  BY DEF HubInsertThrows, InFlight, Row
<1>4. \A c \in collided' : c \in collided \/ (c = Row(t) /\ num[t] \in Seqs)
  BY DEF HubInsertThrows
<1>5. SeedInv'
  BY <1>2, <1>3 DEF Sound, SeedInv, InFlight
<1>6. ReservedInv'
  BY <1>1, <1>2, <1>3, <1>4 DEF Sound, ReservedInv
<1>7. CounterInv'
  BY <1>1, <1>3, <1>4 DEF Sound, CounterInv, ReservedInv, NumberedUpTo
<1>8. ForeignCause'
  <2>1. num[t] \in Seqs => \E r \in rows : r.seq = num[t] /\ ~IsHub(r)
    BY <1>3 DEF Sound, ReservedInv, HubRows, Seqs
  <2>2. QED
    BY <1>3, <1>4, <2>1 DEF Sound, ForeignCause, IsHub
<1>9. OneLoss'
  BY <1>3, <1>4 DEF Sound, OneLoss, ReservedInv
<1>10. TaskOrder'
  BY <1>1 DEF Sound, TaskOrder
<1>11. QED
  BY <1>5, <1>6, <1>7, <1>8, <1>9, <1>10 DEF Sound

\* A persist that throws keeps the numbering sound.
LEMMA ThrowsSound ==
  ASSUME TypeOK, TypeOK', TableInv, FreshInv, Sound, NEW t \in HubTasks, HubInsertThrows(t)
  PROVE  Sound'
<1>1. CASE Stored(t)
  <2>1. num[t] \notin Seqs /\ collided' = collided /\ counter' = counter
    BY <1>1 DEF HubInsertThrows, Stored
  <2>2. pc'[t] = "idle" /\ \A u \in HubTasks : u # t => pc'[u] = pc[u] /\ num'[u] = num[u]
    BY DEF HubInsertThrows, Done, TypeOK, Procs
  <2>3. QED
    BY <1>1, <2>1, <2>2, StoredSound DEF HubInsertThrows
<1>2. CASE rows' = rows
  BY <1>2, RefusedSound
<1>3. QED
  BY <1>1, <1>2 DEF HubInsertThrows, StoreThrows

\* A persist that succeeds keeps the numbering sound.
LEMMA InsertSound ==
  ASSUME TypeOK, TypeOK', TableInv, FreshInv, Sound, NEW t \in HubTasks, HubInsert(t)
  PROVE  Sound'
<1>1. pc'[t] = "publish" /\ \A u \in HubTasks : u # t => pc'[u] = pc[u] /\ num'[u] = num[u]
  BY DEF HubInsert, TypeOK, Procs
<1>2. QED
  BY <1>1, StoredSound DEF HubInsert

\* Publishing, or failing to, ends a submission that is already numbered.
LEMMA PublishSound ==
  ASSUME TypeOK, Sound, NEW t \in HubTasks, HubPublish(t) \/ HubPublishThrows(t)
  PROVE  Sound'
<1>1. /\ pc'[t] = "idle" /\ counter' = counter
      /\ \A u \in HubTasks : u # t => pc'[u] = pc[u] /\ num'[u] = num[u]
  BY DEF HubPublish, HubPublishThrows, Done, TypeOK, Procs
<1>2. rows' = rows /\ HubRows' = HubRows /\ collided' = collided
  BY DEF HubPublish, HubPublishThrows, HubRows, IsHub
<1>3. SeedInv'
  BY <1>1, <1>2 DEF Sound, SeedInv, InFlight, NumberedUpTo
<1>4. ReservedInv'
  BY <1>1, <1>2 DEF Sound, ReservedInv
<1>5. CounterInv' /\ ForeignCause' /\ OneLoss' /\ TaskOrder'
  BY <1>1, <1>2 DEF Sound, CounterInv, NumberedUpTo, ForeignCause, OneLoss, TaskOrder, IsHub
<1>6. QED
  BY <1>3, <1>4, <1>5 DEF Sound

\* Dropping the counter, alone or with every hub task.
LEMMA DropSound ==
  ASSUME TypeOK, Sound, ClearActiveRun \/ HubRestart
  PROVE  Sound'
<1>1. counter' = NoSeq /\ rows' = rows /\ HubRows' = HubRows /\ collided' = collided
  BY DEF ClearActiveRun, HubRestart, HubRows, IsHub
<1>2. \A t \in HubTasks : \/ pc'[t] = pc[t] /\ num'[t] = num[t] /\ pc[t] \notin {"cold", "seed"}
                          \/ pc'[t] = "idle"
  BY DEF ClearActiveRun, HubRestart, Sound, SeedInv, Procs
<1>3. SeedInv'
  BY <1>2 DEF SeedInv
<1>4. ReservedInv'
  BY <1>1, <1>2 DEF Sound, ReservedInv
<1>5. CounterInv' /\ ForeignCause' /\ OneLoss' /\ TaskOrder'
  BY <1>1 DEF Sound, CounterInv, ForeignCause, OneLoss, TaskOrder, IsHub
<1>6. QED
  BY <1>3, <1>4, <1>5 DEF Sound

\* Every step that leaves the seeds sound keeps the numbering sound.
LEMMA SoundStep ==
  ASSUME TypeOK, TypeOK', TableInv, FreshInv, ~overlap => Sound, [Next]_vars
  PROVE  ~overlap' => Sound'
<1> SUFFICES ASSUME ~overlap' PROVE Sound'
  OBVIOUS
<1>1. ASSUME NEW t \in HubTasks, HubStep(t) PROVE ~overlap
  BY <1>1 DEF HubStep, NextWarm, NextCold, SeedRead, SeedSet, HubInsert, HubInsertThrows,
     HubPublish, HubPublishThrows
<1>2. ASSUME NEW t \in HubTasks, HubStep(t) PROVE Sound'
  BY <1>1, <1>2, WarmSound, ColdSound, SeedReadSound, SeedSetSound, InsertSound,
     ThrowsSound,
     PublishSound DEF HubStep
<1>3. CASE ClearActiveRun \/ HubRestart
  BY <1>3, DropSound DEF ClearActiveRun, HubRestart
<1>4. CASE \/ \E w \in QueueWriters : QueueStep(w)
           \/ \E w \in Watchers : WatcherStep(w)
           \/ \E w \in QueueWriters \cup Watchers : WriterCrash(w)
           \/ UNCHANGED vars
  <2>1. overlap' = overlap
    BY <1>4 DEF QueueStep, QueueRead, QueueRetry, QueueInsert, QueueInsertThrows,
       WatcherStep,
       WatcherRead, WatcherInsert, WatcherPublish, WatcherThrows, WriterCrash, vars
  <2>2. QED
    BY <1>4, <2>1, ForeignStep, UntouchedStep
<1>5. QED
  BY <1>2, <1>3, <1>4 DEF Next

-----------------------------------------------------------------------------
(* The theorems.                                                           *)

\* Inv holds at the start and every step keeps it.
LEMMA InitInv == Init => Inv
<1> SUFFICES ASSUME Init PROVE Inv
  OBVIOUS
<1>1. TypeOK
  <2>1. channel \in Seq([seq : Nat, ev : Events])
    BY DEF Init
  <2>2. \A p \in Procs : ops[p] = 0 /\ ops[p] <= MaxOps[p]
    BY MaxOpsAssumption DEF Init
  <2>3. tries \in [QueueWriters -> 0..1] /\ ops \in [Procs -> Nat] /\ num \in [Procs -> Nat]
    BY DEF Init
  <2>4. pc \in [Procs -> {"idle", "cold", "seed", "insert", "retry", "publish"}]
    BY DEF Init
  <2>5. QED
    BY <2>1, <2>2, <2>3, <2>4 DEF Init, TypeOK
<1>2. ProcessPoints /\ TableInv /\ FreshInv /\ PublishInv /\ ChannelInv /\ AckedInv /\ TryInv
      /\ RowPerTry
  BY DEF Init, Procs, ProcessPoints, TableInv, FreshInv, PublishInv, ChannelInv, AckedInv,
     TryInv, RowPerTry
<1>3. Sound
  BY DEF Init, Procs, Sound, SeedInv, ReservedInv, CounterInv, ForeignCause, OneLoss,
     TaskOrder,
     HubRows
<1>4. QED
  BY <1>1, <1>2, <1>3 DEF Inv, StoreInv

\* Every step keeps Inv.
LEMMA InvStep == Inv /\ [Next]_vars => Inv'
<1> SUFFICES ASSUME Inv, [Next]_vars PROVE Inv'
  OBVIOUS
<1>1. TypeOK' /\ ProcessPoints'
  BY TypeStep, PointsStep DEF Inv, StoreInv
<1>2. RowsStep /\ OpsGrow
  BY RowsEffect, OpsEffect DEF Inv, StoreInv
<1>3. TableInv' /\ RowPerTry' /\ TryInv'
  BY <1>2, TableStep, RowPerTryStep, TryStep DEF Inv, StoreInv
<1>4. FreshInv' /\ PublishInv' /\ ChannelInv' /\ AckedInv'
  BY FreshStep, PublishStep, ChannelStep, AckedStep DEF Inv, StoreInv
<1>5. ~overlap' => Sound'
  BY <1>1, SoundStep DEF Inv, StoreInv
<1>6. QED
  BY <1>1, <1>3, <1>4, <1>5 DEF Inv, StoreInv

\* Inv is an invariant of the specification.
LEMMA Invariant == Spec => []Inv
  BY InitInv, InvStep, PTL DEF Spec

\* Every variable keeps its type for any number of processes and events.
THEOREM TypeCorrect == Spec => []TypeOK
<1>1. Inv => TypeOK
  BY DEF Inv, StoreInv
<1>2. QED
  BY <1>1, Invariant, PTL

\* Whatever fails or is retried, an event has at most one row for each try: one
\* of the hub or the watcher, two of the queue branch with its single retry.
THEOREM RowsAreTries == Spec => []RowPerTry
<1>1. Inv => RowPerTry
  BY DEF Inv, StoreInv
<1>2. QED
  BY <1>1, Invariant, PTL

\* While seeds are sound, a hub insert is refused only for a foreign row.
THEOREM CollisionsAreForeign == Spec => []CollisionHasForeignCause
<1>1. Inv => CollisionHasForeignCause
  BY DEF Inv, Sound, ForeignCause, CollisionHasForeignCause
<1>2. QED
  BY <1>1, Invariant, PTL

\* While seeds are sound, a foreign row costs the hub at most one event.
THEOREM LossIsBounded == Spec => []OneLossPerForeignRow
<1>1. Inv => OneLossPerForeignRow
  BY DEF Inv, Sound, OneLoss, OneLossPerForeignRow
<1>2. QED
  BY <1>1, Invariant, PTL

\* While seeds are sound, each task's rows are numbered in its own order.
THEOREM TasksStayOrdered == Spec => []TaskOrderKept
<1>1. Inv => TaskOrderKept
  BY DEF Inv, Sound, TaskOrder, TaskOrderKept, HubRows, IsHub
<1>2. QED
  BY <1>1, Invariant, PTL

\* A step of the writers is a step of the abstract log, or changes none of it.
LEMMA LogStep == Inv /\ [Next]_vars => [Log!Next]_<<rows, channel, acked>>
<1> SUFFICES ASSUME Inv, [Next]_vars PROVE [Log!Next]_<<rows, channel, acked>>
  OBVIOUS
<1> DEFINE Same == UNCHANGED <<rows, channel, acked>>
<1>1. ASSUME NEW p \in Procs, Stored(p), acked' = acked \/ acked' = acked \cup {Ev(p)},
             channel' = channel
      PROVE  Log!Next
  <2>1. Row(p) \in Log!Entry /\ Row(p) \in rows' /\ Row(p).ev = Ev(p)
    BY <1>1 DEF Inv, StoreInv, TypeOK, Stored, Row, Ev, Events, Log!Entry
  <2>2. \A r \in rows : r.seq # Row(p).seq
    BY <1>1 DEF Stored, Seqs, Row
  <2>3. Log!Store(Row(p))
    BY <1>1, <2>1, <2>2 DEF Log!Store, Log!Add, Stored
  <2>4. QED
    BY <2>1, <2>3 DEF Log!Next
<1>2. ASSUME NEW p \in Procs, pc[p] = "publish", Published(p), rows' = rows,
             acked' = acked \cup {Ev(p)}
      PROVE  Log!Next
  <2>1. Row(p) \in rows /\ Row(p).ev = Ev(p) /\ \A i \in DOMAIN channel : channel[i] # Row(p)
    BY <1>2 DEF Inv, StoreInv, PublishInv, Row
  <2>2. Log!Broadcast(Row(p))
    BY <1>2, <2>1 DEF Log!Broadcast, Published
  <2>3. QED
    BY <1>2, <2>1, <2>2 DEF Log!Next
<1>3. ASSUME NEW t \in HubTasks, HubStep(t) PROVE Log!Next \/ Same
  <2>1. CASE HubInsert(t) \/ HubInsertThrows(t)
    BY <1>1, <2>1 DEF HubInsert, HubInsertThrows, StoreThrows, Procs
  <2>2. CASE HubPublish(t)
    BY <1>2, <2>2 DEF HubPublish, Procs
  <2>3. CASE NextWarm(t) \/ NextCold(t) \/ SeedRead(t) \/ SeedSet(t) \/ HubPublishThrows(t)
    BY <2>3 DEF NextWarm, NextCold, SeedRead, SeedSet, HubPublishThrows
  <2>4. QED
    BY <1>3, <2>1, <2>2, <2>3 DEF HubStep
<1>4. ASSUME NEW w \in QueueWriters, QueueStep(w) PROVE Log!Next \/ Same
  <2>1. CASE QueueInsert(w) \/ QueueInsertThrows(w)
    BY <1>1, <2>1 DEF QueueInsert, QueueInsertThrows, StoreThrows, Procs
  <2>2. CASE QueueRead(w) \/ QueueRetry(w)
    BY <2>2 DEF QueueRead, QueueRetry
  <2>3. QED
    BY <1>4, <2>1, <2>2 DEF QueueStep
<1>5. ASSUME NEW w \in Watchers, WatcherStep(w) PROVE Log!Next \/ Same
  <2>1. CASE WatcherInsert(w) \/ WatcherThrows(w)
    BY <1>1, <2>1 DEF WatcherInsert, WatcherThrows, StoreThrows, Procs
  <2>2. CASE WatcherPublish(w)
    BY <1>2, <2>2 DEF WatcherPublish, Procs
  <2>3. CASE WatcherRead(w)
    BY <2>3 DEF WatcherRead
  <2>4. QED
    BY <1>5, <2>1, <2>2, <2>3 DEF WatcherStep
<1>6. CASE \/ \E w \in QueueWriters \cup Watchers : WriterCrash(w)
           \/ ClearActiveRun \/ HubRestart \/ UNCHANGED vars
  BY <1>6 DEF WriterCrash, ClearActiveRun, HubRestart, vars
<1>7. QED
  BY <1>3, <1>4, <1>5, <1>6 DEF Next

\* The pipeline implements the append-only log it promises.
THEOREM PipelineImplementsLog == Spec => ImplementsLog
<1>1. Init => Log!Init
  BY DEF Init, Log!Init
<1>2. QED
  BY <1>1, LogStep, Invariant, PTL DEF Spec, ImplementsLog, Log!Spec
=============================================================================
