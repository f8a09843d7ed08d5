------------------------- MODULE RunLifecycleProofs -------------------------
(***************************************************************************)
(* Theorems about RunLifecycle for any number of messages, continues,      *)
(* stops, rounds and agents.                                               *)
(***************************************************************************)
EXTENDS RunLifecycle, TLAPS

-----------------------------------------------------------------------------
(* The inductive invariant.                                                *)

\* A round-table that has not passed its load step is as it was created.
NotYet(r) == pc[r] \in {"new", "queue", "retry", "flip", "start", "load"}
FreshTables == \A r \in Starts : NotYet(r) =>
                  round[r] = 1 /\ listed[r] = {} /\ transcript[r] = << >>

\* The job is active exactly while the worker is at it.
JobInv == job = "active" <=> watcher # "idle"

\* A request that will emit an event, or lose one, before it is over.
Owes(r) == \/ pc[r] \in {"start", "load", "clear", "ask", "answer"}
           \/ pc[r] = "round" /\ round[r] = 1

\* No job is pending that will look at the status again.
Unwatched == job = "none" \/ watcher \in {"publish", "finish"}

\* An executing run that nobody watches, without a lapse, has a request that
\* is going to arm the job.
DebtInv == status = "executing" /\ Unwatched /\ ~lapse => \E r \in Starts : Owes(r)

WatchInv == TypeOK /\ FreshTables /\ JobInv /\ DebtInv

-----------------------------------------------------------------------------
(* Types.                                                                  *)

LEMMA EmitTypes ==
    ASSUME TypeOK, Emits \/ EmitThrows
    PROVE  job' \in {"none", "delayed", "active"} /\ lapse' \in BOOLEAN
  BY DEF TypeOK, Emits, EmitThrows, Reschedule, Arm, ArmIgnored, ArmFails

\* Every step of the model keeps every variable in its type.
LEMMA TypeStep == TypeOK /\ [Next]_vars => TypeOK'
<1> SUFFICES ASSUME TypeOK, [Next]_vars PROVE TypeOK'
  OBVIOUS
<1> USE CountsAssumption DEF TypeOK, Starts, Requests, Goto, TablePoints, runRow, table, history
<1>0. 0 \in 0..RoundCount
  BY CountsAssumption
<1>1. CASE UNCHANGED vars
  BY <1>1 DEF vars
<1>2. ASSUME NEW m \in Messages, MessageRead(m) PROVE TypeOK'
  BY <1>2 DEF MessageRead
<1>3. ASSUME NEW c \in Continues, ContinueRequested(c) PROVE TypeOK'
  BY <1>3 DEF ContinueRequested
<1>4. ASSUME NEW s \in Stops, StopRead(s) PROVE TypeOK'
  BY <1>4 DEF StopRead
<1>5. ASSUME NEW r \in Requests, RequestStep(r) PROVE TypeOK'
  <2>1. CASE r \in Messages /\ MessageQueue(r)
    BY <2>1 DEF MessageQueue, Stored
  <2>7. CASE r \in Messages /\ MessageQueueAgain(r)
    BY <2>7 DEF MessageQueueAgain, Stored
  <2>2. CASE r \in Starts /\ FlipExecuting(r)
    BY <2>2 DEF FlipExecuting
  <2>3. CASE r \in Starts /\ HubStart(r)
    BY <2>3, EmitTypes DEF HubStart, Stored
  <2>4. CASE r \in Starts /\ HubStartFails(r)
    BY <2>4, EmitTypes DEF HubStartFails, Stored
  <2>5. CASE r \in Stops /\ StopWrite(r)
    BY <2>5 DEF StopWrite
  <2>6. CASE r \in Stops /\ StopNotify(r)
    BY <2>6, EmitTypes DEF StopNotify
  <2> QED
    BY <1>5, <2>1, <2>2, <2>3, <2>4, <2>5, <2>6, <2>7 DEF RequestStep
<1>6. ASSUME NEW r \in Requests, RequestDies(r) PROVE TypeOK'
  BY <1>6, EmitTypes DEF RequestDies
<1>7. ASSUME NEW r \in Starts, TableStep(r) PROVE TypeOK'
  <2>1. CASE LoadHistory(r)
    BY <2>1 DEF LoadHistory, Window, Unflagged
  <2>2. CASE BeginRound(r)
    BY <2>2 DEF BeginRound
  <2>3. CASE ListQueued(r)
    BY <2>3 DEF ListQueued, Window, Flagged
  <2>4. CASE ListFails(r)
    BY <2>4 DEF ListFails
  <2>5. CASE ClearQueued(r)
    <3>1. row' \in [Rows -> {"none", "plain", "queued", "cleared"}]
      BY <2>5 DEF ClearQueued
    <3>2. transcript' \in [Starts -> Seq(SUBSET Rows)]
      BY <2>5 DEF ClearQueued
    <3> QED
      BY <2>5, <3>1, <3>2 DEF ClearQueued
  <2>6. CASE Ask(r)
    BY <2>6, EmitTypes DEF Ask
  <2>7. CASE Answer(r)
    <3>1. agent' \in [Starts -> 1..AgentCount]
      <4>1. agent[r] < AgentCount => agent[r] + 1 \in 1..AgentCount
        OBVIOUS
      <4>2. 1 \in 1..AgentCount
        OBVIOUS
      <4> QED
        BY <2>7, <4>1, <4>2 DEF Answer
    <3>2. pc' \in [Requests -> {"new", "queue", "retry", "flip", "start", "cancel", "notify",
                                 "over"} \cup TablePoints]
      BY <2>7 DEF Answer
    <3> QED
      BY <2>7, <3>1, <3>2, EmitTypes DEF Answer
  <2>8. CASE NextRound(r)
    BY <2>8, EmitTypes DEF NextRound
  <2>9. CASE ExitTable(r)
    <3>1. currentRound' \in 0..RoundCount /\ strayRound' \in BOOLEAN
      BY <1>0, <2>9 DEF ExitTable
    <3> QED
      BY <2>9, <3>1 DEF ExitTable
  <2> QED
    BY <1>7, <2>1, <2>2, <2>3, <2>4, <2>5, <2>6, <2>7, <2>8, <2>9 DEF TableStep
<1>8. CASE JobFires
  BY <1>8 DEF JobFires
<1>9. CASE WatcherStep
  <2>1. CASE WatcherRead
    BY <2>1 DEF WatcherRead
  <2>2. CASE WatcherWrite
    BY <1>0, <2>2 DEF WatcherWrite
  <2>3. CASE WatcherPublish
    BY <2>3 DEF WatcherPublish
  <2>4. CASE JobEnds
    BY <2>4 DEF JobEnds
  <2> QED
    BY <1>9, <2>1, <2>2, <2>3, <2>4 DEF WatcherStep
<1>10. CASE HubRestart
  BY <1>10, EmitTypes DEF HubRestart
<1> QED
  BY <1>1, <1>2, <1>3, <1>4, <1>5, <1>6, <1>7, <1>8, <1>9, <1>10 DEF Next

-----------------------------------------------------------------------------
(* The watcher.                                                            *)

\* While the job is locked, whatever an emitter does, its arming is lost; and
\* in any case the job is pending afterwards or the attempt was lost.
LEMMA EmitEffect ==
    ASSUME TypeOK, JobInv, Emits \/ EmitThrows, UNCHANGED watcher
    PROVE  JobInv' /\ ~(Unwatched' /\ ~lapse')
  BY DEF TypeOK, JobInv, Unwatched, Emits, EmitThrows, Reschedule, Arm, ArmIgnored, ArmFails

\* Round-tables are created fresh and start from there.
LEMMA FreshStep == TypeOK /\ FreshTables /\ [Next]_vars => FreshTables'
<1> SUFFICES ASSUME TypeOK, FreshTables, [Next]_vars, NEW q \in Starts, NotYet(q)'
             PROVE  round'[q] = 1 /\ listed'[q] = {} /\ transcript'[q] = << >>
  BY DEF FreshTables
<1> USE DEF TypeOK, FreshTables, NotYet, Starts, Requests, Goto, TablePoints, InFlight,
            runRow, table, history
<1>1. CASE UNCHANGED vars
  BY <1>1 DEF vars
<1>2. ASSUME NEW m \in Messages, MessageRead(m) PROVE NotYet(q) /\ UNCHANGED table
  BY <1>2 DEF MessageRead
<1>3. ASSUME NEW c \in Continues, ContinueRequested(c) PROVE NotYet(q) /\ UNCHANGED table
  BY <1>3 DEF ContinueRequested
<1>4. ASSUME NEW s \in Stops, StopRead(s) PROVE NotYet(q) /\ UNCHANGED table
  BY <1>4 DEF StopRead
<1>5. ASSUME NEW r \in Requests, RequestStep(r) PROVE NotYet(q) /\ UNCHANGED table
  BY <1>5 DEF RequestStep, MessageQueue, MessageQueueAgain, FlipExecuting, HubStart, HubStartFails, StopWrite,
              StopNotify
<1>6. ASSUME NEW r \in Requests, RequestDies(r) PROVE NotYet(q) /\ UNCHANGED table
  BY <1>6 DEF RequestDies
<1>7. ASSUME NEW r \in Starts, TableStep(r)
      PROVE  /\ q # r /\ NotYet(q)
             /\ round'[q] = round[q] /\ listed'[q] = listed[q] /\ transcript'[q] = transcript[q]
  <2>1. CASE LoadHistory(r)
    BY <2>1 DEF LoadHistory
  <2>2. CASE BeginRound(r)
    BY <2>2 DEF BeginRound
  <2>3. CASE ListQueued(r)
    BY <2>3 DEF ListQueued
  <2>4. CASE ListFails(r)
    BY <2>4 DEF ListFails
  <2>5. CASE ClearQueued(r)
    BY <2>5 DEF ClearQueued
  <2>6. CASE Ask(r)
    BY <2>6 DEF Ask
  <2>7. CASE Answer(r)
    BY <2>7 DEF Answer
  <2>8. CASE NextRound(r)
    BY <2>8 DEF NextRound
  <2>9. CASE ExitTable(r)
    BY <2>9 DEF ExitTable
  <2> QED
    BY <1>7, <2>1, <2>2, <2>3, <2>4, <2>5, <2>6, <2>7, <2>8, <2>9 DEF TableStep
<1>8. CASE JobFires
  BY <1>8 DEF JobFires
<1>9. CASE WatcherStep
  BY <1>9 DEF WatcherStep, WatcherRead, WatcherWrite, WatcherPublish, JobEnds
<1>10. CASE HubRestart
  BY <1>10 DEF HubRestart
<1> QED
  BY <1>1, <1>2, <1>3, <1>4, <1>5, <1>6, <1>7, <1>8, <1>9, <1>10 DEF Next

\* A step that leaves job, watcher, lapse and status alone, and takes no
\* request out of its debt.
Indebted == /\ UNCHANGED <<status, job, watcher, lapse>>
            /\ \A q \in Starts : Owes(q) => Owes(q)'

LEMMA DebtKept ==
    ASSUME JobInv, DebtInv, Indebted
    PROVE  JobInv' /\ DebtInv'
  BY DEF JobInv, DebtInv, Unwatched, Indebted

\* A step that arms, or fails to, settles every debt.
LEMMA DebtSettled ==
    ASSUME TypeOK, JobInv, Emits \/ EmitThrows, UNCHANGED watcher
    PROVE  JobInv' /\ DebtInv'
  BY EmitEffect DEF DebtInv

LEMMA WatchStep == WatchInv /\ [Next]_vars => JobInv' /\ DebtInv'
<1> SUFFICES ASSUME TypeOK, FreshTables, JobInv, DebtInv, [Next]_vars PROVE JobInv' /\ DebtInv'
  BY DEF WatchInv
<1> USE DEF TypeOK, Starts, Requests, Goto, TablePoints, runRow, table, history
<1>1. CASE UNCHANGED vars
  BY <1>1 DEF vars, JobInv, DebtInv, Unwatched, Owes
<1>2. ASSUME NEW m \in Messages, MessageRead(m) PROVE JobInv' /\ DebtInv'
  BY <1>2, DebtKept DEF MessageRead, Indebted, Owes
<1>3. ASSUME NEW c \in Continues, ContinueRequested(c) PROVE JobInv' /\ DebtInv'
  BY <1>3, DebtKept DEF ContinueRequested, Indebted, Owes
<1>4. ASSUME NEW s \in Stops, StopRead(s) PROVE JobInv' /\ DebtInv'
  BY <1>4, DebtKept DEF StopRead, Indebted, Owes
<1>5. ASSUME NEW r \in Requests, RequestStep(r) PROVE JobInv' /\ DebtInv'
  <2>1. CASE r \in Messages /\ (MessageQueue(r) \/ MessageQueueAgain(r))
    BY <2>1, DebtKept DEF MessageQueue, MessageQueueAgain, Indebted, Owes
  <2>2. CASE r \in Starts /\ FlipExecuting(r)
    <3>1. Owes(r)'
      BY <2>2 DEF FlipExecuting, Owes
    <3> QED
      BY <2>2, <3>1 DEF FlipExecuting, JobInv, DebtInv
  <2>3. CASE r \in Starts /\ HubStart(r)
    <3>1. CASE r \in Messages
      BY <2>3, <3>1, DebtSettled DEF HubStart
    <3>2. CASE r \notin Messages
      BY <2>3, <3>2, DebtKept DEF HubStart, Indebted, Owes
    <3> QED
      BY <3>1, <3>2
  <2>4. CASE r \in Starts /\ HubStartFails(r)
    BY <2>4, DebtSettled DEF HubStartFails
  <2>5. CASE r \in Stops /\ StopWrite(r)
    BY <2>5 DEF StopWrite, JobInv, DebtInv
  <2>6. CASE r \in Stops /\ StopNotify(r)
    BY <2>6, DebtSettled DEF StopNotify
  <2> QED
    BY <1>5, <2>1, <2>2, <2>3, <2>4, <2>5, <2>6 DEF RequestStep
<1>6. ASSUME NEW r \in Requests, RequestDies(r) PROVE JobInv' /\ DebtInv'
  <2>1. CASE pc[r] = "start"
    BY <1>6, <2>1, DebtSettled DEF RequestDies
  <2>2. CASE pc[r] # "start"
    BY <1>6, <2>2, DebtKept DEF RequestDies, Indebted, Owes
  <2> QED
    BY <2>1, <2>2
<1>7. ASSUME NEW r \in Starts, TableStep(r) PROVE JobInv' /\ DebtInv'
  <2>1. CASE LoadHistory(r)
    BY <2>1, DebtKept DEF LoadHistory, Indebted, Owes, FreshTables, NotYet
  <2>2. CASE BeginRound(r)
    BY <2>2, DebtKept DEF BeginRound, Indebted, Owes
  <2>3. CASE ListQueued(r)
    BY <2>3, DebtKept DEF ListQueued, Indebted, Owes
  <2>4. CASE ListFails(r)
    BY <2>4, DebtKept DEF ListFails, Indebted, Owes
  <2>5. CASE ClearQueued(r)
    BY <2>5, DebtKept DEF ClearQueued, Indebted, Owes
  <2>6. CASE Ask(r)
    BY <2>6, DebtSettled DEF Ask
  <2>7. CASE Answer(r)
    BY <2>7, DebtSettled DEF Answer
  <2>8. CASE NextRound(r)
    BY <2>8, DebtSettled DEF NextRound
  <2>9. CASE ExitTable(r)
    BY <2>9, DebtKept DEF ExitTable, Indebted, Owes
  <2> QED
    BY <1>7, <2>1, <2>2, <2>3, <2>4, <2>5, <2>6, <2>7, <2>8, <2>9 DEF TableStep
<1>8. CASE JobFires
  BY <1>8 DEF JobFires, JobInv, DebtInv, Unwatched
<1>9. CASE WatcherStep
  <2>1. CASE WatcherRead
    BY <2>1 DEF WatcherRead, JobInv, DebtInv, Unwatched
  <2>2. CASE WatcherWrite
    BY <2>2 DEF WatcherWrite, JobInv, DebtInv
  <2>3. CASE WatcherPublish
    BY <2>3 DEF WatcherPublish, JobInv, DebtInv, Unwatched, Owes
  <2>4. CASE JobEnds
    BY <2>4 DEF JobEnds, JobInv, DebtInv, Unwatched, Owes
  <2> QED
    BY <1>9, <2>1, <2>2, <2>3, <2>4 DEF WatcherStep
<1>10. CASE HubRestart
  BY <1>10, DebtSettled DEF HubRestart
<1> QED
  BY <1>1, <1>2, <1>3, <1>4, <1>5, <1>6, <1>7, <1>8, <1>9, <1>10 DEF Next

LEMMA InitWatch == Init => WatchInv
<1> SUFFICES ASSUME Init PROVE WatchInv
  OBVIOUS
<1> USE CountsAssumption DEF Init
<1>1. TypeOK
  <2>1. 0 \in 0..RoundCount /\ 1 \in 1..RoundCount /\ 1 \in 1..AgentCount
    OBVIOUS
  <2>2. transcript \in [Starts -> Seq(SUBSET Rows)]
    OBVIOUS
  <2> QED
    BY <2>1, <2>2 DEF TypeOK, Starts, Requests
<1>2. FreshTables
  BY DEF FreshTables
<1> QED
  BY <1>1, <1>2 DEF WatchInv, JobInv, DebtInv

LEMMA WatchInvariant == Spec => []WatchInv
<1>1. WatchInv /\ [Next]_vars => WatchInv'
  BY TypeStep, FreshStep, WatchStep DEF WatchInv
<1> QED
  BY InitWatch, <1>1, PTL DEF Spec

\* Every variable keeps its type.
THEOREM TypeCorrect == Spec => []TypeOK
<1>1. WatchInv => TypeOK
  BY DEF WatchInv
<1> QED
  BY WatchInvariant, <1>1, PTL

\* A run that is executing while no request or round-table is under way has
\* its idle job pending, or the latest attempt to arm the job was lost: no
\* order of round-tables, stops and worker steps leaves it unwatched.
THEOREM QuietRunsAreWatched == Spec => []QuietRunIsWatched
<1>1. WatchInv => QuietRunIsWatched
  BY DEF WatchInv, DebtInv, Unwatched, QuietRunIsWatched, Quiet, Owes, Requests
<1> QED
  BY WatchInvariant, <1>1, PTL

-----------------------------------------------------------------------------
(* current_round.                                                          *)

LEMMA OwnedStep == TypeOK /\ RoundFieldIsOwned /\ [Next]_vars => RoundFieldIsOwned'
<1> SUFFICES ASSUME TypeOK, RoundFieldIsOwned, [Next]_vars PROVE RoundFieldIsOwned'
  OBVIOUS
<1> USE DEF TypeOK, RoundFieldIsOwned, InFlight, Starts, Requests, Goto, TablePoints,
            runRow, table, history
\* Steps that keep the column, the history and every round-table in flight.
<1> DEFINE Kept == /\ UNCHANGED <<currentRound, strayRound>>
                   /\ \A q \in Starts : InFlight(q) => InFlight(q)'
<1>0. ASSUME Kept PROVE RoundFieldIsOwned'
  BY <1>0
<1>1. CASE UNCHANGED vars
  BY <1>1 DEF vars
<1>2. ASSUME NEW m \in Messages, MessageRead(m) PROVE Kept
  BY <1>2 DEF MessageRead
<1>3. ASSUME NEW c \in Continues, ContinueRequested(c) PROVE Kept
  BY <1>3 DEF ContinueRequested
<1>4. ASSUME NEW s \in Stops, StopRead(s) PROVE Kept
  BY <1>4 DEF StopRead
<1>5. ASSUME NEW r \in Requests, RequestStep(r) PROVE Kept
  BY <1>5 DEF RequestStep, MessageQueue, MessageQueueAgain, FlipExecuting, HubStart, HubStartFails, StopWrite,
              StopNotify
<1>6. ASSUME NEW r \in Requests, RequestDies(r) PROVE Kept
  BY <1>6 DEF RequestDies
<1>7. ASSUME NEW r \in Starts, TableStep(r) PROVE RoundFieldIsOwned'
  <2>1. CASE BeginRound(r)
    <3>1. InFlight(r)'
      BY <2>1 DEF BeginRound
    <3> QED
      BY <3>1
  <2>2. CASE ListFails(r)
    BY <2>2 DEF ListFails
  <2>3. CASE ExitTable(r)
    BY <2>3 DEF ExitTable
  <2>4. CASE LoadHistory(r)
    BY <2>4, <1>0 DEF LoadHistory
  <2>5. CASE ListQueued(r)
    BY <2>5, <1>0 DEF ListQueued
  <2>6. CASE ClearQueued(r)
    BY <2>6, <1>0 DEF ClearQueued
  <2>7. CASE Ask(r) \/ Answer(r) \/ NextRound(r)
    BY <2>7, <1>0 DEF Ask, Answer, NextRound
  <2> QED
    BY <1>7, <2>1, <2>2, <2>3, <2>4, <2>5, <2>6, <2>7 DEF TableStep
<1>8. CASE JobFires
  BY <1>8, <1>0 DEF JobFires
<1>9. CASE WatcherStep
  BY <1>9, <1>0 DEF WatcherStep, WatcherRead, WatcherWrite, WatcherPublish, JobEnds
<1>10. CASE HubRestart
  BY <1>10 DEF HubRestart
<1> QED
  BY <1>0, <1>1, <1>2, <1>3, <1>4, <1>5, <1>6, <1>7, <1>8, <1>9, <1>10 DEF Next

\* A non-null current_round means a round-table in flight, or one that is
\* known to have vanished: overlapping round-tables, restarts and the watcher
\* leave no other way.
THEOREM RoundFieldOwned == Spec => []RoundFieldIsOwned
<1>1. Init => RoundFieldIsOwned
  BY DEF Init, RoundFieldIsOwned
<1> QED
  BY TypeCorrect, OwnedStep, <1>1, PTL DEF Spec

-----------------------------------------------------------------------------
(* Prompts.                                                                *)

\* A message has no row before it is stored, none of a second attempt before
\* that attempt, and one plain row while its own round-table runs.
RowInv == \A m \in Messages :
            /\ pc[m] \in {"new", "queue", "flip", "start"} => row[<<m, 1>>] = "none"
            /\ pc[m] \in {"new", "queue", "retry", "flip", "start"} => row[<<m, 2>>] = "none"
            /\ InFlight(m) => row[<<m, 1>>] = "plain" /\ row[<<m, 2>>] = "none"

Cleared == {w \in Rows : row[w] = "cleared"}
EverQueued == Flagged \cup Cleared

\* Blocks of a round-table's transcript have no row in common.
Disjoint(blocks) == \A i, j \in DOMAIN blocks : i # j => blocks[i] \cap blocks[j] = {}

\* What a round-table shows and has listed, against the flags: history only
\* takes rows without a flag, blocks only rows with one, and unless an update
\* failed the rows of its blocks have lost it.
BlockInv(r) ==
    /\ prior[r] \subseteq Unflagged \ Own(r)
    /\ listed[r] \subseteq EverQueued \ Own(r)
    /\ Injected(r) \subseteq EverQueued \ Own(r)
    /\ prior[r] \cap (listed[r] \cup Injected(r)) = {}
    /\ r \notin keptFlags =>
          /\ Injected(r) \subseteq Cleared
          /\ pc[r] = "clear" => listed[r] \cap Injected(r) = {}
          /\ Disjoint(transcript[r])

PromptInv == RowInv /\ \A r \in Starts : BlockInv(r)

\* A row never loses what it has become, except its flag.
RowsGrow == \A w \in Rows : \/ row'[w] = row[w]
                            \/ row[w] = "none"
                            \/ row[w] = "queued" /\ row'[w] = "cleared"

LEMMA RowsGrowSets ==
    ASSUME RowsGrow
    PROVE  Unflagged \subseteq Unflagged' /\ EverQueued \subseteq EverQueued' /\ Cleared \subseteq Cleared'
  BY DEF RowsGrow, Unflagged, EverQueued, Cleared, Flagged

\* One more block: what is injected grows by it.
LEMMA InjectedGrows ==
    ASSUME TypeOK, NEW r \in Starts, transcript'[r] = Append(transcript[r], listed[r])
    PROVE  /\ Injected(r)' = Injected(r) \cup listed[r]
           /\ Disjoint(transcript[r]) /\ listed[r] \cap Injected(r) = {} => Disjoint(transcript'[r])
<1> DEFINE t == transcript[r]
           n == Len(t)
<1>1. t \in Seq(SUBSET Rows) /\ n \in Nat /\ DOMAIN t = 1..n /\ listed[r] \in SUBSET Rows
  BY DEF TypeOK
<1>2. /\ DOMAIN transcript'[r] = 1..(n + 1)
      /\ \A i \in 1..n : transcript'[r][i] = t[i]
      /\ transcript'[r][n + 1] = listed[r]
  BY <1>1
<1>3. \A i \in 1..(n + 1) : i \in 1..n \/ i = n + 1
  BY <1>1
<1>4. 1..n \subseteq 1..(n + 1) /\ n + 1 \in 1..(n + 1)
  BY <1>1
<1>5. Injected(r)' = Injected(r) \cup listed[r]
  BY <1>1, <1>2, <1>3, <1>4 DEF Injected
<1>6. ASSUME Disjoint(t), listed[r] \cap Injected(r) = {} PROVE Disjoint(transcript'[r])
  <2>1. \A i \in 1..n : t[i] \subseteq Injected(r)
    BY <1>1 DEF Injected
  <2> QED
    BY <1>1, <1>2, <1>3, <1>6, <2>1 DEF Disjoint
<1> QED
  BY <1>5, <1>6

\* A step that leaves a round-table's variables alone keeps its part.
Untouched(q) == /\ prior'[q] = prior[q] /\ listed'[q] = listed[q] /\ transcript'[q] = transcript[q]
                /\ q \in keptFlags <=> q \in keptFlags'
                /\ pc'[q] = "clear" => pc[q] = "clear"

LEMMA BlockKept ==
    ASSUME NEW q \in Starts, BlockInv(q), RowsGrow, Untouched(q)
    PROVE  BlockInv(q)'
<1>1. Injected(q)' = Injected(q)
  BY DEF Untouched, Injected
<1> QED
  BY <1>1, RowsGrowSets DEF BlockInv, Untouched

LEMMA RowsApart ==
    /\ \A m \in Messages : <<m, 1>> \in Rows /\ <<m, 2>> \in Rows
    /\ \A m, k \in Messages : /\ <<m, 1>> # <<k, 2>> /\ <<m, 2>> # <<k, 1>>
                              /\ m # k => <<m, 1>> # <<k, 1>> /\ <<m, 2>> # <<k, 2>>
  BY DEF Rows

LEMMA StoredRow ==
    ASSUME TypeOK, NEW w \in Rows, NEW flag
    PROVE  \A v \in Rows : Stored(w, flag)[v] = IF v = w THEN flag ELSE row[v]
  BY DEF TypeOK, Stored

\* An attempt to store message r: the row it is for does not exist yet.
Attempt(r, i, flag, p) ==
    /\ row' \in {row, Stored(<<r, i>>, flag)}
    /\ pc' = [pc EXCEPT ![r] = p]
    /\ i = 1 => pc[r] \in {"queue", "start"}
    /\ i = 2 => pc[r] = "retry"
    /\ p \in {"over", "retry", "load"}
    /\ p # "over" => i = 1
    /\ p = "load" => row' = Stored(<<r, 1>>, "plain")

LEMMA RowWritten ==
    ASSUME TypeOK, RowInv, NEW r \in Messages, NEW i \in {1, 2}, NEW flag, NEW p,
           Attempt(r, i, flag, p)
    PROVE  RowsGrow /\ RowInv'
<1> USE DEF Attempt
<1>1. <<r, i>> \in Rows /\ <<r, 1>> \in Rows /\ <<r, 2>> \in Rows
  BY DEF Rows
<1>2. row[<<r, i>>] = "none" /\ (i = 1 => row[<<r, 2>>] = "none")
  BY DEF RowInv
<1>3. \A v \in Rows : v # <<r, i>> => row'[v] = row[v]
  BY <1>1, StoredRow
<1>4. RowsGrow
  BY <1>2, <1>3 DEF RowsGrow
<1>5. ASSUME NEW m \in Messages, m # r PROVE row'[<<m, 1>>] = row[<<m, 1>>] /\ row'[<<m, 2>>] = row[<<m, 2>>]
  <2>1. <<m, 1>> # <<r, i>> /\ <<m, 2>> # <<r, i>>
    BY <1>5, RowsApart
  <2> QED
    BY <1>3, <2>1, RowsApart
<1>6. r \in Requests /\ pc'[r] = p /\ \A q \in Requests : q # r => pc'[q] = pc[q]
  BY DEF Goto, TypeOK, Requests, Starts
<1>7. i = 1 => row'[<<r, 2>>] = "none"
  BY <1>1, <1>2, <1>3, RowsApart
<1>8. p = "load" => row'[<<r, 1>>] = "plain"
  BY <1>1, StoredRow
<1>9. ASSUME NEW m \in Messages
      PROVE  /\ pc'[m] \in {"new", "queue", "flip", "start"} => row'[<<m, 1>>] = "none"
             /\ pc'[m] \in {"new", "queue", "retry", "flip", "start"} => row'[<<m, 2>>] = "none"
             /\ InFlight(m)' => row'[<<m, 1>>] = "plain" /\ row'[<<m, 2>>] = "none"
  <2>1. CASE m = r
    BY <1>6, <1>7, <1>8, <2>1 DEF InFlight, TablePoints
  <2>2. CASE m # r
    <3>1. pc'[m] = pc[m]
      BY <1>6, <2>2 DEF Requests, Starts
    <3> QED
      BY <1>5, <2>2, <3>1 DEF RowInv, InFlight
  <2> QED
    BY <2>1, <2>2
<1> QED
  BY <1>4, <1>9 DEF RowInv

LEMMA RowQueued ==
    ASSUME TypeOK, RowInv, NEW r \in Messages, MessageQueue(r) \/ MessageQueueAgain(r)
    PROVE  RowsGrow /\ RowInv'
<1>1. CASE MessageQueue(r)
  <2>1. Attempt(r, 1, "queued", "over") \/ Attempt(r, 1, "queued", "retry")
    BY <1>1 DEF MessageQueue, Attempt, Goto
  <2> QED
    BY <2>1, RowWritten
<1>2. CASE MessageQueueAgain(r)
  <2>1. Attempt(r, 2, "queued", "over")
    BY <1>2 DEF MessageQueueAgain, Attempt, Goto
  <2> QED
    BY <2>1, RowWritten
<1> QED
  BY <1>1, <1>2

LEMMA RowStarted ==
    ASSUME TypeOK, RowInv, NEW r \in Messages, HubStart(r) \/ HubStartFails(r)
    PROVE  RowsGrow /\ RowInv'
<1>1. CASE HubStart(r)
  <2>1. Attempt(r, 1, "plain", "load")
    BY <1>1 DEF HubStart, Attempt, Goto
  <2> QED
    BY <2>1, RowWritten
<1>2. CASE HubStartFails(r)
  <2>1. Attempt(r, 1, "plain", "over")
    BY <1>2 DEF HubStartFails, Attempt, Goto
  <2> QED
    BY <2>1, RowWritten
<1> QED
  BY <1>1, <1>2

\* Rows are stored for requests that have none, and flags are only cleared.
LEMMA RowStep == TypeOK /\ RowInv /\ [Next]_vars => RowsGrow /\ RowInv'
<1> SUFFICES ASSUME TypeOK, RowInv, [Next]_vars PROVE RowsGrow /\ RowInv'
  OBVIOUS
<1> USE RequestsAssumption DEF TypeOK, RowInv, RowsGrow, InFlight, Starts, Requests, Goto, TablePoints,
            runRow, table, history
<1>1. CASE UNCHANGED vars
  BY <1>1 DEF vars
<1>2. ASSUME NEW m \in Messages, MessageRead(m) PROVE RowsGrow /\ RowInv'
  BY <1>2 DEF MessageRead
<1>3. ASSUME NEW c \in Continues, ContinueRequested(c) PROVE RowsGrow /\ RowInv'
  BY <1>3 DEF ContinueRequested
<1>4. ASSUME NEW s \in Stops, StopRead(s) PROVE RowsGrow /\ RowInv'
  BY <1>4 DEF StopRead
<1>5. ASSUME NEW r \in Requests, RequestStep(r) PROVE RowsGrow /\ RowInv'
  <2>1. CASE r \in Messages /\ (MessageQueue(r) \/ MessageQueueAgain(r))
    BY <2>1, RowQueued
  <2>2. CASE r \in Starts /\ FlipExecuting(r)
    BY <2>2 DEF FlipExecuting
  <2>3. CASE r \in Starts /\ (HubStart(r) \/ HubStartFails(r))
    <3>1. CASE r \in Messages
      BY <2>3, <3>1, RowStarted
    <3>2. CASE r \notin Messages
      BY <2>3, <3>2 DEF HubStart, HubStartFails
    <3> QED
      BY <3>1, <3>2
  <2>5. CASE r \in Stops /\ (StopWrite(r) \/ StopNotify(r))
    BY <2>5 DEF StopWrite, StopNotify
  <2> QED
    BY <1>5, <2>1, <2>2, <2>3, <2>5 DEF RequestStep
<1>6. ASSUME NEW r \in Requests, RequestDies(r) PROVE RowsGrow /\ RowInv'
  BY <1>6 DEF RequestDies
<1>7. ASSUME NEW r \in Starts, TableStep(r) PROVE RowsGrow /\ RowInv'
  <2>1. CASE ClearQueued(r)
    <3>1. \A m \in Messages : <<m, 1>> \in Rows /\ <<m, 2>> \in Rows
      BY DEF Rows
    <3> QED
      BY <2>1, <3>1 DEF ClearQueued, Flagged
  <2>2. CASE LoadHistory(r) \/ BeginRound(r) \/ ListFails(r)
    BY <2>2 DEF LoadHistory, BeginRound, ListFails
  <2>3. CASE ListQueued(r)
    BY <2>3 DEF ListQueued
  <2>4. CASE Ask(r) \/ NextRound(r) \/ ExitTable(r)
    BY <2>4 DEF Ask, NextRound, ExitTable
  <2>5. CASE Answer(r)
    BY <2>5 DEF Answer
  <2> QED
    BY <1>7, <2>1, <2>2, <2>3, <2>4, <2>5 DEF TableStep
<1>8. CASE JobFires
  BY <1>8 DEF JobFires
<1>9. CASE WatcherStep
  BY <1>9 DEF WatcherStep, WatcherRead, WatcherWrite, WatcherPublish, JobEnds
<1>10. CASE HubRestart
  BY <1>10 DEF HubRestart
<1> QED
  BY <1>1, <1>2, <1>3, <1>4, <1>5, <1>6, <1>7, <1>8, <1>9, <1>10 DEF Next

\* The three steps of a round-table that change what it shows.
LEMMA LoadBlock ==
    ASSUME TypeOK, FreshTables, NEW r \in Starts, BlockInv(r), LoadHistory(r)
    PROVE  BlockInv(r)'
<1>1. \E h \in SUBSET (Unflagged \ Own(r)) : prior' = [prior EXCEPT ![r] = h]
  BY DEF LoadHistory, Window
<1>2. prior'[r] \subseteq Unflagged \ Own(r) /\ listed[r] = {} /\ transcript[r] = << >>
  BY <1>1 DEF TypeOK, LoadHistory, FreshTables, NotYet
<1>3. UNCHANGED <<row, listed, transcript, keptFlags>> /\ pc'[r] = "round"
  BY DEF LoadHistory, TypeOK, Goto, Requests, history
<1>4. Injected(r)' = {}
  BY <1>2, <1>3 DEF Injected
<1> QED
  BY <1>2, <1>3, <1>4 DEF BlockInv, Unflagged, EverQueued, Flagged, Cleared, Disjoint

LEMMA ListBlock ==
    ASSUME TypeOK, RowInv, NEW r \in Starts, BlockInv(r), ListQueued(r)
    PROVE  BlockInv(r)'
<1>1. PICK found \in SUBSET Flagged : listed' = [listed EXCEPT ![r] = found]
  BY DEF ListQueued, Window
<1>2. listed'[r] = found
  BY <1>1 DEF TypeOK
<1>3. UNCHANGED <<row, prior, transcript, keptFlags>>
  BY DEF ListQueued, history
<1>4. Own(r) \cap Flagged = {}
  <2>1. InFlight(r)
    BY DEF ListQueued, InFlight, TablePoints
  <2>2. \A w \in Own(r) \cap Rows : r \in Messages /\ w \in {<<r, 1>>, <<r, 2>>}
    BY DEF Own, Rows
  <2> QED
    BY <2>1, <2>2 DEF RowInv, Flagged
<1>5. Flagged \cap Unflagged = {} /\ Flagged \cap Cleared = {}
  BY DEF Flagged, Unflagged, Cleared
<1>6. Injected(r)' = Injected(r) /\ Unflagged' = Unflagged /\ Flagged' = Flagged /\ Cleared' = Cleared
  BY <1>3 DEF Injected, Unflagged, Flagged, Cleared
<1> QED
  BY <1>1, <1>2, <1>3, <1>4, <1>5, <1>6 DEF BlockInv, EverQueued

LEMMA ClearBlock ==
    ASSUME TypeOK, NEW r \in Starts, BlockInv(r), RowsGrow, ClearQueued(r)
    PROVE  BlockInv(r)'
<1>1. transcript'[r] = Append(transcript[r], listed[r]) /\ UNCHANGED <<prior, listed>>
      /\ pc[r] = "clear" /\ pc'[r] = "ask"
  BY DEF ClearQueued, TypeOK, Goto, Requests
<1>2. Injected(r)' = Injected(r) \cup listed[r]
  BY <1>1, InjectedGrows
<1>3. CASE r \in keptFlags'
  BY <1>1, <1>2, <1>3, RowsGrowSets DEF BlockInv
<1>4. CASE r \notin keptFlags'
  <2>1. r \notin keptFlags /\ row' = [w \in Rows |-> IF w \in Flagged THEN "cleared" ELSE row[w]]
    BY <1>4 DEF ClearQueued
  <2>2. EverQueued \subseteq Cleared'
    BY <2>1 DEF EverQueued, Cleared, Flagged
  <2>3. Disjoint(transcript[r])'
    BY <1>1, <2>1, InjectedGrows DEF BlockInv
  <2> QED
    BY <1>1, <1>2, <2>1, <2>2, <2>3, RowsGrowSets DEF BlockInv
<1> QED
  BY <1>3, <1>4

LEMMA BlockStep ==
    ASSUME TypeOK, FreshTables, PromptInv, RowsGrow, [Next]_vars, NEW q \in Starts
    PROVE  BlockInv(q)'
<1> USE DEF TypeOK, Untouched, Starts, Requests, Goto, TablePoints, runRow, table, history
<1>0. Untouched(q) => BlockInv(q)'
  BY BlockKept DEF PromptInv
<1>1. CASE UNCHANGED vars
  BY <1>0, <1>1 DEF vars
<1>2. ASSUME NEW m \in Messages, MessageRead(m) PROVE BlockInv(q)'
  BY <1>0, <1>2 DEF MessageRead
<1>3. ASSUME NEW c \in Continues, ContinueRequested(c) PROVE BlockInv(q)'
  BY <1>0, <1>3 DEF ContinueRequested
<1>4. ASSUME NEW s \in Stops, StopRead(s) PROVE BlockInv(q)'
  BY <1>0, <1>4 DEF StopRead
<1>5. ASSUME NEW r \in Requests, RequestStep(r) PROVE BlockInv(q)'
  BY <1>0, <1>5 DEF RequestStep, MessageQueue, MessageQueueAgain, FlipExecuting, HubStart, HubStartFails, StopWrite,
                    StopNotify
<1>6. ASSUME NEW r \in Requests, RequestDies(r) PROVE BlockInv(q)'
  BY <1>0, <1>6 DEF RequestDies
<1>7. ASSUME NEW r \in Starts, TableStep(r) PROVE BlockInv(q)'
  <2>1. CASE LoadHistory(r)
    <3>1. q # r => Untouched(q)
      BY <2>1 DEF LoadHistory
    <3> QED
      BY <1>0, <2>1, <3>1, LoadBlock DEF PromptInv
  <2>2. CASE ListQueued(r)
    <3>1. q # r => Untouched(q)
      BY <2>2 DEF ListQueued
    <3> QED
      BY <1>0, <2>2, <3>1, ListBlock DEF PromptInv
  <2>3. CASE ClearQueued(r)
    <3>1. q # r => Untouched(q)
      BY <2>3 DEF ClearQueued
    <3> QED
      BY <1>0, <2>3, <3>1, ClearBlock DEF PromptInv
  <2>4. CASE BeginRound(r) \/ ListFails(r)
    BY <1>0, <2>4 DEF BeginRound, ListFails
  <2>5. CASE Ask(r) \/ NextRound(r) \/ ExitTable(r)
    BY <1>0, <2>5 DEF Ask, NextRound, ExitTable
  <2>6. CASE Answer(r)
    BY <1>0, <2>6 DEF Answer
  <2> QED
    BY <1>7, <2>1, <2>2, <2>3, <2>4, <2>5, <2>6 DEF TableStep
<1>8. CASE JobFires
  BY <1>0, <1>8 DEF JobFires
<1>9. CASE WatcherStep
  BY <1>0, <1>9 DEF WatcherStep, WatcherRead, WatcherWrite, WatcherPublish, JobEnds
<1>10. CASE HubRestart
  BY <1>0, <1>10 DEF HubRestart, InFlight
<1> QED
  BY <1>1, <1>2, <1>3, <1>4, <1>5, <1>6, <1>7, <1>8, <1>9, <1>10 DEF Next

LEMMA PromptInvariant == Spec => []PromptInv
<1>1. Init => PromptInv
  <2> SUFFICES ASSUME Init PROVE PromptInv
    OBVIOUS
  <2>1. RowInv
    BY RowsApart DEF Init, RowInv, InFlight, TablePoints, Starts, Requests
  <2>2. \A r \in Starts : BlockInv(r)
    BY DEF Init, BlockInv, Injected, Disjoint
  <2> QED
    BY <2>1, <2>2 DEF PromptInv
<1>2. WatchInv /\ PromptInv /\ [Next]_vars => PromptInv'
  BY RowStep, BlockStep DEF PromptInv, WatchInv
<1> QED
  BY <1>1, <1>2, WatchInvariant, PTL DEF Spec

\* No prompt carries a row twice, or a row of the message its round-table was
\* started with, whichever requests are queued and retried and whichever
\* round-tables overlap, clear or vanish; only a failed flag update lets a
\* block be repeated.
THEOREM PromptsDoNotRepeat == Spec => []NoRowTwiceInAPrompt
<1>1. PromptInv => NoRowTwiceInAPrompt
  BY DEF PromptInv, BlockInv, NoRowTwiceInAPrompt, Disjoint
<1> QED
  BY PromptInvariant, <1>1, PTL

-----------------------------------------------------------------------------
(* What remains true of the two promises that runs refute.                 *)

\* A stop is written between the worker's check and its update.
StopSlipsIn == watcher = "write" /\ \E s \in Stops : StopWrite(s)

\* Without such a stop the worker's reading is current when it writes.
ReadingHolds == watcher = "write" => status = "executing"

LEMMA ReadingStep ==
    TypeOK /\ ReadingHolds /\ [Next]_vars /\ ~StopSlipsIn => ReadingHolds'
<1> SUFFICES ASSUME TypeOK, ReadingHolds, [Next]_vars, ~StopSlipsIn, (watcher = "write")'
             PROVE  (status = "executing")'
  BY DEF ReadingHolds
<1> USE DEF ReadingHolds, runRow, table, history
<1> DEFINE Same == UNCHANGED <<status, watcher>>
<1>1. CASE UNCHANGED vars
  BY <1>1 DEF vars
<1>2. ASSUME NEW m \in Messages, MessageRead(m) PROVE Same
  BY <1>2 DEF MessageRead
<1>3. ASSUME NEW c \in Continues, ContinueRequested(c) PROVE Same
  BY <1>3 DEF ContinueRequested
<1>4. ASSUME NEW s \in Stops, StopRead(s) PROVE Same
  BY <1>4 DEF StopRead
<1>5. ASSUME NEW r \in Requests, RequestStep(r) PROVE Same \/ status' = "executing"
  <2>1. CASE StopWrite(r) /\ r \in Stops
    <3>1. watcher = "write"
      BY <2>1 DEF StopWrite
    <3> QED
      BY <2>1, <3>1 DEF StopSlipsIn
  <2> QED
    BY <1>5, <2>1 DEF RequestStep, MessageQueue, MessageQueueAgain, FlipExecuting, HubStart, HubStartFails, StopNotify
<1>6. ASSUME NEW r \in Requests, RequestDies(r) PROVE Same
  BY <1>6 DEF RequestDies
<1>7. ASSUME NEW r \in Starts, TableStep(r) PROVE Same
  BY <1>7 DEF TableStep, LoadHistory, BeginRound, ListQueued, ListFails, ClearQueued, Ask,
              Answer, NextRound, ExitTable
<1>8. CASE JobFires
  BY <1>8 DEF JobFires
<1>9. CASE WatcherStep
  BY <1>9 DEF WatcherStep, WatcherRead, WatcherWrite, WatcherPublish, JobEnds
<1>10. CASE HubRestart
  BY <1>10 DEF HubRestart
<1> QED
  BY <1>1, <1>2, <1>3, <1>4, <1>5, <1>6, <1>7, <1>8, <1>9, <1>10 DEF Next

\* Only the worker completes a run, and it does so to one it has read.
LEMMA CompletedByWatcher ==
    TypeOK /\ ReadingHolds /\ [Next]_vars => (status = "cancelled" => status' # "completed")
<1> SUFFICES ASSUME TypeOK, ReadingHolds, [Next]_vars, status = "cancelled"
             PROVE  status' # "completed"
  OBVIOUS
<1> USE DEF runRow, table, history
<1> DEFINE Kept == status' \in {"cancelled", "executing"}
<1>1. CASE UNCHANGED vars
  BY <1>1 DEF vars
<1>2. ASSUME NEW m \in Messages, MessageRead(m) PROVE Kept
  BY <1>2 DEF MessageRead
<1>3. ASSUME NEW c \in Continues, ContinueRequested(c) PROVE Kept
  BY <1>3 DEF ContinueRequested
<1>4. ASSUME NEW s \in Stops, StopRead(s) PROVE Kept
  BY <1>4 DEF StopRead
<1>5. ASSUME NEW r \in Requests, RequestStep(r) PROVE Kept
  BY <1>5 DEF RequestStep, MessageQueue, MessageQueueAgain, FlipExecuting, HubStart, HubStartFails, StopWrite,
              StopNotify
<1>6. ASSUME NEW r \in Requests, RequestDies(r) PROVE Kept
  BY <1>6 DEF RequestDies
<1>7. ASSUME NEW r \in Starts, TableStep(r) PROVE Kept
  BY <1>7 DEF TableStep, LoadHistory, BeginRound, ListQueued, ListFails, ClearQueued, Ask,
              Answer, NextRound, ExitTable
<1>8. CASE JobFires
  BY <1>8 DEF JobFires
<1>9. CASE WatcherStep
  BY <1>9 DEF WatcherStep, WatcherRead, WatcherWrite, WatcherPublish, JobEnds, ReadingHolds
<1>10. CASE HubRestart
  BY <1>10 DEF HubRestart
<1> QED
  BY <1>1, <1>2, <1>3, <1>4, <1>5, <1>6, <1>7, <1>8, <1>9, <1>10 DEF Next

\* The worker completes a cancelled run (worker.ts, "atomic check before write")
\* only if the stop was written between its SELECT and its UPDATE: whatever
\* else overlaps, restarts or fails, a cancelled run is not completed.
THEOREM OnlyTheRaceCompletes ==
    Spec /\ [][~StopSlipsIn]_vars => WatcherSparesCancelled
<1>1. Init => ReadingHolds
  BY DEF Init, ReadingHolds
<1>2. ReadingHolds /\ UNCHANGED vars => ReadingHolds'
  BY DEF ReadingHolds, vars
<1>3. TypeOK /\ ReadingHolds /\ [Next]_vars /\ [~StopSlipsIn]_vars => ReadingHolds'
  BY <1>2, ReadingStep
<1>4. TypeOK /\ ReadingHolds /\ [Next]_vars => [status = "cancelled" => status' # "completed"]_vars
  BY CompletedByWatcher
<1> QED
  BY TypeCorrect, <1>1, <1>3, <1>4, PTL DEF Spec, WatcherSparesCancelled

-----------------------------------------------------------------------------

\* A row is stored with the flag only while a round that will list it is ahead.
QueuedInTime ==
    \A w \in Rows : row[w] # "queued" /\ row'[w] = "queued" => AListIsAhead

\* No round-table is lost, and no flag update fails.
HubWorks ==
    /\ ~HubRestart
    /\ \A r \in Starts : ~ListFails(r) /\ (ClearQueued(r) => (Flagged = {})')

\* Round-table r will list the flagged messages, or has and is about to clear them.
WillClear(r) ==
    /\ InFlight(r)
    /\ round[r] < RoundCount \/ (round[r] > 1 /\ pc[r] \in {"round", "list"}) \/ pc[r] = "clear"

FlaggedIsCleared == Flagged # {} => \E r \in Starts : WillClear(r)

\* A step that flags nothing and takes no round-table from its clearing.
LEMMA ClearingKept ==
    ASSUME FlaggedIsCleared, Flagged' \subseteq Flagged,
           \A q \in Starts : WillClear(q) => WillClear(q)'
    PROVE  FlaggedIsCleared'
  BY DEF FlaggedIsCleared

\* The steps of one round-table, and what they leave of the others.
LEMMA TableClears ==
    ASSUME TypeOK, LongRun = FALSE, FlaggedIsCleared, HubWorks, NEW r \in Starts, TableStep(r)
    PROVE  FlaggedIsCleared'
<1> USE CountsAssumption DEF TypeOK, WillClear, InFlight, Starts, Requests, Goto, TablePoints,
        runRow, table, history
<1> DEFINE Others == /\ Flagged' = Flagged
                     /\ \A q \in Starts : q # r /\ WillClear(q) => WillClear(q)'
<1>1. CASE LoadHistory(r)
  BY <1>1, ClearingKept DEF LoadHistory, Flagged
<1>2. CASE BeginRound(r)
  BY <1>2, ClearingKept DEF BeginRound, Flagged
<1>3. CASE ListQueued(r)
  <2>1. Others
    BY <1>3 DEF ListQueued, Flagged
  <2>2. CASE Flagged = {}
    BY <2>1, <2>2 DEF FlaggedIsCleared
  <2>3. CASE Flagged # {}
    <3>1. pc'[r] = "clear"
      BY <1>3, <2>3 DEF ListQueued, Window
    <3>2. WillClear(r)'
      BY <3>1
    <3> QED
      BY <3>2 DEF FlaggedIsCleared
  <2> QED
    BY <2>2, <2>3
<1>4. CASE ListFails(r)
  BY <1>4 DEF HubWorks
<1>5. CASE ClearQueued(r)
  BY <1>5 DEF HubWorks, FlaggedIsCleared
<1>6. CASE Ask(r)
  BY <1>6, ClearingKept DEF Ask, Flagged
<1>7. CASE Answer(r)
  BY <1>7, ClearingKept DEF Answer, Flagged
<1>8. CASE NextRound(r)
  <2>1. Others
    BY <1>8 DEF NextRound, Flagged
  <2>2. WillClear(r)'
    <3>1. round'[r] = round[r] + 1 /\ pc'[r] = "round" /\ round[r] \in Nat /\ round[r] > 0
      BY <1>8 DEF NextRound
    <3> QED
      BY <3>1
  <2> QED
    BY <2>1, <2>2 DEF FlaggedIsCleared
<1>9. CASE ExitTable(r)
  <2>1. Others
    BY <1>9 DEF ExitTable, Flagged
  <2>2. ~WillClear(r)
    BY <1>9 DEF ExitTable
  <2> QED
    BY <2>1, <2>2 DEF FlaggedIsCleared
<1> QED
  BY <1>1, <1>2, <1>3, <1>4, <1>5, <1>6, <1>7, <1>8, <1>9 DEF TableStep

LEMMA ClearingStep ==
    TypeOK /\ FlaggedIsCleared /\ LongRun = FALSE /\ [Next]_vars /\ [QueuedInTime /\ HubWorks]_vars
        => FlaggedIsCleared'
<1>0. CASE UNCHANGED vars
  BY <1>0 DEF FlaggedIsCleared, Flagged, WillClear, InFlight, vars
<1> SUFFICES ASSUME TypeOK, FlaggedIsCleared, LongRun = FALSE, Next, QueuedInTime, HubWorks
             PROVE  FlaggedIsCleared'
  BY <1>0
<1> USE DEF TypeOK, WillClear, InFlight, Starts, Requests, Goto, TablePoints, runRow, table, history
\* Steps before a round-table's own, and the worker's.
<1> DEFINE Outside == \A q \in Starts : WillClear(q) => WillClear(q)'
<1>1. ASSUME UNCHANGED row, Outside PROVE FlaggedIsCleared'
  BY <1>1, ClearingKept DEF Flagged
<1>2. ASSUME NEW m \in Messages, MessageRead(m) PROVE UNCHANGED row /\ Outside
  BY <1>2 DEF MessageRead
<1>3. ASSUME NEW c \in Continues, ContinueRequested(c) PROVE UNCHANGED row /\ Outside
  BY <1>3 DEF ContinueRequested
<1>4. ASSUME NEW s \in Stops, StopRead(s) PROVE UNCHANGED row /\ Outside
  BY <1>4 DEF StopRead
<1>5. ASSUME NEW r \in Requests, RequestStep(r) PROVE FlaggedIsCleared'
  <2>1. Outside
    BY <1>5 DEF RequestStep, MessageQueue, MessageQueueAgain, FlipExecuting, HubStart, HubStartFails, StopWrite,
                StopNotify
  <2>2. CASE r \in Messages /\ (MessageQueue(r) \/ MessageQueueAgain(r))
    <3>1. CASE \E w \in Rows : row[w] # "queued" /\ row'[w] = "queued"
      <4>1. PICK q \in Starts : /\ InFlight(q)
                                /\ round[q] < RoundCount \/ (round[q] > 1 /\ pc[q] \in {"round", "list"})
        BY <3>1, <2>2 DEF QueuedInTime, AListIsAhead
      <4>2. WillClear(q)'
        BY <4>1, <2>1
      <4> QED
        BY <4>2 DEF FlaggedIsCleared
    <3>2. CASE ~\E w \in Rows : row[w] # "queued" /\ row'[w] = "queued"
      <4>1. Flagged' \subseteq Flagged
        BY <3>2 DEF Flagged
      <4> QED
        BY <4>1, <2>1, ClearingKept
    <3> QED
      BY <3>1, <3>2
  <2>3. CASE r \in Starts /\ (FlipExecuting(r) \/ HubStart(r) \/ HubStartFails(r))
    <3>1. Flagged' \subseteq Flagged
      BY <2>3 DEF FlipExecuting, HubStart, HubStartFails, Stored, Flagged
    <3> QED
      BY <3>1, <2>1, ClearingKept
  <2>4. CASE r \in Stops /\ (StopWrite(r) \/ StopNotify(r))
    BY <2>4, <2>1, <1>1 DEF StopWrite, StopNotify
  <2> QED
    BY <1>5, <2>2, <2>3, <2>4 DEF RequestStep
<1>6. ASSUME NEW r \in Requests, RequestDies(r) PROVE UNCHANGED row /\ Outside
  BY <1>6 DEF RequestDies
<1>7. ASSUME NEW r \in Starts, TableStep(r) PROVE FlaggedIsCleared'
  BY <1>7, TableClears
<1>8. CASE JobFires
  BY <1>8, <1>1 DEF JobFires
<1>9. CASE WatcherStep
  BY <1>9, <1>1 DEF WatcherStep, WatcherRead, WatcherWrite, WatcherPublish, JobEnds
<1>10. CASE HubRestart
  BY <1>10 DEF HubWorks
<1> QED
  BY <1>1, <1>2, <1>3, <1>4, <1>5, <1>6, <1>7, <1>8, <1>9, <1>10 DEF Next

\* The flag is not left behind on a message (messages/route.ts, "the next round
\* picks it up") if each is stored while a list is ahead, the hub keeps its
\* round-tables and clears what it lists, and the run fits the windows of its
\* queries: whatever overlaps, once all is quiet no message is flagged.
THEOREM NoneStaysFlagged ==
    ASSUME LongRun = FALSE
    PROVE  Spec /\ [][QueuedInTime /\ HubWorks]_vars => [](Quiet => Flagged = {})
<1>1. Init => FlaggedIsCleared
  BY DEF Init, FlaggedIsCleared, Flagged
<1>2. FlaggedIsCleared => (Quiet => Flagged = {})
  BY DEF FlaggedIsCleared, Quiet, WillClear, InFlight, TablePoints, Requests
<1>3. TypeOK /\ FlaggedIsCleared /\ [Next]_vars /\ [QueuedInTime /\ HubWorks]_vars
        => FlaggedIsCleared'
  BY ClearingStep
<1> QED
  BY TypeCorrect, <1>1, <1>2, <1>3, PTL DEF Spec
=============================================================================
