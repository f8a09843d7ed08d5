---------------------------- MODULE RunLifecycle ----------------------------
(***************************************************************************)
(* One run from its first message on: the web routes that start, continue, *)
(* stop it or queue messages, the hub's round-tables, and the idle-timeout *)
(* worker.  They share two columns of the runs row (status, current_round),*)
(* the queuedForNextRound flag on event rows, and one BullMQ job.          *)
(*                                                                         *)
(* A start request and the round-table it spawns are one thread of control *)
(* here, named by the request.  Every database statement, bridge call and  *)
(* job hand-over is a step of its own; each may fail.  How an event gets   *)
(* its number, and how it can be lost over it, is EventLog.tla.            *)
(***************************************************************************)
EXTENDS Integers, Sequences, FiniteSets

CONSTANTS
    Messages,       \* POST messages requests, one per user message
    Continues,      \* POST continue requests
    Stops,          \* POST stop requests
    RoundCount,     \* runs.round_count
    AgentCount,     \* agents asked per round (mo, jarvis, herman)
    LongRun         \* TRUE: the run outgrows the windows of the hub's queries

Starts == Messages \cup Continues
Requests == Starts \cup Stops

\* Rows of the events table that hold a message: what its first, and its
\* second, attempt to insert it left.
Rows == Messages \X {1, 2}
Own(r) == {r} \X {1, 2}

ASSUME RequestsAssumption ==
    /\ Messages \cap Continues = {}
    /\ Starts \cap Stops = {}
ASSUME CountsAssumption == RoundCount \in Nat \ {0} /\ AgentCount \in Nat \ {0}
ASSUME LongRunAssumption == LongRun \in BOOLEAN

VARIABLES
    status,         \* runs.status
    currentRound,   \* runs.current_round, 0 for NULL
    row,            \* each such row: absent, or what became of its queued flag
    pc,             \* where each request, then its round-table, is
    round, agent,   \* loop counters of each round-table
    prior,          \* rows shown in its PRIOR CONVERSATION block
    listed,         \* rows found by its consumeQueuedMessages
    transcript,     \* queued blocks pushed on its in-run transcript
    job,            \* the run's idle-timeout job in BullMQ
    watcher,        \* where the worker is with the active job
    lapse,          \* history: the latest attempt to arm the job was lost
    strayRound,     \* history: the round-table owning current_round vanished
    keptFlags       \* history: round-tables whose flag update failed

runRow == <<status, currentRound>>
table == <<round, agent, prior, listed, transcript>>
history == <<lapse, strayRound, keptFlags>>
vars == <<status, currentRound, row, pc, round, agent, prior, listed, transcript,
          job, watcher, lapse, strayRound, keptFlags>>

\* Program points of a round-table inside the hub.
TablePoints == {"load", "round", "list", "clear", "ask", "answer", "next"}
InFlight(r) == pc[r] \in TablePoints

TypeOK ==
    /\ status \in {"executing", "completed", "cancelled"}
    /\ currentRound \in 0..RoundCount
    /\ row \in [Rows -> {"none", "plain", "queued", "cleared"}]
    /\ pc \in [Requests -> {"new", "queue", "retry", "flip", "start", "cancel", "notify",
                             "over"} \cup TablePoints]
    /\ round \in [Starts -> 1..RoundCount]
    /\ agent \in [Starts -> 1..AgentCount]
    /\ prior \in [Starts -> SUBSET Rows]
    /\ listed \in [Starts -> SUBSET Rows]
    /\ transcript \in [Starts -> Seq(SUBSET Rows)]
    /\ job \in {"none", "delayed", "active"}
    /\ watcher \in {"idle", "read", "write", "publish", "finish"}
    /\ lapse \in BOOLEAN
    /\ strayRound \in BOOLEAN
    /\ keptFlags \subseteq Starts

\* The row as POST /api/runs inserts it; the run's first message is a start
\* like any other.
Init ==
    /\ status = "executing"
    /\ currentRound = 0
    /\ row = [w \in Rows |-> "none"]
    /\ pc = [r \in Requests |-> "new"]
    /\ round = [r \in Starts |-> 1]
    /\ agent = [r \in Starts |-> 1]
    /\ prior = [r \in Starts |-> {}]
    /\ listed = [r \in Starts |-> {}]
    /\ transcript = [r \in Starts |-> << >>]
    /\ job = "none"
    /\ watcher = "idle"
    /\ lapse = TRUE
    /\ strayRound = FALSE
    /\ keptFlags = {}

-----------------------------------------------------------------------------
(* Shared pieces.                                                          *)

Goto(r, p) == pc' = [pc EXCEPT ![r] = p]

\* queue.remove then queue.add under the run's jobId.  A job being processed
\* is locked: remove is refused and add of an existing id does nothing.
Arm == /\ job # "active"
       /\ job' = "delayed"
       /\ lapse' = FALSE
ArmIgnored == /\ job = "active"
              /\ UNCHANGED job
              /\ lapse' = TRUE
\* Redis fails before, or between, the two calls; the error is logged.
ArmFails == /\ job' \in IF job = "delayed" THEN {"delayed", "none"} ELSE {job}
            /\ lapse' = (lapse \/ job' # "delayed")
Reschedule == Arm \/ ArmIgnored \/ ArmFails

\* persistAndPublish: stored, published, and the watcher put off; or it throws
\* and nothing is put off.
Emits == Reschedule
EmitThrows == /\ UNCHANGED job
              /\ lapse' = (lapse \/ job # "delayed")

-----------------------------------------------------------------------------
(* Web: POST messages, POST continue, POST stop.                           *)

\* Read current_round once; everything after relies on that reading.
MessageRead(m) ==
    /\ pc[m] = "new"
    /\ Goto(m, IF currentRound # 0 THEN "queue" ELSE "flip")
    /\ UNCHANGED <<runRow, row, table, job, watcher, history>>

Stored(w, flag) == [row EXCEPT ![w] = flag]

\* A round is in flight: the message is stored with the flag.  The insert may
\* throw with or without the row written (its number was taken, or only the
\* answer was lost); either way it is tried once more.
MessageQueue(m) ==
    /\ pc[m] = "queue"
    /\ \/ row' = Stored(<<m, 1>>, "queued") /\ Goto(m, "over")
       \/ row' \in {row, Stored(<<m, 1>>, "queued")} /\ Goto(m, "retry")
    /\ UNCHANGED <<runRow, table, job, watcher, history>>

\* The second attempt takes a number of its own, so nothing tells it that the
\* first one may have left a row; if it throws, too, the answer is 500.
MessageQueueAgain(m) ==
    /\ pc[m] = "retry"
    /\ row' \in {row, Stored(<<m, 2>>, "queued")}
    /\ Goto(m, "over")
    /\ UNCHANGED <<runRow, table, job, watcher, history>>

ContinueRequested(c) ==
    /\ pc[c] = "new"
    /\ Goto(c, "flip")
    /\ UNCHANGED <<runRow, row, table, job, watcher, history>>

\* status = 'executing', whatever it was.
FlipExecuting(r) ==
    /\ pc[r] = "flip"
    /\ status' = "executing"
    /\ Goto(r, "start")
    /\ UNCHANGED <<currentRound, row, table, job, watcher, history>>

\* handleRunStart: the user event is stored unless this is a continue, then
\* the round-table runs in the background.
HubStart(r) ==
    /\ pc[r] = "start"
    /\ IF r \in Messages
         THEN row' = Stored(<<r, 1>>, "plain") /\ Emits
         ELSE UNCHANGED <<row, job, lapse>>
    /\ Goto(r, "load")
    /\ UNCHANGED <<runRow, table, watcher, strayRound, keptFlags>>

\* The hub is unreachable or the persist throws (with or without the row
\* written): the caller gets 500, the status stays.
HubStartFails(r) ==
    /\ pc[r] = "start"
    /\ IF r \in Messages THEN row' \in {row, Stored(<<r, 1>>, "plain")} ELSE UNCHANGED row
    /\ EmitThrows
    /\ Goto(r, "over")
    /\ UNCHANGED <<runRow, table, watcher, strayRound, keptFlags>>

\* assertTransition(run.status, 'cancelled'), else 409.
StopRead(s) ==
    /\ pc[s] = "new"
    /\ Goto(s, IF status = "executing" THEN "cancel" ELSE "over")
    /\ UNCHANGED <<runRow, row, table, job, watcher, history>>

StopWrite(s) ==
    /\ pc[s] = "cancel"
    /\ status' = "cancelled"
    /\ Goto(s, "notify")
    /\ UNCHANGED <<currentRound, row, table, job, watcher, history>>

\* hub /runs/stop: the cancelled event.  Round-tables are not told.
StopNotify(s) ==
    /\ pc[s] = "notify"
    /\ Emits \/ EmitThrows
    /\ Goto(s, "over")
    /\ UNCHANGED <<runRow, row, table, watcher, strayRound, keptFlags>>

\* The request stops half done: the process dies, a statement throws, or the
\* attachments of a message are refused before its flip.
RequestDies(r) ==
    /\ pc[r] \in {"queue", "retry", "flip", "start", "cancel", "notify"}
    /\ IF pc[r] = "start" THEN EmitThrows ELSE UNCHANGED <<job, lapse>>
    /\ Goto(r, "over")
    /\ UNCHANGED <<runRow, row, table, watcher, strayRound, keptFlags>>

-----------------------------------------------------------------------------
(* Hub: runRoundTable.                                                     *)

\* Variant: the history query shows flagged rows as well.
UnflaggedShowsAll == {w \in Rows : row[w] # "none"}

\* Rows a history query shows: stored, and not flagged for a later round.
Unflagged == {w \in Rows : row[w] \in {"plain", "cleared"}}
Flagged == {w \in Rows : row[w] = "queued"}

\* EventStore.list returns the latest rows up to a limit: what it shows of a
\* set of messages.
Window(set) == IF LongRun THEN SUBSET set ELSE {set}

\* PRIOR CONVERSATION (30 rows, 80,000 characters) is loaded once, before
\* round 1; on error it is empty.
LoadHistory(r) ==
    /\ pc[r] = "load"
    /\ \E h \in Window(Unflagged \ Own(r)) \cup {{}} : prior' = [prior EXCEPT ![r] = h]
    /\ Goto(r, "round")
    /\ UNCHANGED <<runRow, row, round, agent, listed, transcript, job, watcher, history>>

\* current_round = round, best effort.
BeginRound(r) ==
    /\ pc[r] = "round"
    /\ currentRound' \in {round[r], currentRound}
    /\ Goto(r, IF round[r] > 1 THEN "list" ELSE "ask")
    /\ UNCHANGED <<status, row, table, job, watcher, history>>

\* consumeQueuedMessages, first half: which of the latest 100 rows carry the
\* flag?
ListQueued(r) ==
    /\ pc[r] = "list"
    /\ \E found \in Window(Flagged) :
          /\ listed' = [listed EXCEPT ![r] = found]
          /\ Goto(r, IF found = {} THEN "ask" ELSE "clear")
    /\ UNCHANGED <<runRow, row, round, agent, prior, transcript, job, watcher, history>>

\* That query is the one statement of the loop without a catch: the whole
\* round-table is abandoned and current_round keeps its value.
ListFails(r) ==
    /\ pc[r] = "list"
    /\ strayRound' = TRUE
    /\ Goto(r, "over")
    /\ UNCHANGED <<runRow, row, table, job, watcher, lapse, keptFlags>>

\* Second half: UPDATE every row that carries the flag now, then push what
\* was listed before.  A failed UPDATE is logged.
ClearQueued(r) ==
    /\ pc[r] = "clear"
    /\ \/ /\ row' = [w \in Rows |-> IF w \in Flagged THEN "cleared" ELSE row[w]]
          /\ UNCHANGED keptFlags
       \/ /\ keptFlags' = keptFlags \cup {r}
          /\ UNCHANGED row
    /\ transcript' = [transcript EXCEPT ![r] = Append(@, listed[r])]
    /\ Goto(r, "ask")
    /\ UNCHANGED <<runRow, round, agent, prior, listed, job, watcher, lapse, strayRound>>

\* presence_thinking_start, then the bridge call: the prompt has the block of
\* prior rows, those of the transcript, and the round-table's own message.
Ask(r) ==
    /\ pc[r] = "ask"
    /\ Emits \/ EmitThrows
    /\ Goto(r, "answer")
    /\ UNCHANGED <<runRow, row, table, watcher, strayRound, keptFlags>>

\* Variant: an agent that fails is asked again until it answers.
AnswerRetried(r) ==
    /\ pc[r] = "answer"
    /\ Emits \/ EmitThrows
    /\ \/ Goto(r, "ask") /\ UNCHANGED agent
       \/ Goto(r, "ask") /\ agent[r] < AgentCount /\ agent' = [agent EXCEPT ![r] = @ + 1]
       \/ Goto(r, "next") /\ agent[r] = AgentCount /\ agent' = [agent EXCEPT ![r] = 1]
    /\ UNCHANGED <<runRow, row, round, prior, listed, transcript, watcher, strayRound,
                   keptFlags>>

\* The reply or a failure marker, then presence_thinking_end; errors of
\* either are caught, so the loop goes on.
Answer(r) ==
    /\ pc[r] = "answer"
    /\ Emits \/ EmitThrows
    /\ IF agent[r] < AgentCount
         THEN agent' = [agent EXCEPT ![r] = @ + 1] /\ Goto(r, "ask")
         ELSE agent' = [agent EXCEPT ![r] = 1] /\ Goto(r, "next")
    /\ UNCHANGED <<runRow, row, round, prior, listed, transcript, watcher, strayRound,
                   keptFlags>>

\* Between rounds: the round-k -> round-(k+1) event and the pause.
NextRound(r) ==
    /\ pc[r] = "next"
    /\ round[r] < RoundCount
    /\ Emits \/ EmitThrows
    /\ round' = [round EXCEPT ![r] = @ + 1]
    /\ Goto(r, "round")
    /\ UNCHANGED <<runRow, row, agent, prior, listed, transcript, watcher, strayRound,
                   keptFlags>>

\* Variant: the loop is left without touching the runs row.
ExitTableKeepsRound(r) ==
    /\ pc[r] = "next"
    /\ round[r] = RoundCount
    /\ Goto(r, "over")
    /\ UNCHANGED <<runRow, row, table, job, watcher, history>>

\* After the last round: current_round = NULL, best effort.
ExitTable(r) ==
    /\ pc[r] = "next"
    /\ round[r] = RoundCount
    /\ \/ currentRound' = 0 /\ strayRound' = FALSE
       \/ UNCHANGED currentRound /\ strayRound' = TRUE
    /\ Goto(r, "over")
    /\ UNCHANGED <<status, row, table, job, watcher, lapse, keptFlags>>

\* The hub restarts: its round-tables are gone, nothing is cleaned up.
HubRestart ==
    /\ \E r \in Starts : InFlight(r)
    /\ pc' = [r \in Requests |-> IF InFlight(r) THEN "over" ELSE pc[r]]
    /\ EmitThrows
    /\ strayRound' = TRUE
    /\ UNCHANGED <<runRow, row, table, watcher, keptFlags>>

-----------------------------------------------------------------------------
(* Worker: the idle-timeout job.                                           *)

\* The delay has passed without a reschedule.  A bridge call may outlast it.
JobFires ==
    /\ job = "delayed"
    /\ job' = "active"
    /\ watcher' = "read"
    /\ UNCHANGED <<runRow, row, pc, table, history>>

\* Variant: a run with a round under way is left alone, too.
WatcherReadSparesRounds ==
    /\ watcher = "read"
    /\ watcher' = IF status = "executing" /\ currentRound = 0 THEN "write" ELSE "finish"
    /\ UNCHANGED <<runRow, row, pc, table, job, history>>

\* SELECT status; terminal runs are left alone.
WatcherRead ==
    /\ watcher = "read"
    /\ watcher' = IF status = "executing" THEN "write" ELSE "finish"
    /\ UNCHANGED <<runRow, row, pc, table, job, history>>

\* UPDATE ... WHERE id = runId: the status is not looked at again.
WatcherWrite ==
    /\ watcher = "write"
    /\ status' = "completed"
    /\ currentRound' = 0
    /\ strayRound' = FALSE
    /\ watcher' = "publish"
    /\ UNCHANGED <<row, pc, table, job, lapse, keptFlags>>

WatcherPublish ==
    /\ watcher = "publish"
    /\ watcher' = "finish"
    /\ UNCHANGED <<runRow, row, pc, table, job, history>>

\* The job is done, or failed on a database error, and leaves the queue.
JobEnds ==
    /\ \/ watcher = "finish" /\ UNCHANGED lapse
       \/ watcher \in {"read", "write"} /\ lapse' = TRUE
    /\ watcher' = "idle"
    /\ job' = "none"
    /\ UNCHANGED <<runRow, row, pc, table, strayRound, keptFlags>>

-----------------------------------------------------------------------------

RequestStep(r) ==
    \/ r \in Messages /\ (MessageQueue(r) \/ MessageQueueAgain(r))
    \/ r \in Starts /\ (FlipExecuting(r) \/ HubStart(r) \/ HubStartFails(r))
    \/ r \in Stops /\ (StopWrite(r) \/ StopNotify(r))

TableStep(r) ==
    \/ LoadHistory(r) \/ BeginRound(r)
    \/ ListQueued(r) \/ ListFails(r) \/ ClearQueued(r)
    \/ Ask(r) \/ Answer(r) \/ NextRound(r) \/ ExitTable(r)

WatcherStep == WatcherRead \/ WatcherWrite \/ WatcherPublish \/ JobEnds

Next ==
    \/ \E m \in Messages : MessageRead(m)
    \/ \E c \in Continues : ContinueRequested(c)
    \/ \E s \in Stops : StopRead(s)
    \/ \E r \in Requests : RequestStep(r) \/ RequestDies(r)
    \/ \E r \in Starts : TableStep(r)
    \/ JobFires
    \/ WatcherStep
    \/ HubRestart

Spec == Init /\ [][Next]_vars

\* Handlers and round-tables run to their end (every bridge call has a
\* timeout), a delayed job becomes due, and the worker finishes its job.
\* Users need not do anything.
Fairness ==
    /\ \A r \in Requests : WF_vars(RequestStep(r))
    /\ \A r \in Starts : WF_vars(TableStep(r))
    /\ WF_vars(JobFires)
    /\ WF_vars(WatcherStep)

FairSpec == Spec /\ Fairness

-----------------------------------------------------------------------------
(* Properties                                                              *)

\* Nothing of the run is under way in the web server or the hub.
Quiet == \A r \in Requests : pc[r] \in {"new", "over"}

\* An executing run that is otherwise quiet is being watched: its idle job is
\* pending, unless the last attempt to arm it was itself lost (Redis or
\* database failure, crash, or a job still held by the worker).
QuietRunIsWatched == status = "executing" /\ Quiet => job # "none" \/ lapse

\* current_round is NULL whenever no round-table is in flight, unless the one
\* that owned it crashed or could not write: the messages route reads a
\* non-null value as "a round is running" and queues.
RoundFieldIsOwned ==
    currentRound # 0 => strayRound \/ \E r \in Starts : InFlight(r)

\* Rows that some block of the transcript has brought into the prompt.
Injected(r) == UNION {transcript[r][i] : i \in DOMAIN transcript[r]}

\* No prompt carries a row twice, nor a second time what its round-table was
\* started with: what the history block shows is not prepended again, whatever
\* was queued, retried, cleared or stranded in between, and only a failed flag
\* update lets a later round prepend it a second time.  A queued message is in
\* a prompt twice only where the retry of its insert left two rows of it.
NoRowTwiceInAPrompt ==
    \A r \in Starts :
        /\ prior[r] \cap Injected(r) = {}
        /\ Own(r) \cap (prior[r] \cup Injected(r)) = {}
        /\ r \notin keptFlags =>
              \A i, j \in DOMAIN transcript[r] :
                  i # j => transcript[r][i] \cap transcript[r][j] = {}

\* What the comment in the worker says of its check ("atomic check before
\* write"): it completes executing runs only.
WatcherSparesCancelled == [][status = "cancelled" => status' # "completed"]_vars

\* A run does not stay executing: it is completed or cancelled in the end,
\* unless arming its watcher was lost.
ExecutingEnds == status = "executing" ~> status # "executing" \/ lapse

\* Every request, with its round-table, comes to an end whatever fails.
RequestsEnd == \A r \in Requests : pc[r] # "new" ~> pc[r] = "over"

\* A later round of some round-table in flight will list the queued rows.
AListIsAhead ==
    \E r \in Starts :
        /\ InFlight(r)
        /\ round[r] < RoundCount \/ (round[r] > 1 /\ pc[r] \in {"round", "list"})

\* What the comment in the messages route promises of a message it queues: the
\* next round picks it up (unless the run is over, or the round-table died or
\* could not clear current_round).
QueuedForARound ==
    [][\A w \in Rows :
          status = "executing" /\ row[w] # "queued" /\ row'[w] = "queued"
              => strayRound \/ AListIsAhead]_vars
=============================================================================
