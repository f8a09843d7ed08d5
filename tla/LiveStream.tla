----------------------------- MODULE LiveStream -----------------------------
(***************************************************************************)
(* What a browser sees of a run: the SSE route replays the events table    *)
(* from Last-Event-ID on, then subscribes to the run's Redis channel; the  *)
(* EventSource reconnects by itself; the run store drops what it has seen. *)
(*                                                                         *)
(* The writers are reduced to what EventLog.tla lets them do: rows of      *)
(* distinct numbers appear in any order, each is published after it is     *)
(* there, some numbers never appear and some rows are never published.     *)
(***************************************************************************)
EXTENDS Integers, Sequences, FiniteSets, Functions

CONSTANTS
    Agents,     \* agent ids
    Transitions,  \* `to` of state_transition events: statuses and round markers
    ApiStatuses,  \* what the run's row may say when the page reads it
    MaxSeq,     \* bound: sequence numbers of the run
    MaxVisits,  \* bound: times the page is opened or the stream breaks
    Nobody,     \* thinkingAgent is null
    NoEvent     \* a number without a row

ASSUME BoundsAssumption == MaxSeq \in Nat /\ MaxVisits \in Nat
ASSUME NobodyAssumption == Nobody \notin Agents

Numbers == 1..MaxSeq
RunStatus == {"pending", "planned", "approved", "executing", "completed", "cancelled"}

ASSUME StatusesAssumption ==
    /\ Transitions \subseteq (RunStatus \ {"pending"}) \cup {"round"}
    /\ ApiStatuses \subseteq RunStatus \ {"pending"}

Presence == {"presence_thinking_start", "presence_thinking_end"}
Events == [type : Presence \cup {"agent_message"}, agentId : Agents]
              \cup [type : Transitions, agentId : {Nobody}]

ASSUME NoEventAssumption == NoEvent \notin Events

VARIABLES
    phase,          \* of each number: pending, stored, done (published)
    event,          \* the event of each number stored
    conn,           \* the stream: closed, open, subscribing, live
    since,          \* its Last-Event-ID, 0 for none
    wire,           \* numbers sent, not yet received
    lastEventId,    \* the EventSource's
    order,          \* run store: eventOrder
    lastSequence,   \* run store
    status,         \* run store
    thinkingAgent,  \* run store
    visits,         \* bound
    gap,            \* history: published while the stream was subscribing
    late,           \* history: stored or published after a higher number
    replayed        \* history: rows of the latest replay

writers == <<phase, event>>
stream == <<conn, since, wire, lastEventId>>
store == <<order, lastSequence, status, thinkingAgent>>
history == <<gap, late, replayed>>
vars == <<phase, event, conn, since, wire, lastEventId, order, lastSequence, status,
          thinkingAgent, visits, gap, late, replayed>>

Rows == {s \in Numbers : phase[s] # "pending"}
IsPresence(s) == event[s].type \in Presence
Shown == Range(order)

TypeOK ==
    /\ phase \in [Numbers -> {"pending", "stored", "done"}]
    /\ event \in [Numbers -> Events \cup {NoEvent}]
    /\ conn \in {"closed", "open", "subscribing", "live"}
    /\ since \in 0..MaxSeq
    /\ wire \in Seq(Numbers)
    /\ lastEventId \in 0..MaxSeq
    /\ order \in Seq(Numbers)
    /\ lastSequence \in 0..MaxSeq
    /\ status \in RunStatus
    /\ thinkingAgent \in Agents \cup {Nobody}
    /\ visits \in 0..MaxVisits
    /\ gap \subseteq Numbers /\ late \subseteq Numbers /\ replayed \subseteq Numbers

Init ==
    /\ phase = [s \in Numbers |-> "pending"]
    /\ event = [s \in Numbers |-> NoEvent]
    /\ conn = "closed"
    /\ since = 0
    /\ wire = << >>
    /\ lastEventId = 0
    /\ order = << >>
    /\ lastSequence = 0
    /\ status = "pending"
    /\ thinkingAgent = Nobody
    /\ visits = 0
    /\ gap = {} /\ late = {} /\ replayed = {}

-----------------------------------------------------------------------------
(* The writers.                                                            *)

\* Persist; overlapping persists finish in any order.  A persist that fails
\* leaves its number pending for good.
Insert(s, e) ==
    /\ phase[s] = "pending"
    /\ phase' = [phase EXCEPT ![s] = "stored"]
    /\ event' = [event EXCEPT ![s] = e]
    /\ late' = late \cup (IF \E t \in Rows : t > s THEN {s} ELSE {})
    /\ UNCHANGED <<stream, store, visits, gap, replayed>>

\* Redis hands the message to the subscriber there is at that moment.
Publish(s) ==
    /\ phase[s] = "stored"
    /\ phase' = [phase EXCEPT ![s] = "done"]
    /\ wire' = IF conn = "live" THEN Append(wire, s) ELSE wire
    /\ gap' = gap \cup (IF conn = "subscribing" THEN {s} ELSE {})
    /\ late' = late \cup (IF \E t \in Rows : t > s /\ phase[t] = "done" THEN {s} ELSE {})
    /\ UNCHANGED <<event, conn, since, lastEventId, store, visits, replayed>>

-----------------------------------------------------------------------------
(* The stream.                                                             *)

\* Variant: the store is not reset.
VisitKeepsStore ==
    /\ visits < MaxVisits
    /\ visits' = visits + 1
    /\ conn' = "open" /\ since' = 0 /\ wire' = << >> /\ lastEventId' = 0
    /\ replayed' = {}
    /\ UNCHANGED <<writers, store, gap, late>>

\* The run page is opened: initRun, and a new EventSource without an id.
Visit ==
    /\ visits < MaxVisits
    /\ visits' = visits + 1
    /\ order' = << >> /\ lastSequence' = 0
    /\ status' = "pending" /\ thinkingAgent' = Nobody
    /\ conn' = "open" /\ since' = 0 /\ wire' = << >> /\ lastEventId' = 0
    /\ replayed' = {}
    /\ UNCHANGED <<writers, gap, late>>

\* The connection breaks, or the replay throws and the route closes it; what
\* was on the way is gone.
Break ==
    /\ conn # "closed"
    /\ visits < MaxVisits
    /\ visits' = visits + 1
    /\ conn' = "closed"
    /\ wire' = << >>
    /\ replayed' = {}
    /\ UNCHANGED <<writers, since, lastEventId, store, gap, late>>

\* The EventSource reconnects and sends the id it received last.
Reconnect ==
    /\ conn = "closed"
    /\ visits > 0
    /\ conn' = "open"
    /\ since' = lastEventId
    /\ UNCHANGED <<writers, wire, lastEventId, store, visits, history>>

\* A set of numbers in ascending order: the frames of a replay.
Ascending(set) ==
    {w \in [1..Cardinality(set) -> set] : \A i, j \in DOMAIN w : i < j => w[i] < w[j]}

\* Variant: the replay starts one row too late.
ReplaySkipsOne ==
    /\ conn = "open"
    /\ LET rows == {s \in Rows : s > since + 1} IN
          /\ wire' \in Ascending(rows)
          /\ replayed' = rows
    /\ conn' = "subscribing"
    /\ UNCHANGED <<writers, since, lastEventId, store, visits, gap, late>>

\* One SELECT of the rows after Last-Event-ID, all of them sent.
Replay ==
    /\ conn = "open"
    /\ LET rows == {s \in Rows : s > since} IN
          /\ wire' \in Ascending(rows)
          /\ replayed' = rows
    /\ conn' = "subscribing"
    /\ UNCHANGED <<writers, since, lastEventId, store, visits, gap, late>>

\* SUBSCRIBE is acknowledged and the message handler attached.
Subscribe ==
    /\ conn = "subscribing"
    /\ conn' = "live"
    /\ UNCHANGED <<writers, since, wire, lastEventId, store, visits, history>>

-----------------------------------------------------------------------------
(* The run store.                                                          *)

\* Variant: the event seen last passes again.
FreshOrSame(s) == s >= lastSequence

\* processEvent: already seen?
Fresh(s) == s > lastSequence

\* Variant: any presence_thinking_end ends it.
ThinkingAfterAnyEnd(e) ==
    CASE e.type = "presence_thinking_start" -> e.agentId
      [] e.type = "presence_thinking_end" -> Nobody
      [] e.type = "agent_message" /\ e.agentId = thinkingAgent -> Nobody
      [] OTHER -> thinkingAgent

\* The thinkingAgent slice, updated whether or not the event is fresh.
ThinkingAfter(e) ==
    CASE e.type = "presence_thinking_start" -> e.agentId
      [] e.type \in {"presence_thinking_end", "agent_message"} /\ e.agentId = thinkingAgent
            -> Nobody
      [] OTHER -> thinkingAgent

\* A transition to a run status; round markers are ignored.
StatusAfter(e) == IF e.type \in RunStatus THEN e.type ELSE status

\* Variant: the status is set before the event is compared with the last.
AppendEventStatusFirst(s) ==
    /\ thinkingAgent' = ThinkingAfter(event[s])
    /\ status' = StatusAfter(event[s])
    /\ IF ~IsPresence(s) /\ Fresh(s)
         THEN order' = Append(order, s) /\ lastSequence' = s
         ELSE UNCHANGED <<order, lastSequence>>

\* appendEvent: presence events touch the slice only.
AppendEvent(s) ==
    /\ thinkingAgent' = ThinkingAfter(event[s])
    /\ IF ~IsPresence(s) /\ Fresh(s)
         THEN /\ order' = Append(order, s)
              /\ lastSequence' = s
              /\ status' = StatusAfter(event[s])
         ELSE UNCHANGED <<order, lastSequence, status>>

\* onmessage; every frame carries its id, presence or not.
Receive ==
    /\ wire # << >>
    /\ wire' = Tail(wire)
    /\ lastEventId' = Head(wire)
    /\ AppendEvent(Head(wire))
    /\ UNCHANGED <<writers, conn, since, visits, history>>

\* syncStatusFromApi: the run's row, read when the page mounts.
SyncStatus(api) ==
    /\ visits > 0
    /\ status = "pending"
    /\ status' = api
    /\ UNCHANGED <<writers, stream, order, lastSequence, thinkingAgent, visits, history>>

-----------------------------------------------------------------------------

Next ==
    \/ \E s \in Numbers : Publish(s) \/ \E e \in Events : Insert(s, e)
    \/ Visit \/ Break \/ Reconnect
    \/ Replay \/ Subscribe
    \/ Receive
    \/ \E api \in ApiStatuses : SyncStatus(api)

Spec == Init /\ [][Next]_vars

-----------------------------------------------------------------------------
(* Properties                                                              *)

\* The transcript is in sequence order without repetition, across replays,
\* reconnects and late arrivals.
TranscriptSorted == \A i, j \in DOMAIN order : i < j => order[i] < order[j]

\* The browser never shows what is not in the table (persist before publish):
\* a reload cannot take back what was seen.
ShownIsStored == Shown \subseteq Rows

\* Everything sent to this client has been received and it is subscribed.
CaughtUp == conn = "live" /\ wire = << >>

\* An event that a caught-up client does not show was never published, or was
\* published between replay and subscription, or came after a higher number.
NoUnexplainedGap ==
    CaughtUp => \A s \in Rows :
        ~IsPresence(s) /\ s \notin Shown
            => phase[s] = "stored" \/ s \in gap \/ s \in late

\* Opening the page shows every row its replay read, whatever was missed
\* before and in whatever order the rows came about.
ReloadShowsAll ==
    since = 0 /\ conn \in {"subscribing", "live"} =>
        \A s \in replayed : IsPresence(s) \/ s \in Shown \/ s \in Range(wire)

\* The status shown is that of the latest transition in the transcript, and
\* without one it is what the API said.
StatusIsLatest ==
    LET ends == {s \in Shown : event[s].type \in RunStatus} IN
        IF ends = {} THEN status \in ApiStatuses \cup {"pending"}
        ELSE \E s \in ends : status = event[s].type /\ \A t \in ends : t <= s

\* Who is thinking according to the table: the last start, unless an end or a
\* message of that agent follows it.
Thinking ==
    LET starts == {s \in Rows : event[s].type = "presence_thinking_start"}
        Ended(s) == \E t \in Rows : t > s /\ event[t].agentId = event[s].agentId
                                 /\ event[t].type # "presence_thinking_start"
        last == CHOOSE s \in starts : \A t \in starts : t <= s
    IN IF starts = {} \/ Ended(last) THEN Nobody ELSE event[last].agentId

\* When nothing was lost or overtaken, the indicator of a caught-up client
\* names exactly the agent the table says is thinking.
IndicatorAgrees ==
    CaughtUp /\ gap = {} /\ late = {} /\ (\A s \in Rows : phase[s] = "done")
        => thinkingAgent = Thinking

\* What the comment in use-sse.ts says of reconnection and deduplication.
GapFree ==
    CaughtUp /\ (\A s \in Rows : phase[s] = "done") =>
        \A s \in Rows : IsPresence(s) \/ s \in Shown
=============================================================================
