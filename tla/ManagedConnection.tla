-------------------------- MODULE ManagedConnection --------------------------
(***************************************************************************)
(* The hub's WebSocket to one agent: connect, keep-alive, reconnect with   *)
(* backoff, the bounded outbound queue and shutdown.  AgentRegistry holds  *)
(* one of these per agent, and mirrors each one's state.                   *)
(*                                                                         *)
(* The process is single-threaded: a step is one callback (socket event,   *)
(* timer) or one call from outside.  The ws library is modelled by the     *)
(* events it emits: every socket that fails, is closed or terminated emits *)
(* one 'close'.                                                            *)
(***************************************************************************)
EXTENDS Integers, Sequences, FiniteSets, Functions

CONSTANTS
    QueueCap,       \* MAX_OUTBOUND_QUEUE
    PingOverlaps,   \* PONG_TIMEOUT_MS >= PING_INTERVAL_MS
    MaxSends,       \* bound: messages sent
    MaxSockets      \* bound: sockets created

ASSUME CapAssumption == QueueCap \in Nat \ {0}
ASSUME OverlapAssumption == PingOverlaps \in BOOLEAN
ASSUME BoundsAssumption == MaxSends \in Nat /\ MaxSockets \in Nat \ {0}

VARIABLES
    state,          \* ConnectionState
    ws,             \* the current socket's number, 0 for null
    readyState,     \* its readyState
    pingTimer,      \* pingTimer is set
    pongTimer,      \* pongTimer: null, armed, or fired and not cleared
    strayPongs,     \* armed pong timeouts no variable refers to any more
    reconnectTimer, \* reconnectTimer is set
    reconnectAttempt, \* failures since the last open
    outboundQueue,  \* messages waiting for a socket, oldest first
    sent,           \* history: messages given to send(), numbered
    delivered,      \* history: those handed to an open socket, in order
    dropped,        \* history: those that fell off the queue
    pingedSocket    \* history: socket the armed pong timeouts were set for

socket == <<ws, readyState>>
timers == <<pingTimer, pongTimer, strayPongs, reconnectTimer, reconnectAttempt>>
mail == <<outboundQueue, sent, delivered, dropped>>
vars == <<state, ws, readyState, pingTimer, pongTimer, strayPongs, reconnectTimer,
          reconnectAttempt, outboundQueue, sent, delivered, dropped, pingedSocket>>

TypeOK ==
    /\ state \in {"connecting", "connected", "disconnecting", "reconnecting", "closed"}
    /\ ws \in 0..MaxSockets
    /\ readyState \in {"none", "CONNECTING", "OPEN", "CLOSING", "CLOSED"}
    /\ pingTimer \in BOOLEAN
    /\ pongTimer \in {"null", "armed", "fired"}
    /\ strayPongs \in Nat
    /\ reconnectTimer \in BOOLEAN
    /\ reconnectAttempt \in 0..MaxSockets
    /\ outboundQueue \in Seq(1..MaxSends) /\ Len(outboundQueue) <= QueueCap
    /\ sent \in 0..MaxSends
    /\ delivered \in Seq(1..MaxSends)
    /\ dropped \subseteq 1..MaxSends
    /\ pingedSocket \in 0..MaxSockets

Init ==
    /\ state = "closed"
    /\ ws = 0 /\ readyState = "none"
    /\ pingTimer = FALSE /\ pongTimer = "null" /\ strayPongs = 0
    /\ reconnectTimer = FALSE /\ reconnectAttempt = 0
    /\ outboundQueue = << >>
    /\ sent = 0 /\ delivered = << >> /\ dropped = {}
    /\ pingedSocket = 0

-----------------------------------------------------------------------------

\* Variant: the pong timeout is left running.
StopPingOnly ==
    /\ pingTimer' = FALSE
    /\ UNCHANGED <<pongTimer, strayPongs>>

\* stopPingPong: the timeout the variable refers to, no other.
StopPingPong ==
    /\ pingTimer' = FALSE
    /\ pongTimer' = "null"
    /\ UNCHANGED strayPongs

\* connect: a new socket.
Open ==
    /\ ws < MaxSockets
    /\ state' = "connecting"
    /\ ws' = ws + 1
    /\ readyState' = "CONNECTING"

\* connectAll, once, when the server listens.
ConnectAll ==
    /\ ws = 0 /\ state = "closed"
    /\ Open
    /\ UNCHANGED <<timers, mail, pingedSocket>>

\* Variant: the queue is left to the next send.
OpenedNoFlush ==
    /\ readyState = "CONNECTING"
    /\ readyState' = "OPEN"
    /\ reconnectAttempt' = 0
    /\ state' = "connected"
    /\ pingTimer' = TRUE
    /\ UNCHANGED <<ws, pongTimer, strayPongs, reconnectTimer, mail, pingedSocket>>

\* 'open': the queue is flushed at once.
Opened ==
    /\ readyState = "CONNECTING"
    /\ readyState' = "OPEN"
    /\ reconnectAttempt' = 0
    /\ state' = "connected"
    /\ pingTimer' = TRUE
    /\ delivered' = delivered \o outboundQueue
    /\ outboundQueue' = << >>
    /\ UNCHANGED <<ws, pongTimer, strayPongs, reconnectTimer, sent, dropped, pingedSocket>>

\* The connection fails or the peer closes it; 'error' is only logged.
Failed ==
    /\ readyState \in {"CONNECTING", "OPEN"}
    /\ readyState' = "CLOSING"
    /\ UNCHANGED <<state, ws, timers, mail, pingedSocket>>

\* Variant: a close that was wanted is treated like any other.
ClosedReconnectsAlways ==
    /\ readyState = "CLOSING"
    /\ readyState' = "CLOSED"
    /\ StopPingPong
    /\ state' = "reconnecting"
    /\ reconnectTimer' = TRUE
    /\ reconnectAttempt' = reconnectAttempt + 1
    /\ UNCHANGED <<ws, mail, pingedSocket>>

\* 'close': done if that was wanted, else plan a reconnect.
Closed ==
    /\ readyState = "CLOSING"
    /\ readyState' = "CLOSED"
    /\ StopPingPong
    /\ IF state = "disconnecting"
         THEN /\ state' = "closed"
              /\ UNCHANGED <<reconnectTimer, reconnectAttempt>>
         ELSE /\ state' = "reconnecting"
              /\ reconnectTimer' = TRUE
              /\ reconnectAttempt' = reconnectAttempt + 1
    /\ UNCHANGED <<ws, mail, pingedSocket>>

ReconnectFires ==
    /\ reconnectTimer
    /\ reconnectTimer' = FALSE
    /\ Open
    /\ UNCHANGED <<pingTimer, pongTimer, strayPongs, reconnectAttempt, mail, pingedSocket>>

\* The ping interval elapses.  With the pong timeout below the interval, the
\* timeout of the previous ping has fired or been cleared by then.
Ping ==
    /\ pingTimer /\ readyState = "OPEN"
    /\ PingOverlaps \/ pongTimer # "armed"
    /\ pongTimer' = "armed"
    /\ strayPongs' = strayPongs + (IF pongTimer = "armed" THEN 1 ELSE 0)
    /\ strayPongs' <= 1     \* bound on the state space
    /\ pingedSocket' = ws
    /\ UNCHANGED <<state, socket, pingTimer, reconnectTimer, reconnectAttempt, mail>>

\* 'pong': clears the timeout the variable refers to.
Pong ==
    /\ readyState = "OPEN" /\ pongTimer # "null"
    /\ pongTimer' = "null"
    /\ UNCHANGED <<state, socket, pingTimer, strayPongs, reconnectTimer, reconnectAttempt,
                   mail, pingedSocket>>

\* terminate() of the current socket; nothing to do on a closed one.
PongTimeout ==
    /\ \/ pongTimer = "armed" /\ pongTimer' = "fired" /\ UNCHANGED strayPongs
       \/ strayPongs > 0 /\ strayPongs' = strayPongs - 1 /\ UNCHANGED pongTimer
    /\ readyState' = IF readyState = "CLOSED" THEN "CLOSED" ELSE "CLOSING"
    /\ UNCHANGED <<state, ws, pingTimer, reconnectTimer, reconnectAttempt, mail, pingedSocket>>

\* Variant: the newest message is the one that goes.
SendDropsNewest ==
    /\ sent < MaxSends
    /\ sent' = sent + 1
    /\ IF readyState = "OPEN"
         THEN delivered' = Append(delivered, sent') /\ UNCHANGED <<outboundQueue, dropped>>
         ELSE IF Len(outboundQueue) >= QueueCap
                THEN dropped' = dropped \cup {sent'} /\ UNCHANGED <<outboundQueue, delivered>>
                ELSE /\ outboundQueue' = Append(outboundQueue, sent')
                     /\ UNCHANGED <<delivered, dropped>>
    /\ UNCHANGED <<state, socket, timers, pingedSocket>>

\* send: on an open socket at once, else on the queue, whose oldest goes when
\* it is full.
Send ==
    /\ sent < MaxSends
    /\ sent' = sent + 1
    /\ IF readyState = "OPEN"
         THEN delivered' = Append(delivered, sent') /\ UNCHANGED <<outboundQueue, dropped>>
         ELSE LET full == Len(outboundQueue) >= QueueCap IN
              /\ outboundQueue' =
                    Append(IF full THEN Tail(outboundQueue) ELSE outboundQueue, sent')
              /\ dropped' = dropped \cup (IF full THEN {Head(outboundQueue)} ELSE {})
              /\ UNCHANGED delivered
    /\ UNCHANGED <<state, socket, timers, pingedSocket>>

\* Variant: a planned reconnect is left alone.
CloseKeepsReconnect ==
    /\ ws > 0
    /\ StopPingPong
    /\ state' = "disconnecting"
    /\ readyState' = IF readyState = "CLOSED" THEN "CLOSED" ELSE "CLOSING"
    /\ UNCHANGED <<ws, reconnectTimer, reconnectAttempt, mail, pingedSocket>>

\* close, from closeAll at shutdown: a planned reconnect is cancelled; on a
\* closed socket ws.close() emits nothing.
Close ==
    /\ ws > 0
    /\ reconnectTimer' = FALSE
    /\ StopPingPong
    /\ state' = "disconnecting"
    /\ readyState' = IF readyState = "CLOSED" THEN "CLOSED" ELSE "CLOSING"
    /\ UNCHANGED <<ws, reconnectAttempt, mail, pingedSocket>>

-----------------------------------------------------------------------------

Next ==
    \/ ConnectAll
    \/ Opened \/ Failed \/ Closed \/ ReconnectFires
    \/ Ping \/ Pong \/ PongTimeout
    \/ Send
    \/ Close

Spec == Init /\ [][Next]_vars

\* The ws library settles every connection attempt and every closing socket,
\* and timers fire.
Fairness ==
    /\ WF_vars(Opened \/ Failed)
    /\ WF_vars(Closed)
    /\ WF_vars(ReconnectFires)

FairSpec == Spec /\ Fairness

-----------------------------------------------------------------------------
(* Properties                                                              *)

\* Messages reach the socket in the order send() was called, over any number
\* of reconnects: what is queued comes after all that was delivered.
FirstInFirstOut ==
    LET line == delivered \o outboundQueue IN
        \A i, j \in DOMAIN line : i < j => line[i] < line[j]

\* Every message is delivered, queued or dropped, and only messages older than
\* everything still queued are dropped.
OldestGoFirst ==
    /\ 1..sent = Range(delivered) \cup Range(outboundQueue) \cup dropped
    /\ \A d \in dropped, q \in Range(outboundQueue) : d < q
    /\ dropped # {} => sent > QueueCap

\* There is never a second socket: a reconnect is planned exactly when the
\* state says so, and then the last socket is closed.
OneSocket ==
    /\ reconnectTimer => state = "reconnecting" /\ readyState = "CLOSED"
    /\ state = "reconnecting" => reconnectTimer
    /\ state = "connected" => readyState \in {"OPEN", "CLOSING"}

\* A pong timeout only ever ends the socket whose ping it guards.
TimeoutHitsItsSocket ==
    ~PingOverlaps => strayPongs = 0 /\ (pongTimer = "armed" => pingedSocket = ws)

\* After close() nothing opens a connection again.
ClosedStaysClosed ==
    [][state = "disconnecting" => state' \in {"disconnecting", "closed"}]_vars

\* A dropped connection is tried again, and a connection being shut down ends
\* up closed, if it still had a socket to close.
ConnectionSettles ==
    /\ state = "reconnecting" ~> state # "reconnecting" \/ ws = MaxSockets
    /\ (state = "disconnecting" /\ readyState # "CLOSED") ~> state = "closed"
=============================================================================
