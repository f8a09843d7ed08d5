----------------------- MODULE ManagedConnectionProofs -----------------------
(***************************************************************************)
(* Theorems about ManagedConnection for every queue capacity and any       *)
(* number of messages and sockets.                                         *)
(***************************************************************************)
EXTENDS ManagedConnection, TLAPS

-----------------------------------------------------------------------------
(* The socket and its timers.                                              *)

\* How far reconnectAttempt may have got, and in which states of the socket
\* a pong timeout is armed.
SocketInv ==
    /\ ws = 0 <=> readyState = "none"
    /\ reconnectAttempt <= ws
    /\ ws > 0 /\ readyState # "CLOSED" => reconnectAttempt < ws
    /\ pongTimer = "armed" => readyState \in {"OPEN", "CLOSING"}
    /\ strayPongs > 0 => ws > 0
    /\ pongTimer # "null" => ws > 0
    /\ state = "disconnecting" => readyState \in {"CLOSING", "CLOSED"}

\* The queue holds the latest messages, one after the other; every earlier one
\* is delivered or dropped; nothing waits for an open socket.
Waiting == Len(outboundQueue)
QueueInv ==
    /\ readyState = "OPEN" => outboundQueue = << >>
    /\ Waiting <= sent
    /\ \A j \in 1..Waiting : outboundQueue[j] = sent - Waiting + j
MailInv ==
    /\ \A i, j \in 1..Len(delivered) : i < j => delivered[i] < delivered[j]
    /\ Range(delivered) \cup dropped = 1..(sent - Waiting)
    /\ dropped # {} => sent > QueueCap

Inv == TypeOK /\ OneSocket /\ SocketInv /\ TimeoutHitsItsSocket /\ QueueInv /\ MailInv

LEMMA Constants ==
    /\ QueueCap \in Nat /\ QueueCap >= 1
    /\ MaxSends \in Nat /\ MaxSockets \in Nat /\ MaxSockets >= 1
    /\ PingOverlaps \in BOOLEAN
  BY CapAssumption, OverlapAssumption, BoundsAssumption

-----------------------------------------------------------------------------
(* Steps on the queue.                                                     *)

LEMMA SendStep ==
    ASSUME TypeOK, QueueInv, MailInv, Send
    PROVE  (TypeOK /\ QueueInv /\ MailInv)'
<1> USE Constants DEF TypeOK, socket, timers
<1>1. sent' = sent + 1 /\ sent' \in 1..MaxSends /\ sent \in Nat
  BY DEF Send
<1>2. UNCHANGED <<state, ws, readyState, pingTimer, pongTimer, strayPongs, reconnectTimer,
                  reconnectAttempt, pingedSocket>>
  BY DEF Send
<1>3. CASE readyState = "OPEN"
  <2>1. delivered' = Append(delivered, sent') /\ UNCHANGED <<outboundQueue, dropped>>
    BY <1>3 DEF Send
  <2>2. outboundQueue = << >> /\ Waiting = 0 /\ Waiting' = 0
    BY <1>3, <2>1 DEF QueueInv, Waiting
  <2>3. Range(delivered) \cup dropped = 1..sent
    BY <1>1, <2>2 DEF MailInv
  <2> DEFINE d == Len(delivered)
  <2>4. /\ d \in Nat /\ DOMAIN delivered = 1..d
        /\ DOMAIN delivered' = 1..(d + 1) /\ Len(delivered') = d + 1
        /\ \A i \in 1..d : delivered'[i] = delivered[i]
        /\ delivered'[d + 1] = sent'
    BY <1>1, <2>1
  <2>a. 1..(d + 1) = (1..d) \cup {d + 1}
    BY <2>4
  <2>5. Range(delivered') = Range(delivered) \cup {sent'}
    BY <2>4, <2>a DEF Range
  <2>6. \A i \in 1..d : delivered[i] \in 1..sent
    BY <2>3, <2>4 DEF Range
  <2>7. MailInv'
    <3>1. \A i, j \in 1..Len(delivered') : i < j => delivered'[i] < delivered'[j]
      <4> SUFFICES ASSUME NEW i \in 1..(d + 1), NEW j \in 1..(d + 1), i < j
                   PROVE  delivered'[i] < delivered'[j]
        BY <2>4
      <4>1. i \in 1..d /\ delivered'[i] = delivered[i] /\ delivered[i] \in 1..sent
        BY <2>4, <2>6
      <4>2. CASE j = d + 1
        BY <1>1, <2>4, <4>1, <4>2
      <4>3. CASE j # d + 1
        <5>1. j \in 1..d
          BY <2>4, <4>3
        <5> QED
          BY <2>4, <4>1, <5>1 DEF MailInv
      <4> QED
        BY <4>2, <4>3
    <3>2. Range(delivered') \cup dropped' = 1..(sent' - Waiting')
      BY <1>1, <2>1, <2>2, <2>3, <2>5
    <3> QED
      BY <1>1, <2>1, <3>1, <3>2 DEF MailInv
  <2>8. QueueInv'
    BY <1>1, <1>2, <2>1, <2>2 DEF QueueInv
  <2>9. TypeOK'
    BY <1>1, <1>2, <2>1
  <2> QED
    BY <2>7, <2>8, <2>9
<1>4. CASE readyState # "OPEN" /\ Len(outboundQueue) < QueueCap
  <2>1. outboundQueue' = Append(outboundQueue, sent') /\ UNCHANGED <<delivered, dropped>>
    <3>1. ~(Len(outboundQueue) >= QueueCap)
      BY <1>4
    <3> QED
      BY <1>4, <3>1 DEF Send
  <2>2. /\ Waiting' = Waiting + 1 /\ Waiting \in Nat
        /\ \A j \in 1..Waiting : outboundQueue'[j] = outboundQueue[j]
        /\ outboundQueue'[Waiting + 1] = sent'
    BY <1>1, <2>1 DEF Waiting
  <2>3. TypeOK'
    BY <1>1, <1>2, <1>4, <2>1
  <2>4. QueueInv'
    <3>1. \A j \in 1..Waiting' : outboundQueue'[j] = sent' - Waiting' + j
      <4> SUFFICES ASSUME NEW j \in 1..(Waiting + 1)
                   PROVE  outboundQueue'[j] = sent' - Waiting' + j
        BY <2>2
      <4>1. CASE j = Waiting + 1
        BY <1>1, <2>2, <4>1
      <4>2. CASE j # Waiting + 1
        <5>1. j \in 1..Waiting
          BY <2>2, <4>2
        <5> QED
          BY <1>1, <2>2, <5>1 DEF QueueInv
      <4> QED
        BY <4>1, <4>2
    <3> QED
      BY <1>1, <1>2, <1>4, <2>2, <3>1 DEF QueueInv
  <2>5. sent' - Waiting' = sent - Waiting
    BY <1>1, <2>2
  <2>6. MailInv'
    BY <1>1, <2>1, <2>5 DEF MailInv
  <2> QED
    BY <2>3, <2>4, <2>6
<1>5. CASE readyState # "OPEN" /\ Len(outboundQueue) >= QueueCap
  <2>1. /\ outboundQueue' = Append(Tail(outboundQueue), sent')
        /\ dropped' = dropped \cup {Head(outboundQueue)}
        /\ UNCHANGED delivered
    BY <1>5 DEF Send
  <2>2. Waiting \in Nat /\ Waiting >= 1 /\ Waiting = QueueCap /\ Waiting <= sent
    BY <1>5 DEF Waiting, QueueInv
  <2>3. /\ Tail(outboundQueue) \in Seq(1..MaxSends)
        /\ Len(Tail(outboundQueue)) = Waiting - 1
        /\ \A j \in 1..(Waiting - 1) : Tail(outboundQueue)[j] = outboundQueue[j + 1]
    BY <2>2 DEF Waiting
  <2>4. /\ Waiting' = Waiting
        /\ \A j \in 1..(Waiting - 1) : outboundQueue'[j] = outboundQueue[j + 1]
        /\ outboundQueue'[Waiting] = sent'
    BY <1>1, <2>1, <2>2, <2>3 DEF Waiting
  <2>5. Head(outboundQueue) = sent - Waiting + 1 /\ Head(outboundQueue) \in 1..MaxSends
    BY <1>1, <2>2 DEF QueueInv, Waiting
  <2>6. TypeOK'
    <3>1. outboundQueue' \in Seq(1..MaxSends) /\ Len(outboundQueue') <= QueueCap
      BY <1>1, <2>1, <2>2, <2>3, <2>4 DEF Waiting
    <3>2. sent' \in 0..MaxSends /\ dropped' \subseteq 1..MaxSends
      <4>1. sent' \in 0..MaxSends
        BY <1>1
      <4>2. dropped' \subseteq 1..MaxSends
        BY <2>1, <2>5
      <4> QED
        BY <4>1, <4>2
    <3> QED
      BY <1>2, <2>1, <3>1, <3>2
  <2>7. QueueInv'
    <3>1. \A j \in 1..Waiting' : outboundQueue'[j] = sent' - Waiting' + j
      <4> SUFFICES ASSUME NEW j \in 1..Waiting PROVE outboundQueue'[j] = sent' - Waiting + j
        BY <2>4
      <4>1. CASE j = Waiting
        BY <1>1, <2>2, <2>4, <4>1
      <4>2. CASE j # Waiting
        <5>1. j \in 1..(Waiting - 1) /\ j + 1 \in 1..Waiting
          BY <2>2, <4>2
        <5>2. outboundQueue'[j] = outboundQueue[j + 1]
          BY <2>4, <5>1
        <5> QED
          BY <1>1, <2>2, <5>1, <5>2 DEF QueueInv
      <4> QED
        BY <4>1, <4>2
    <3> QED
      BY <1>1, <1>2, <1>5, <2>2, <2>4, <3>1 DEF QueueInv
  <2>8. MailInv'
    <3>1. Range(delivered') \cup dropped' = 1..(sent' - Waiting')
      BY <1>1, <2>1, <2>2, <2>4, <2>5 DEF MailInv
    <3>2. sent' > QueueCap
      BY <1>1, <2>2
    <3> QED
      BY <2>1, <3>1, <3>2 DEF MailInv
  <2> QED
    BY <2>6, <2>7, <2>8
<1>6. Len(outboundQueue) \in Nat
  OBVIOUS
<1> QED
  BY <1>3, <1>4, <1>5, <1>6

LEMMA OpenedStep ==
    ASSUME TypeOK, QueueInv, MailInv, Opened
    PROVE  (TypeOK /\ QueueInv /\ MailInv)'
<1> USE Constants DEF TypeOK
<1> DEFINE d == Len(delivered)
<1>1. d \in Nat /\ Waiting \in Nat /\ sent \in Nat /\ Waiting <= sent
  BY DEF Waiting, QueueInv
<1>2. delivered' = delivered \o outboundQueue /\ outboundQueue' = << >> /\ Waiting' = 0
      /\ UNCHANGED <<sent, dropped>>
  BY DEF Opened, Waiting
<1>3. /\ delivered' \in Seq(1..MaxSends) /\ Len(delivered') = d + Waiting
      /\ DOMAIN delivered = 1..d /\ DOMAIN delivered' = 1..(d + Waiting)
      /\ \A i \in 1..d : delivered'[i] = delivered[i]
      /\ \A j \in 1..Waiting : delivered'[d + j] = outboundQueue[j]
  BY <1>1, <1>2 DEF Waiting
<1>4. \A i \in 1..(d + Waiting) : i \in 1..d \/ (i - d \in 1..Waiting /\ i = d + (i - d))
  BY <1>1
<1>5. \A i \in (d + 1)..(d + Waiting) : delivered'[i] = sent - Waiting + (i - d)
  <2> SUFFICES ASSUME NEW i \in (d + 1)..(d + Waiting)
               PROVE  delivered'[i] = sent - Waiting + (i - d)
    OBVIOUS
  <2>1. i - d \in 1..Waiting /\ i = d + (i - d)
    BY <1>1
  <2> QED
    BY <1>3, <2>1 DEF QueueInv
<1>6. \A i \in 1..d : delivered[i] \in 1..(sent - Waiting)
  BY <1>3 DEF MailInv, Range
<1>7. \A i, j \in 1..Len(delivered') : i < j => delivered'[i] < delivered'[j]
  <2> SUFFICES ASSUME NEW i \in 1..(d + Waiting), NEW j \in 1..(d + Waiting), i < j
               PROVE  delivered'[i] < delivered'[j]
    BY <1>3
  <2>1. CASE j <= d
    <3>1. i \in 1..d /\ j \in 1..d
      BY <1>1, <2>1
    <3> QED
      BY <1>3, <3>1 DEF MailInv
  <2>2. CASE i <= d /\ j > d
    <3>1. i \in 1..d /\ delivered'[i] = delivered[i] /\ delivered[i] \in 1..(sent - Waiting)
      BY <1>1, <1>3, <1>6, <2>2
    <3>2. delivered'[j] = sent - Waiting + (j - d)
      BY <1>1, <1>5, <2>2
    <3> QED
      BY <1>1, <2>2, <3>1, <3>2
  <2>3. CASE i > d
    <3>1. i \in (d + 1)..(d + Waiting) /\ j \in (d + 1)..(d + Waiting)
      BY <1>1, <2>3
    <3>2. /\ delivered'[i] = sent - Waiting + (i - d)
          /\ delivered'[j] = sent - Waiting + (j - d)
      BY <1>5, <3>1
    <3> QED
      BY <1>1, <3>1, <3>2
  <2> QED
    BY <1>1, <2>1, <2>2, <2>3
<1>8. Range(delivered') = Range(delivered) \cup ((sent - Waiting + 1)..sent)
  <2>1. Range(delivered') \subseteq Range(delivered) \cup ((sent - Waiting + 1)..sent)
    <3> SUFFICES ASSUME NEW i \in 1..(d + Waiting)
                 PROVE  delivered'[i] \in Range(delivered) \cup ((sent - Waiting + 1)..sent)
      BY <1>3 DEF Range
    <3>1. CASE i <= d
      <4>1. i \in 1..d
        BY <1>1, <3>1
      <4> QED
        BY <1>3, <4>1 DEF Range
    <3>2. CASE i > d
      BY <1>1, <1>5, <3>2
    <3> QED
      BY <1>1, <3>1, <3>2
  <2>2. Range(delivered) \subseteq Range(delivered')
    <3>1. 1..d \subseteq 1..(d + Waiting)
      BY <1>1
    <3> QED
      BY <1>3, <3>1 DEF Range
  <2>3. (sent - Waiting + 1)..sent \subseteq Range(delivered')
    <3> SUFFICES ASSUME NEW v \in (sent - Waiting + 1)..sent PROVE v \in Range(delivered')
      OBVIOUS
    <3> DEFINE i == d + (v - (sent - Waiting))
    <3>1. i \in (d + 1)..(d + Waiting)
      BY <1>1
    <3>a. i \in DOMAIN delivered'
      BY <1>1, <1>3, <3>1
    <3>2. delivered'[i] = v
      <4>1. delivered'[i] = sent - Waiting + (i - d)
        BY <1>5, <3>1
      <4> QED
        BY <1>1, <4>1
    <3> QED
      BY <3>a, <3>2 DEF Range
  <2> QED
    BY <2>1, <2>2, <2>3
<1>9. MailInv'
  <2>1. Range(delivered') \cup dropped' = 1..(sent' - Waiting')
    BY <1>1, <1>2, <1>8 DEF MailInv
  <2> QED
    BY <1>2, <1>7, <2>1 DEF MailInv
<1>10. QueueInv'
  BY <1>1, <1>2 DEF QueueInv
<1>11. TypeOK'
  BY <1>2, <1>3 DEF Opened
<1> QED
  BY <1>9, <1>10, <1>11

-----------------------------------------------------------------------------
(* Every step.                                                             *)

\* All steps but Opened and Send leave the messages alone.
LEMMA MailKept ==
    ASSUME QueueInv, MailInv, UNCHANGED mail, readyState' = "OPEN" => readyState = "OPEN"
    PROVE  (QueueInv /\ MailInv)'
  BY DEF QueueInv, MailInv, Waiting, mail

LEMMA InvStep == Inv /\ [Next]_vars => Inv'
<1> SUFFICES ASSUME Inv, [Next]_vars PROVE Inv'
  OBVIOUS
<1> USE Constants DEF Inv
<1> DEFINE Sockets == (OneSocket /\ SocketInv /\ TimeoutHitsItsSocket)'
<1>1. CASE UNCHANGED vars
  BY <1>1 DEF vars, TypeOK, OneSocket, SocketInv, TimeoutHitsItsSocket, QueueInv, MailInv, Waiting
<1>2. CASE ConnectAll
  <2>1. TypeOK' /\ Sockets
    BY <1>2 DEF ConnectAll, Open, timers, mail, TypeOK, OneSocket, SocketInv, TimeoutHitsItsSocket
  <2> QED
    BY <1>2, <2>1, MailKept DEF ConnectAll, Open
<1>3. CASE Opened
  <2>1. Sockets
    BY <1>3 DEF Opened, TypeOK, OneSocket, SocketInv, TimeoutHitsItsSocket
  <2> QED
    BY <1>3, <2>1, OpenedStep
<1>4. CASE Failed
  <2>1. TypeOK' /\ Sockets
    BY <1>4 DEF Failed, timers, mail, TypeOK, OneSocket, SocketInv, TimeoutHitsItsSocket
  <2> QED
    BY <1>4, <2>1, MailKept DEF Failed
<1>5. CASE Closed
  <2>a. TypeOK'
    <3>1. reconnectAttempt \in 0..MaxSockets /\ reconnectAttempt + 1 \in 0..MaxSockets
      BY <1>5 DEF Closed, TypeOK, SocketInv
    <3>2. reconnectAttempt' \in 0..MaxSockets
      BY <1>5, <3>1 DEF Closed
    <3> QED
      BY <1>5, <3>2 DEF Closed, StopPingPong, mail, TypeOK
  <2>b. OneSocket'
    BY <1>5 DEF Closed, StopPingPong, mail, TypeOK, OneSocket, SocketInv
  <2>c. SocketInv'
    BY <1>5 DEF Closed, StopPingPong, mail, TypeOK, OneSocket, SocketInv
  <2>d. TimeoutHitsItsSocket'
    BY <1>5 DEF Closed, StopPingPong, mail, TypeOK, OneSocket, SocketInv, TimeoutHitsItsSocket
  <2>1. TypeOK' /\ Sockets
    BY <2>a, <2>b, <2>c, <2>d
  <2> QED
    BY <1>5, <2>1, MailKept DEF Closed
<1>6. CASE ReconnectFires
  <2>a. TypeOK'
    <3>1. ws' \in 0..MaxSockets
      BY <1>6 DEF ReconnectFires, Open, TypeOK
    <3> QED
      BY <1>6, <3>1 DEF ReconnectFires, Open, mail, TypeOK
  <2>b. OneSocket'
    BY <1>6 DEF ReconnectFires, Open, mail, TypeOK, OneSocket, SocketInv
  <2>c. SocketInv'
    BY <1>6 DEF ReconnectFires, Open, mail, TypeOK, OneSocket, SocketInv
  <2>d. TimeoutHitsItsSocket'
    BY <1>6 DEF ReconnectFires, Open, mail, TypeOK, OneSocket, SocketInv, TimeoutHitsItsSocket
  <2>1. TypeOK' /\ Sockets
    BY <2>a, <2>b, <2>c, <2>d
  <2> QED
    BY <1>6, <2>1, MailKept DEF ReconnectFires, Open
<1>7. CASE Ping
  <2>1. TypeOK' /\ Sockets
    BY <1>7 DEF Ping, socket, mail, TypeOK, OneSocket, SocketInv, TimeoutHitsItsSocket
  <2> QED
    BY <1>7, <2>1, MailKept DEF Ping, socket
<1>8. CASE Pong
  <2>1. TypeOK' /\ Sockets
    BY <1>8 DEF Pong, socket, mail, TypeOK, OneSocket, SocketInv, TimeoutHitsItsSocket
  <2> QED
    BY <1>8, <2>1, MailKept DEF Pong, socket
<1>9. CASE PongTimeout
  <2>1. TypeOK' /\ Sockets
    BY <1>9 DEF PongTimeout, mail, TypeOK, OneSocket, SocketInv, TimeoutHitsItsSocket
  <2> QED
    BY <1>9, <2>1, MailKept DEF PongTimeout
<1>10. CASE Send
  <2>1. Sockets
    BY <1>10 DEF Send, socket, timers, TypeOK, OneSocket, SocketInv, TimeoutHitsItsSocket
  <2> QED
    BY <1>10, <2>1, SendStep
<1>11. CASE Close
  <2>a. TypeOK'
    BY <1>11 DEF Close, StopPingPong, mail, TypeOK, OneSocket, SocketInv
  <2>b. OneSocket'
    BY <1>11 DEF Close, StopPingPong, mail, TypeOK, OneSocket, SocketInv
  <2>c. SocketInv'
    BY <1>11 DEF Close, StopPingPong, mail, TypeOK, OneSocket, SocketInv
  <2>d. TimeoutHitsItsSocket'
    BY <1>11 DEF Close, StopPingPong, mail, TypeOK, OneSocket, SocketInv, TimeoutHitsItsSocket
  <2>1. TypeOK' /\ Sockets
    BY <2>a, <2>b, <2>c, <2>d
  <2> QED
    BY <1>11, <2>1, MailKept DEF Close
<1> QED
  BY <1>1, <1>2, <1>3, <1>4, <1>5, <1>6, <1>7, <1>8, <1>9, <1>10, <1>11 DEF Next

LEMMA InitInv == Init => Inv
<1> SUFFICES ASSUME Init PROVE Inv
  OBVIOUS
<1> USE Constants DEF Init
<1>1. TypeOK
  <2>1. 0 \in 0..MaxSockets /\ 0 \in 0..MaxSends /\ Len(outboundQueue) = 0
    OBVIOUS
  <2>2. outboundQueue \in Seq(1..MaxSends) /\ delivered \in Seq(1..MaxSends)
    OBVIOUS
  <2>3. Len(outboundQueue) <= QueueCap
    BY <2>1
  <2> QED
    BY <2>1, <2>2, <2>3 DEF TypeOK
<1>2. QueueInv /\ MailInv
  <2>1. Waiting = 0 /\ Range(delivered) = {} /\ Len(delivered) = 0
    BY DEF Waiting, Range
  <2> QED
    BY <2>1 DEF QueueInv, MailInv
<1> QED
  BY <1>1, <1>2 DEF Inv, OneSocket, SocketInv, TimeoutHitsItsSocket

LEMMA Invariant == Spec => []Inv
  BY InitInv, InvStep, PTL DEF Spec

\* Every variable keeps its type; the queue never outgrows its capacity.
THEOREM TypeCorrect == Spec => []TypeOK
<1>1. Inv => TypeOK
  BY DEF Inv
<1> QED
  BY Invariant, <1>1, PTL

\* One socket at a time, a reconnect planned exactly when none is left.
THEOREM OneSocketAtATime == Spec => []OneSocket
<1>1. Inv => OneSocket
  BY DEF Inv
<1> QED
  BY Invariant, <1>1, PTL

\* With the pong timeout below the ping interval, a timeout ends the socket
\* whose ping it guards and no other.
THEOREM TimeoutsHitTheirSocket == Spec => []TimeoutHitsItsSocket
<1>1. Inv => TimeoutHitsItsSocket
  BY DEF Inv
<1> QED
  BY Invariant, <1>1, PTL

\* The line of delivered and queued messages is in the order of the sends.
THEOREM MessagesInOrder == Spec => []FirstInFirstOut
<1>1. Inv => FirstInFirstOut
  <2> SUFFICES ASSUME Inv PROVE FirstInFirstOut
    OBVIOUS
  <2> DEFINE d == Len(delivered)
             line == delivered \o outboundQueue
  <2>1. d \in Nat /\ Waiting \in Nat /\ sent \in Nat /\ Waiting <= sent
    BY DEF Inv, TypeOK, Waiting, QueueInv
  <2>2. DOMAIN line = 1..(d + Waiting)
        /\ \A i \in 1..(d + Waiting) :
              line[i] = IF i <= d THEN delivered[i] ELSE outboundQueue[i - d]
    BY <2>1 DEF Inv, TypeOK, Waiting
  <2>3. \A i \in 1..d : delivered[i] \in 1..(sent - Waiting)
    BY DEF Inv, TypeOK, MailInv, Range
  <2> SUFFICES ASSUME NEW i \in 1..(d + Waiting), NEW j \in 1..(d + Waiting), i < j
               PROVE  line[i] < line[j]
    BY <2>2 DEF FirstInFirstOut
  <2> HIDE DEF line
  <2>4. CASE j <= d
    BY <2>1, <2>2, <2>4 DEF Inv, MailInv
  <2>5. CASE j > d
    <3>1. j - d \in 1..Waiting /\ line[j] = sent - Waiting + (j - d)
      BY <2>1, <2>2, <2>5 DEF Inv, QueueInv
    <3>2. CASE i <= d
      BY <2>1, <2>2, <2>3, <3>1, <3>2
    <3>3. CASE i > d
      <4>1. i - d \in 1..Waiting /\ line[i] = sent - Waiting + (i - d)
        BY <2>1, <2>2, <3>3 DEF Inv, QueueInv
      <4> QED
        BY <2>1, <3>1, <4>1
    <3> QED
      BY <2>1, <3>2, <3>3
  <2> QED
    BY <2>1, <2>4, <2>5
<1> QED
  BY Invariant, <1>1, PTL

\* No message is unaccounted for, and what is dropped is older than what is
\* still queued and goes only when the queue has been full.
THEOREM OldestDropped == Spec => []OldestGoFirst
<1>1. Inv => OldestGoFirst
  <2> SUFFICES ASSUME Inv PROVE OldestGoFirst
    OBVIOUS
  <2>1. Waiting \in Nat /\ sent \in Nat /\ Waiting <= sent
    BY DEF Inv, TypeOK, Waiting, QueueInv
  <2>2. Range(outboundQueue) = (sent - Waiting + 1)..sent
    <3>1. DOMAIN outboundQueue = 1..Waiting
      BY DEF Inv, TypeOK, Waiting
    <3>2. \A v \in (sent - Waiting + 1)..sent :
             v - (sent - Waiting) \in 1..Waiting /\ outboundQueue[v - (sent - Waiting)] = v
      BY <2>1 DEF Inv, QueueInv
    <3>3. \A j \in 1..Waiting : outboundQueue[j] \in (sent - Waiting + 1)..sent
      BY <2>1 DEF Inv, QueueInv
    <3> QED
      BY <3>1, <3>2, <3>3 DEF Range
  <2>3. 1..sent = (1..(sent - Waiting)) \cup ((sent - Waiting + 1)..sent)
    BY <2>1
  <2>4. dropped \subseteq 1..(sent - Waiting)
    BY DEF Inv, MailInv
  <2> QED
    BY <2>1, <2>2, <2>3, <2>4 DEF Inv, MailInv, OldestGoFirst
<1> QED
  BY Invariant, <1>1, PTL

\* A shutdown is final: no reconnect survives it and no socket opens after it.
THEOREM ShutdownIsFinal == Spec => ClosedStaysClosed
<1>1. Inv /\ [Next]_vars => [state = "disconnecting" => state' \in {"disconnecting", "closed"}]_vars
  <2> SUFFICES ASSUME Inv, Next, state = "disconnecting"
               PROVE  state' \in {"disconnecting", "closed"}
    OBVIOUS
  <2> QED
    BY DEF Inv, OneSocket, SocketInv, Next, ConnectAll, Opened, Failed, Closed, ReconnectFires,
           Ping, Pong, PongTimeout, Send, Close
<1> QED
  BY Invariant, <1>1, PTL DEF Spec, ClosedStaysClosed
=============================================================================
