-------------------------- MODULE LiveStreamProofs --------------------------
(***************************************************************************)
(* Theorems about LiveStream for any number of events, agents and visits.  *)
(***************************************************************************)
EXTENDS LiveStream, FiniteSetTheorems, WellFoundedInduction, TLAPS

-----------------------------------------------------------------------------
(* The inductive invariant.                                                *)

\* A number with a row has an event; what is on the way, shown or was replayed
\* has a row.
StoredInv ==
    /\ \A s \in Rows : event[s] \in Events
    /\ Range(wire) \subseteq Rows
    /\ Shown \subseteq Rows
    /\ replayed \subseteq Rows

\* The high-water mark bounds the transcript.
OrderInv == TranscriptSorted /\ \A s \in Shown : s <= lastSequence

\* A stream that has not replayed carries nothing, and starts from the beginning
\* only for a page that has shown nothing.
PositionInv ==
    /\ conn \in {"closed", "open"} => wire = << >>
    /\ conn = "open" => since = lastEventId
    /\ lastEventId = 0 => lastSequence = 0

\* A number still to be received that will be fresh when it is.
Due(s) == /\ lastSequence < s
          /\ \E i \in 1..Len(wire) : wire[i] = s /\ \A j \in 1..(i - 1) : wire[j] < s
ReplayInv ==
    since = 0 /\ conn \in {"subscribing", "live"} =>
        \A s \in replayed : IsPresence(s) \/ s \in Shown \/ Due(s)

Inv == TypeOK /\ StoredInv /\ OrderInv /\ PositionInv /\ ReplayInv /\ StatusIsLatest

LEMMA Constants == MaxSeq \in Nat /\ MaxVisits \in Nat /\ Nobody \notin Agents /\ NoEvent \notin Events
  BY BoundsAssumption, NobodyAssumption, NoEventAssumption

\* What an event may be, and what it makes of the status and the indicator.
LEMMA EventFacts ==
    ASSUME NEW e \in Events
    PROVE  /\ e.type \in RunStatus => e.type \in RunStatus \ {"pending"}
           /\ e.type = "presence_thinking_start" => e.agentId \in Agents
  BY StatusesAssumption DEF Events, Presence, RunStatus

-----------------------------------------------------------------------------
(* Replay.                                                                 *)

\* The frames of a replay are all its rows, in order.
LEMMA AscendingCovers ==
    ASSUME NEW set, set \subseteq Numbers, NEW w \in Ascending(set)
    PROVE  /\ w \in Seq(Numbers) /\ Len(w) \in Nat /\ DOMAIN w = 1..Len(w)
           /\ \A i, j \in 1..Len(w) : i < j => w[i] < w[j]
           /\ Range(w) = set
<1> DEFINE n == Cardinality(set)
<1>1. IsFiniteSet(set)
  <2>1. 1 \in Int /\ MaxSeq \in Int /\ set \subseteq 1..MaxSeq
    BY Constants DEF Numbers
  <2>2. IsFiniteSet(1..MaxSeq)
    BY <2>1, FS_Interval
  <2> QED
    BY <2>1, <2>2, FS_Subset
<1>2. n \in Nat
  BY <1>1, FS_CardinalityType
<1>3. w \in [1..n -> set] /\ \A i, j \in 1..n : i < j => w[i] < w[j]
  BY DEF Ascending
<1>4. w \in Seq(Numbers) /\ Len(w) = n /\ DOMAIN w = 1..n
  BY <1>2, <1>3
<1>5. \A i \in 1..n : w[i] \in Int
  <2>1. \A s \in set : s \in Int
    BY Constants DEF Numbers
  <2> QED
    BY <1>3, <2>1
<1>6. w \in Injection(1..n, set)
  <2>1. ASSUME NEW i \in 1..n, NEW j \in 1..n, w[i] = w[j] PROVE i = j
    BY <1>2, <1>3, <1>5, <2>1
  <2> QED
    BY <1>3, <2>1 DEF Injection, IsInjective
<1>7. IsFiniteSet(1..n) /\ Cardinality(1..n) = n
  BY <1>2, FS_Interval
<1>8. w \in Surjection(1..n, set)
  BY <1>1, <1>6, <1>7, FS_Injection
<1>9. Range(w) = set
  BY <1>3, <1>8 DEF Surjection, Range
<1> QED
  BY <1>2, <1>3, <1>4, <1>9

-----------------------------------------------------------------------------
(* Every step keeps the invariant.                                         *)

LEMMA InitInv == Init => Inv
<1> SUFFICES ASSUME Init PROVE Inv
  OBVIOUS
<1>1. TypeOK
  BY Constants DEF Init, TypeOK, RunStatus
<1>2. Rows = {} /\ Shown = {} /\ Range(wire) = {}
  BY DEF Init, Rows, Shown, Range
<1>3. StoredInv /\ OrderInv /\ PositionInv /\ ReplayInv
  BY <1>2 DEF Init, StoredInv, OrderInv, TranscriptSorted, PositionInv, ReplayInv
<1>4. StatusIsLatest
  BY <1>2 DEF Init, StatusIsLatest
<1> QED
  BY <1>1, <1>3, <1>4 DEF Inv

\* New rows leave the old ones, and what they mean, alone.
LEMMA InsertInv ==
    ASSUME Inv, NEW s \in Numbers, NEW e \in Events, Insert(s, e) PROVE Inv'
<1> USE DEF Insert, stream, store
<1>1. TypeOK'
  BY DEF Inv, TypeOK, Rows
<1>2. Rows \subseteq Rows' /\ s \notin Rows /\ \A t \in Rows : event'[t] = event[t]
  BY DEF Inv, TypeOK, Rows
<1>3. \A t \in Rows' : event'[t] \in Events
  BY DEF Inv, TypeOK, StoredInv, Rows
<1>4. Shown' = Shown /\ Range(wire') = Range(wire)
  BY DEF Shown
<1>5. StoredInv'
  BY <1>2, <1>3, <1>4 DEF Inv, StoredInv
<1>6. OrderInv' /\ PositionInv'
  BY <1>4 DEF Inv, OrderInv, TranscriptSorted, PositionInv
<1>7. ReplayInv'
  BY <1>2, <1>4 DEF Inv, ReplayInv, StoredInv, IsPresence, Due
<1>8. {t \in Shown : event[t].type \in RunStatus}' = {t \in Shown : event[t].type \in RunStatus}
  BY <1>2, <1>4 DEF Inv, StoredInv
<1>9. StatusIsLatest'
  BY <1>2, <1>4, <1>8 DEF Inv, StatusIsLatest, StoredInv
<1> QED
  BY <1>1, <1>5, <1>6, <1>7, <1>9 DEF Inv

\* A message at the end of the wire delays no other.
LEMMA PublishInv ==
    ASSUME Inv, NEW s \in Numbers, Publish(s) PROVE Inv'
<1> USE DEF Publish, store
<1>1. TypeOK'
  BY DEF Inv, TypeOK
<1>2. Rows' = Rows /\ s \in Rows /\ Shown' = Shown /\ event' = event
  BY DEF Inv, TypeOK, Rows, Shown
<1>3. /\ wire \in Seq(Numbers) /\ wire' \in Seq(Numbers) /\ Len(wire) \in Nat /\ Len(wire') \in Nat
      /\ Len(wire) <= Len(wire')
      /\ \A i \in 1..Len(wire) : wire'[i] = wire[i]
      /\ \A i \in 1..Len(wire') : i \in 1..Len(wire) \/ wire'[i] = s
      /\ DOMAIN wire = 1..Len(wire) /\ DOMAIN wire' = 1..Len(wire')
  BY DEF Inv, TypeOK
<1>4. Range(wire') \subseteq Range(wire) \cup {s}
  BY <1>3 DEF Range
<1>5. StoredInv'
  BY <1>2, <1>4 DEF Inv, StoredInv
<1>6. OrderInv' /\ PositionInv'
  BY <1>2 DEF Inv, OrderInv, TranscriptSorted, PositionInv
<1>7. \A t : Due(t) => Due(t)'
  BY <1>3 DEF Due
<1>8. ReplayInv'
  BY <1>2, <1>7 DEF Inv, ReplayInv, IsPresence
<1>9. StatusIsLatest'
  BY <1>2 DEF Inv, StatusIsLatest
<1> QED
  BY <1>1, <1>5, <1>6, <1>8, <1>9 DEF Inv

\* A page that is opened starts from nothing.
LEMMA VisitInv ==
    ASSUME Inv, Visit PROVE Inv'
<1> USE DEF Visit, writers
<1>1. TypeOK'
  BY Constants DEF Inv, TypeOK, RunStatus
<1>2. Rows' = Rows /\ Shown' = {} /\ Range(wire') = {}
  BY DEF Rows, Shown, Range
<1>3. StoredInv'
  BY <1>2 DEF Inv, StoredInv
<1>4. OrderInv' /\ PositionInv' /\ ReplayInv'
  BY <1>2 DEF OrderInv, TranscriptSorted, PositionInv, ReplayInv
<1>5. StatusIsLatest'
  BY <1>2 DEF StatusIsLatest
<1> QED
  BY <1>1, <1>3, <1>4, <1>5 DEF Inv

\* The stream alone breaks, and comes back where it was.
LEMMA ConnectionInv ==
    ASSUME Inv, Break \/ Reconnect \/ Subscribe PROVE Inv'
<1> USE DEF Break, Reconnect, Subscribe, writers, store, history
<1>1. TypeOK'
  <2>1. UNCHANGED <<phase, event, lastEventId, order, lastSequence, status, thinkingAgent, gap, late>>
    OBVIOUS
  <2>2. conn' \in {"closed", "open", "live"} /\ since' \in {since, lastEventId}
    OBVIOUS
  <2>3. (wire' = wire \/ wire' = << >>) /\ (replayed' = replayed \/ replayed' = {})
    OBVIOUS
  <2>4. visits' \in 0..MaxVisits
    BY Constants DEF Inv, TypeOK
  <2>5. conn' \in {"closed", "open", "subscribing", "live"}
    BY <2>2
  <2> HIDE DEF Break, Reconnect, Subscribe
  <2>6. /\ since \in 0..MaxSeq /\ lastEventId \in 0..MaxSeq /\ wire \in Seq(Numbers)
        /\ replayed \subseteq Numbers
    BY DEF Inv, TypeOK
  <2>7. since' \in 0..MaxSeq
    BY <2>2, <2>6
  <2>8. wire' \in Seq(Numbers) /\ replayed' \subseteq Numbers
    <3>1. << >> \in Seq(Numbers)
      OBVIOUS
    <3>2. wire' \in Seq(Numbers)
      BY <2>3, <2>6, <3>1, Zenon
    <3> QED
      BY <2>3, <2>6, <3>2
  <2> QED
    BY <2>1, <2>4, <2>5, <2>7, <2>8 DEF Inv, TypeOK
<1>2. Rows' = Rows /\ Shown' = Shown /\ event' = event
  BY DEF Rows, Shown
<1>3. Range(wire') \subseteq Rows /\ replayed' \subseteq Rows
  BY DEF Inv, StoredInv, Range
<1>4. StoredInv'
  BY <1>2, <1>3 DEF Inv, StoredInv
<1>5. OrderInv' /\ PositionInv'
  BY <1>2 DEF Inv, OrderInv, TranscriptSorted, PositionInv
<1>6. ReplayInv'
  BY <1>2 DEF Inv, ReplayInv, IsPresence, Due
<1>7. StatusIsLatest'
  BY <1>2 DEF Inv, StatusIsLatest
<1> QED
  BY <1>1, <1>4, <1>5, <1>6, <1>7 DEF Inv

\* Each row of a replay from the beginning is due.
LEMMA ReplayStepInv ==
    ASSUME Inv, Replay PROVE Inv'
<1> USE DEF Replay, writers, store
<1> DEFINE rows == {s \in Rows : s > since}
<1>1. rows \subseteq Numbers /\ wire' \in Ascending(rows) /\ replayed' = rows
  BY DEF Rows
<1>2. /\ wire' \in Seq(Numbers) /\ Len(wire') \in Nat /\ DOMAIN wire' = 1..Len(wire')
      /\ \A i, j \in 1..Len(wire') : i < j => wire'[i] < wire'[j]
      /\ Range(wire') = rows
  BY <1>1, AscendingCovers
<1>3. TypeOK'
  BY <1>1, <1>2 DEF Inv, TypeOK
<1>4. Rows' = Rows /\ Shown' = Shown /\ event' = event
  BY DEF Rows, Shown
<1>5. StoredInv'
  BY <1>1, <1>2, <1>4 DEF Inv, StoredInv
<1>6. OrderInv' /\ PositionInv'
  BY <1>4 DEF Inv, OrderInv, TranscriptSorted, PositionInv
<1>7. ASSUME since' = 0, NEW s \in replayed' PROVE Due(s)'
  <2>1. lastSequence' = 0 /\ s \in Numbers /\ s > 0
    BY <1>1, <1>7, Constants DEF Inv, PositionInv, Numbers
  <2>2. PICK i \in 1..Len(wire') : wire'[i] = s
    BY <1>1, <1>2 DEF Range
  <2>3. \A j \in 1..(i - 1) : wire'[j] < s
    BY <1>2, <2>2
  <2> QED
    BY <2>1, <2>2, <2>3 DEF Due
<1>8. ReplayInv'
  BY <1>7 DEF ReplayInv
<1>9. StatusIsLatest'
  BY <1>4 DEF Inv, StatusIsLatest
<1> QED
  BY <1>3, <1>5, <1>6, <1>8, <1>9 DEF Inv

\* A frame joins the transcript only if it is the highest so far; what is due
\* behind it stays due.
LEMMA ReceiveInv ==
    ASSUME Inv, Receive PROVE Inv'
<1> DEFINE h == Head(wire)
           taken == ~IsPresence(h) /\ Fresh(h)
<1>1. /\ wire \in Seq(Numbers) /\ wire # << >> /\ wire' = Tail(wire)
      /\ wire' \in Seq(Numbers) /\ Len(wire) \in Nat /\ Len(wire') = Len(wire) - 1
      /\ DOMAIN wire = 1..Len(wire) /\ DOMAIN wire' = 1..Len(wire')
      /\ \A i \in 1..Len(wire') : wire'[i] = wire[i + 1]
      /\ h = wire[1] /\ h \in Numbers
  BY DEF Receive, Inv, TypeOK
<1>2. Rows' = Rows /\ event' = event /\ h \in Rows /\ event[h] \in Events /\ h \in Int /\ h > 0
  <2>1. h \in Range(wire)
    BY <1>1 DEF Range
  <2> QED
    BY <1>1, <2>1, Constants DEF Receive, writers, Rows, Inv, StoredInv, Numbers
<1>3. lastEventId' = h /\ UNCHANGED <<phase, event, conn, since, visits, gap, late, replayed>>
  BY DEF Receive, writers, history
<1>4. /\ order \in Seq(Numbers) /\ lastSequence \in 0..MaxSeq /\ lastSequence \in Int
      /\ DOMAIN order = 1..Len(order) /\ Len(order) \in Nat
      /\ \A i \in 1..Len(order) : order[i] \in Int /\ order[i] <= lastSequence
  <2>1. order \in Seq(Numbers) /\ lastSequence \in 0..MaxSeq
    BY DEF Inv, TypeOK
  <2>2. DOMAIN order = 1..Len(order) /\ Len(order) \in Nat
    BY <2>1
  <2>3. \A i \in 1..Len(order) : order[i] \in Numbers /\ order[i] \in Shown
    BY <2>1, <2>2 DEF Shown, Range
  <2>4. \A s \in Numbers : s \in Int
    BY Constants DEF Numbers
  <2> QED
    BY <2>1, <2>2, <2>3, <2>4, Constants DEF Inv, OrderInv
<1>5. thinkingAgent' \in Agents \cup {Nobody}
  <2>1. thinkingAgent' = ThinkingAfter(event[h]) /\ thinkingAgent \in Agents \cup {Nobody}
    BY DEF Receive, AppendEvent, Inv, TypeOK
  <2> QED
    BY <2>1, <1>2, EventFacts DEF ThinkingAfter
<1>6. CASE taken
  <2>1. lastSequence < h /\ order' = Append(order, h) /\ lastSequence' = h /\ status' = StatusAfter(event[h])
    BY <1>6 DEF Receive, AppendEvent, Fresh
  <2>2. /\ order' \in Seq(Numbers) /\ DOMAIN order' = 1..(Len(order) + 1)
        /\ \A i \in 1..Len(order) : order'[i] = order[i]
        /\ order'[Len(order) + 1] = h
    BY <2>1, <1>1, <1>4
  <2>3. Shown' = Shown \cup {h}
    BY <2>2, <1>4 DEF Shown, Range
  <2>4. status' \in RunStatus
    BY <2>1 DEF StatusAfter, Inv, TypeOK
  <2>5. TypeOK'
    BY <1>1, <1>3, <1>5, <2>1, <2>2, <2>4, Constants DEF Inv, TypeOK, Numbers
  <2>6. \A s \in Shown' : s <= lastSequence'
    BY <1>2, <1>4, <2>1, <2>2 DEF Shown, Range
  <2>7. TranscriptSorted'
    BY <1>2, <1>4, <2>1, <2>2 DEF Inv, OrderInv, TranscriptSorted
  <2>8. StatusIsLatest'
    <3> DEFINE ends == {s \in Shown : event[s].type \in RunStatus}
               ends2 == {s \in Shown' : event'[s].type \in RunStatus}
    <3>1. CASE event[h].type \in RunStatus
      <4>1. h \in ends2 /\ status' = event'[h].type
        BY <3>1, <1>2, <2>1, <2>3 DEF StatusAfter
      <4>2. \A t \in ends2 : t <= h
        BY <2>1, <2>6
      <4> QED
        BY <4>1, <4>2 DEF StatusIsLatest
    <3>2. CASE event[h].type \notin RunStatus
      <4>1. ends2 = ends /\ status' = status
        BY <3>2, <1>2, <2>1, <2>3 DEF StatusAfter
      <4> QED
        BY <4>1, <1>2 DEF Inv, StatusIsLatest
    <3> QED
      BY <3>1, <3>2
  <2>9. StoredInv'
    BY <1>1, <1>2, <1>3, <2>3 DEF Inv, StoredInv, Range
  <2>10. PositionInv'
    BY <1>1, <1>2, <1>3 DEF Inv, PositionInv
  <2>11. ReplayInv'
    <3>1. ASSUME NEW s \in replayed, since = 0, conn \in {"subscribing", "live"}, ~IsPresence(s), s \notin Shown'
          PROVE  Due(s)'
      <4>1. Due(s)
        BY <3>1, <2>3 DEF Inv, ReplayInv
      <4>2. PICK i \in 1..Len(wire) : wire[i] = s /\ \A j \in 1..(i - 1) : wire[j] < s
        BY <4>1 DEF Due
      <4>3. i # 1
        BY <4>2, <1>1, <3>1, <2>3
      <4>4. h < s /\ i - 1 \in 1..Len(wire') /\ wire'[i - 1] = s
        BY <4>2, <4>3, <1>1
      <4>5. \A j \in 1..((i - 1) - 1) : wire'[j] < s
        <5>1. TAKE j \in 1..((i - 1) - 1)
        <5>2. wire'[j] = wire[j + 1] /\ j + 1 \in 1..(i - 1)
          BY <1>1, <4>2, <5>1
        <5> QED
          BY <5>2, <4>2
      <4> QED
        BY <4>4, <4>5, <2>1 DEF Due
    <3> QED
      BY <3>1, <1>2, <1>3 DEF ReplayInv, IsPresence
  <2> QED
    BY <2>5, <2>6, <2>7, <2>8, <2>9, <2>10, <2>11 DEF Inv, OrderInv
<1>7. CASE ~taken
  <2>1. UNCHANGED <<order, lastSequence, status>> /\ Shown' = Shown
    BY <1>7 DEF Receive, AppendEvent, Fresh, Shown
  <2>2. TypeOK'
    BY <1>1, <1>3, <1>5, <2>1 DEF Inv, TypeOK, Numbers
  <2>3. OrderInv' /\ StatusIsLatest'
    BY <1>2, <2>1 DEF Inv, OrderInv, TranscriptSorted, StatusIsLatest
  <2>4. StoredInv'
    BY <1>1, <1>2, <1>3, <2>1 DEF Inv, StoredInv, Range
  <2>5. PositionInv'
    BY <1>1, <1>2, <1>3 DEF Inv, PositionInv
  <2>6. ReplayInv'
    <3>1. ASSUME NEW s \in replayed, since = 0, conn \in {"subscribing", "live"}, ~IsPresence(s), s \notin Shown
          PROVE  Due(s)'
      <4>1. Due(s)
        BY <3>1 DEF Inv, ReplayInv
      <4>2. PICK i \in 1..Len(wire) : wire[i] = s /\ \A j \in 1..(i - 1) : wire[j] < s
        BY <4>1 DEF Due
      <4>3. lastSequence < s
        BY <4>1 DEF Due
      <4>4. i # 1
        BY <4>2, <4>3, <1>1, <1>2, <1>4, <1>7, <3>1 DEF Fresh
      <4>5. i - 1 \in 1..Len(wire') /\ wire'[i - 1] = s
        BY <4>2, <4>4, <1>1
      <4>6. \A j \in 1..((i - 1) - 1) : wire'[j] < s
        <5>1. TAKE j \in 1..((i - 1) - 1)
        <5>2. wire'[j] = wire[j + 1] /\ j + 1 \in 1..(i - 1)
          BY <1>1, <4>2, <5>1
        <5> QED
          BY <5>2, <4>2
      <4> QED
        BY <4>3, <4>5, <4>6, <2>1 DEF Due
    <3> QED
      BY <3>1, <1>2, <1>3, <2>1 DEF ReplayInv, IsPresence
  <2> QED
    BY <2>2, <2>3, <2>4, <2>5, <2>6 DEF Inv
<1> QED
  BY <1>6, <1>7

\* A page whose transcript holds a status is past asking for it.
LEMMA SyncStatusInv ==
    ASSUME Inv, NEW api \in ApiStatuses, SyncStatus(api) PROVE Inv'
<1> USE DEF SyncStatus, writers, stream, history
<1>1. TypeOK'
  BY StatusesAssumption DEF Inv, TypeOK
<1>2. Rows' = Rows /\ Shown' = Shown /\ event' = event
  BY DEF Rows, Shown
<1>3. StoredInv' /\ OrderInv' /\ PositionInv'
  BY <1>2 DEF Inv, StoredInv, OrderInv, TranscriptSorted, PositionInv
<1>4. ReplayInv'
  BY <1>2 DEF Inv, ReplayInv, IsPresence, Due
<1>5. StatusIsLatest'
  <2>1. {s \in Shown : event[s].type \in RunStatus} = {}
    <3>1. ASSUME NEW s \in Shown, event[s].type \in RunStatus, status = event[s].type PROVE FALSE
      BY <3>1, EventFacts DEF Inv, StoredInv
    <3> QED
      BY <3>1 DEF Inv, StatusIsLatest
  <2> QED
    BY <2>1, <1>2 DEF StatusIsLatest
<1> QED
  BY <1>1, <1>3, <1>4, <1>5 DEF Inv

LEMMA StutterInv ==
    ASSUME Inv, UNCHANGED vars PROVE Inv'
<1> USE DEF vars
<1>1. TypeOK' /\ StoredInv' /\ OrderInv'
  BY DEF Inv, TypeOK, StoredInv, OrderInv, TranscriptSorted, Rows, Shown, Range
<1>2. PositionInv' /\ ReplayInv'
  BY DEF Inv, PositionInv, ReplayInv, IsPresence, Due, Shown, Range
<1>3. StatusIsLatest'
  BY DEF Inv, StatusIsLatest, Shown, Range
<1> QED
  BY <1>1, <1>2, <1>3 DEF Inv

LEMMA Invariant == Spec => []Inv
<1>1. Init => Inv
  BY InitInv
<1>2. Inv /\ [Next]_vars => Inv'
  <2> SUFFICES ASSUME Inv, [Next]_vars PROVE Inv'
    OBVIOUS
  <2>1. ASSUME NEW s \in Numbers, Publish(s) \/ \E e \in Events : Insert(s, e) PROVE Inv'
    BY <2>1, PublishInv, InsertInv
  <2>2. CASE Visit
    BY <2>2, VisitInv
  <2>3. CASE Break \/ Reconnect \/ Subscribe
    BY <2>3, ConnectionInv
  <2>4. CASE Replay
    BY <2>4, ReplayStepInv
  <2>5. CASE Receive
    BY <2>5, ReceiveInv
  <2>6. CASE \E api \in ApiStatuses : SyncStatus(api)
    BY <2>6, SyncStatusInv
  <2>7. CASE UNCHANGED vars
    BY <2>7, StutterInv
  <2> QED
    BY <2>1, <2>2, <2>3, <2>4, <2>5, <2>6, <2>7 DEF Next
<1> QED
  BY <1>1, <1>2, PTL DEF Spec

-----------------------------------------------------------------------------
(* What a caught-up client misses.  On top of Inv: why an event that was   *)
(* neither overtaken nor published between replay and subscription cannot  *)
(* slip past the high-water mark.                                          *)

\* An event of the transcript for which nothing has gone wrong.
Good(s) == s \in Rows /\ ~IsPresence(s) /\ s \notin gap \cup late

\* Stored and not published, behind one that is: it will be late.
Doomed(s) == phase[s] = "stored" /\ \E t \in Rows : t > s /\ phase[t] = "done"

\* The two marks are numbers of rows, or zero.
MarkInv == {lastEventId, lastSequence} \subseteq Rows \cup {0}

\* No good event lies behind a mark without being shown ...
PastInv ==
    \A s \in Numbers : Good(s) /\ (s <= lastEventId \/ s <= lastSequence) => s \in Shown \/ Doomed(s)

\* ... nor will it: whatever is on the way is preceded there by the good events below it.
WireInv ==
    \A i \in 1..Len(wire), s \in Numbers : Good(s) /\ s < wire[i] =>
        s \in Shown \/ Doomed(s) \/ \E j \in 1..(i - 1) : wire[j] = s

\* What was published well has reached a stream past its replay.
LiveInv ==
    conn \in {"subscribing", "live"} =>
        \A s \in Numbers : Good(s) /\ phase[s] = "done" => s \in Shown \/ s \in Range(wire)

GapInv == MarkInv /\ PastInv /\ WireInv /\ LiveInv

LEMMA InitGap == Init => GapInv
  BY Constants DEF Init, GapInv, MarkInv, PastInv, WireInv, LiveInv, Good, Rows, Numbers

\* A row below another is late; one above all others is behind no mark.
LEMMA InsertGap ==
    ASSUME Inv, GapInv, NEW s \in Numbers, NEW e \in Events, Insert(s, e) PROVE GapInv'
<1> USE DEF Insert, stream, store
<1>1. /\ Rows' = Rows \cup {s} /\ s \notin Rows /\ s \in Int /\ s > 0
      /\ Shown' = Shown /\ wire' = wire /\ conn' = conn /\ gap' = gap
      /\ lastEventId' = lastEventId /\ lastSequence' = lastSequence
  BY Constants DEF Inv, TypeOK, Rows, Shown, Numbers
<1>2. \A t \in Rows : event'[t] = event[t] /\ phase'[t] = phase[t] /\ phase'[s] = "stored"
  BY DEF Inv, TypeOK, Rows
<1>3. Good(s)' => \A t \in Rows : ~(t > s)
  BY DEF Good
<1>4. \A t \in Rows : Good(t)' => Good(t)
  BY <1>1, <1>2 DEF Good, IsPresence
<1>5. \A t \in Rows : Doomed(t) => Doomed(t)'
  BY <1>1, <1>2 DEF Doomed
<1>6. \A t \in Numbers : Good(t)' => t \in Rows \cup {s}
  BY <1>1 DEF Good
<1>7. MarkInv'
  BY <1>1 DEF GapInv, MarkInv
<1>8. PastInv'
  <2>1. Good(s)' => ~(s <= lastEventId \/ s <= lastSequence)
    BY <1>1, <1>3, Constants DEF GapInv, MarkInv, Inv, TypeOK
  <2> QED
    BY <1>1, <1>4, <1>5, <1>6, <2>1 DEF GapInv, PastInv
<1>9. WireInv'
  <2>1. \A i \in 1..Len(wire) : wire[i] \in Rows
    BY DEF Inv, TypeOK, StoredInv, Range
  <2>2. \A i \in 1..Len(wire) : Good(s)' => ~(s < wire[i])
    BY <2>1, <1>1, <1>3, Constants DEF Rows, Numbers
  <2> QED
    BY <1>1, <1>4, <1>5, <1>6, <2>2 DEF GapInv, WireInv
<1>10. LiveInv'
  BY <1>1, <1>2, <1>4, <1>6 DEF GapInv, LiveInv
<1> QED
  BY <1>7, <1>8, <1>9, <1>10 DEF GapInv

\* Publishing seals the fate of the rows below that are only stored, and goes to
\* the end of the wire, behind all that was published well before.
LEMMA PublishGap ==
    ASSUME Inv, GapInv, NEW s \in Numbers, Publish(s) PROVE GapInv'
<1> USE DEF Publish, store
<1>1. /\ Rows' = Rows /\ s \in Rows /\ Shown' = Shown /\ event' = event /\ conn' = conn
      /\ lastEventId' = lastEventId /\ lastSequence' = lastSequence
      /\ phase[s] = "stored" /\ phase'[s] = "done"
      /\ \A t \in Numbers : t # s => phase'[t] = phase[t]
  BY DEF Inv, TypeOK, Rows, Shown
<1>2. \A t \in Numbers : Good(t)' => Good(t)
  BY <1>1 DEF Good, IsPresence
<1>3. \A t \in Numbers : t # s /\ Doomed(t) => Doomed(t)'
  BY <1>1 DEF Doomed
<1>4. Good(s)' => ~Doomed(s)
  BY DEF Good, Doomed
<1>5. MarkInv'
  BY <1>1 DEF GapInv, MarkInv
<1>6. PastInv'
  BY <1>1, <1>2, <1>3, <1>4 DEF GapInv, PastInv
<1>7. ASSUME wire' = wire PROVE WireInv'
  BY <1>1, <1>2, <1>3, <1>4, <1>7 DEF GapInv, WireInv
<1>8. ASSUME wire' = Append(wire, s), conn = "live" PROVE WireInv' /\ LiveInv'
  <2>1. /\ wire \in Seq(Numbers) /\ wire' \in Seq(Numbers) /\ Len(wire) \in Nat
        /\ Len(wire') = Len(wire) + 1
        /\ \A i \in 1..Len(wire) : wire'[i] = wire[i]
        /\ wire'[Len(wire) + 1] = s
        /\ DOMAIN wire = 1..Len(wire) /\ DOMAIN wire' = 1..Len(wire')
    BY <1>8 DEF Inv, TypeOK
  <2>2. \A t \in Numbers : Good(t)' /\ phase[t] = "done" =>
            t \in Shown \/ \E j \in 1..Len(wire) : wire'[j] = t
    BY <1>2, <1>8, <2>1 DEF GapInv, LiveInv, Range
  <2>3. ASSUME NEW t \in Numbers, Good(t)', t < s PROVE t \in Shown \/ Doomed(t)' \/ \E j \in 1..Len(wire) : wire'[j] = t
    <3>1. t # s /\ phase[t] \in {"stored", "done"}
      BY <2>3, <1>1, Constants DEF Good, Rows, Numbers, Inv, TypeOK
    <3>2. CASE phase[t] = "stored"
      <4>1. phase'[t] = "stored" /\ s > t
        BY <1>1, <2>3, <3>1, <3>2, Constants DEF Numbers
      <4> QED
        BY <1>1, <4>1 DEF Doomed
    <3> QED
      BY <2>2, <2>3, <3>1, <3>2
  <2>4. WireInv'
    <3>1. ASSUME NEW i \in 1..Len(wire'), NEW t \in Numbers, Good(t)', t < wire'[i]
          PROVE  t \in Shown \/ Doomed(t)' \/ \E j \in 1..(i - 1) : wire'[j] = t
      <4>1. CASE i = Len(wire) + 1
        BY <2>1, <2>3, <3>1, <4>1
      <4>2. CASE i \in 1..Len(wire)
        BY <1>2, <1>3, <1>4, <2>1, <3>1, <4>2 DEF GapInv, WireInv
      <4> QED
        BY <2>1, <4>1, <4>2
    <3> QED
      BY <3>1, <1>1 DEF WireInv
  <2>5. LiveInv'
    BY <1>1, <2>1, <2>2 DEF LiveInv, Range
  <2> QED
    BY <2>4, <2>5
<1>9. ASSUME wire' = wire, conn # "live" PROVE LiveInv'
  <2>1. conn = "subscribing" => s \in gap'
    OBVIOUS
  <2> QED
    BY <1>1, <1>2, <1>9, <2>1 DEF GapInv, LiveInv, Good
<1> QED
  BY <1>5, <1>6, <1>7, <1>8, <1>9 DEF GapInv

\* Nothing is behind the marks of a page just opened.
LEMMA VisitGap ==
    ASSUME Inv, Visit PROVE GapInv'
<1> USE DEF Visit
<1>1. \A s \in Numbers : ~(s <= 0)
  BY Constants DEF Numbers
<1> QED
  BY <1>1 DEF GapInv, MarkInv, PastInv, WireInv, LiveInv

LEMMA ConnectionGap ==
    ASSUME Inv, GapInv, Break \/ Reconnect \/ Subscribe PROVE GapInv'
<1> USE DEF Break, Reconnect, Subscribe, writers, store, history
<1>1. Rows' = Rows /\ Shown' = Shown /\ lastEventId' = lastEventId /\ lastSequence' = lastSequence
  BY DEF Rows, Shown
<1>2. \A s : (Good(s)' <=> Good(s)) /\ (Doomed(s)' <=> Doomed(s))
  BY <1>1 DEF Good, Doomed, IsPresence
<1>3. MarkInv' /\ PastInv'
  BY <1>1, <1>2 DEF GapInv, MarkInv, PastInv
<1>4. WireInv'
  BY <1>1, <1>2 DEF GapInv, WireInv
<1>5. LiveInv'
  BY <1>1, <1>2 DEF GapInv, LiveInv
<1> QED
  BY <1>3, <1>4, <1>5 DEF GapInv

\* The replay sends all rows above the mark from which it starts, in order.
LEMMA ReplayGap ==
    ASSUME Inv, GapInv, Replay PROVE GapInv'
<1> USE DEF Replay, writers, store
<1> DEFINE rows == {s \in Rows : s > since}
<1>1. rows \subseteq Numbers /\ wire' \in Ascending(rows)
  BY DEF Rows
<1>2. /\ wire' \in Seq(Numbers) /\ Len(wire') \in Nat /\ DOMAIN wire' = 1..Len(wire')
      /\ \A i, j \in 1..Len(wire') : i < j => wire'[i] < wire'[j]
      /\ Range(wire') = rows
  BY <1>1, AscendingCovers
<1>3. /\ Rows' = Rows /\ Shown' = Shown /\ lastEventId' = lastEventId /\ lastSequence' = lastSequence
      /\ since = lastEventId /\ since \in Int /\ phase' = phase
  BY Constants DEF Rows, Shown, Inv, PositionInv, TypeOK
<1>4. \A s : (Good(s)' <=> Good(s)) /\ (Doomed(s)' <=> Doomed(s))
  BY <1>3 DEF Good, Doomed, IsPresence
<1>5. MarkInv' /\ PastInv'
  BY <1>3, <1>4 DEF GapInv, MarkInv, PastInv
<1>6. ASSUME NEW s \in Numbers, Good(s) PROVE s \in Shown \/ Doomed(s) \/ s \in rows
  <2>1. s \in Rows /\ s \in Int
    BY <1>6, Constants DEF Good, Numbers
  <2> QED
    BY <1>3, <1>6, <2>1 DEF GapInv, PastInv
<1>7. WireInv'
  <2>1. ASSUME NEW i \in 1..Len(wire'), NEW s \in Numbers, Good(s), s < wire'[i], s \in rows
        PROVE  \E j \in 1..(i - 1) : wire'[j] = s
    <3>1. PICK j \in 1..Len(wire') : wire'[j] = s
      BY <1>2, <2>1 DEF Range
    <3>2. s \in Int /\ wire'[i] \in Int
      BY <1>2, <2>1, Constants DEF Numbers
    <3>3. j < i
      BY <1>2, <2>1, <3>1, <3>2
    <3> QED
      BY <3>1, <3>3
  <2> QED
    BY <1>3, <1>4, <1>6, <2>1 DEF WireInv
<1>8. LiveInv'
  BY <1>2, <1>3, <1>4, <1>6 DEF LiveInv, Doomed
<1> QED
  BY <1>5, <1>7, <1>8 DEF GapInv

\* Receiving the first of the wire: its number.
LEMMA Received ==
    ASSUME Inv, Receive
    PROVE  /\ wire \in Seq(Numbers) /\ wire # << >> /\ wire' = Tail(wire)
           /\ wire' \in Seq(Numbers) /\ Len(wire) \in Nat /\ Len(wire) >= 1 /\ Len(wire') = Len(wire) - 1
           /\ DOMAIN wire = 1..Len(wire) /\ DOMAIN wire' = 1..Len(wire')
           /\ \A i \in 1..Len(wire') : wire'[i] = wire[i + 1]
           /\ Head(wire) = wire[1] /\ lastEventId' = wire[1]
           /\ wire[1] \in Rows /\ wire[1] \in Int /\ event[wire[1]] \in Events
           /\ Rows' = Rows
           /\ UNCHANGED <<phase, event, conn, since, visits, gap, late, replayed>>
           /\ lastSequence \in Int
<1>1. /\ wire \in Seq(Numbers) /\ wire # << >> /\ wire' = Tail(wire)
      /\ wire' \in Seq(Numbers) /\ Len(wire) \in Nat /\ Len(wire) >= 1 /\ Len(wire') = Len(wire) - 1
      /\ DOMAIN wire = 1..Len(wire) /\ DOMAIN wire' = 1..Len(wire')
      /\ \A i \in 1..Len(wire') : wire'[i] = wire[i + 1]
      /\ Head(wire) = wire[1]
  BY DEF Receive, Inv, TypeOK
<1>2. wire[1] \in Rows
  BY <1>1 DEF Inv, StoredInv, Range
<1>3. wire[1] \in Int /\ event[wire[1]] \in Events /\ lastSequence \in Int
  BY <1>2, Constants DEF Inv, StoredInv, TypeOK, Rows, Numbers
<1>4. Rows' = Rows /\ lastEventId' = wire[1]
  BY <1>1 DEF Receive, writers, Rows
<1>5. UNCHANGED <<phase, event, conn, since, visits, gap, late, replayed>>
  BY DEF Receive, writers, history
<1> QED
  BY <1>1, <1>2, <1>3, <1>4, <1>5

\* A good event joins the transcript when it is received, or is there already:
\* no higher one was received before it.
LEMMA ReceiveGap ==
    ASSUME Inv, GapInv, Receive PROVE GapInv'
<1> DEFINE h == wire[1]
<1>1. /\ wire \in Seq(Numbers) /\ Len(wire) \in Nat /\ Len(wire) >= 1 /\ Len(wire') = Len(wire) - 1
      /\ DOMAIN wire = 1..Len(wire) /\ DOMAIN wire' = 1..Len(wire')
      /\ \A i \in 1..Len(wire') : wire'[i] = wire[i + 1]
      /\ Head(wire) = h /\ lastEventId' = h /\ h \in Rows /\ h \in Int /\ Rows' = Rows /\ lastSequence \in Int
      /\ UNCHANGED <<phase, event, conn, gap, late>>
  BY Received
<1>2. \A s : (Good(s)' <=> Good(s)) /\ (Doomed(s)' <=> Doomed(s))
  BY <1>1 DEF Good, Doomed, IsPresence
<1>3. /\ Shown \subseteq Shown'
      /\ lastSequence' \in {lastSequence, h}
      /\ ~IsPresence(h) /\ h > lastSequence => h \in Shown'
  <2>1. order \in Seq(Numbers)
    BY DEF Inv, TypeOK
  <2>2. CASE ~IsPresence(h) /\ Fresh(h)
    <3>1. order' = Append(order, h) /\ lastSequence' = h /\ h \in Numbers
      BY <1>1, <2>2 DEF Receive, AppendEvent, Rows
    <3>2. /\ DOMAIN order' = 1..(Len(order) + 1) /\ DOMAIN order = 1..Len(order) /\ Len(order) \in Nat
          /\ \A i \in 1..Len(order) : order'[i] = order[i]
          /\ order'[Len(order) + 1] = h
      BY <2>1, <3>1
    <3> QED
      BY <3>1, <3>2 DEF Shown, Range
  <2>3. CASE ~(~IsPresence(h) /\ Fresh(h))
    BY <1>1, <2>3 DEF Receive, AppendEvent, Fresh, Shown
  <2> QED
    BY <2>2, <2>3
<1>4. Good(h) => h \in Shown' \/ Doomed(h)
  <2>1. Good(h) /\ ~(h > lastSequence) => h \in Shown \/ Doomed(h)
    BY <1>1 DEF GapInv, PastInv, Rows
  <2> QED
    BY <1>3, <2>1 DEF Good
<1>5. \A s \in Numbers : Good(s) /\ s < h => s \in Shown \/ Doomed(s)
  BY <1>1 DEF GapInv, WireInv
<1>6. MarkInv'
  BY <1>1, <1>3 DEF GapInv, MarkInv
<1>7. PastInv'
  <2>1. ASSUME NEW s \in Numbers, Good(s), s <= h \/ s <= lastSequence PROVE s \in Shown' \/ Doomed(s)
    <3>1. s \in Int
      BY Constants DEF Numbers
    <3>2. s < h \/ s = h \/ s <= lastSequence
      BY <1>1, <2>1, <3>1
    <3> QED
      BY <1>3, <1>4, <1>5, <2>1, <3>2 DEF GapInv, PastInv
  <2> QED
    BY <1>1, <1>2, <1>3, <2>1 DEF PastInv
<1>8. WireInv'
  <2>1. ASSUME NEW i \in 1..Len(wire'), NEW s \in Numbers, Good(s), s < wire'[i]
        PROVE  s \in Shown' \/ Doomed(s) \/ \E j \in 1..(i - 1) : wire'[j] = s
    <3>1. i + 1 \in 1..Len(wire) /\ s < wire[i + 1]
      BY <1>1, <2>1
    <3>2. CASE s \in Shown \/ Doomed(s)
      BY <1>3, <3>2
    <3>3. ASSUME NEW j \in 1..i, wire[j] = s PROVE s \in Shown' \/ Doomed(s) \/ \E k \in 1..(i - 1) : wire'[k] = s
      <4>1. CASE j = 1
        BY <1>4, <2>1, <3>3, <4>1
      <4>2. CASE j # 1
        <5>1. j - 1 \in 1..(i - 1) /\ j - 1 \in 1..Len(wire') /\ (j - 1) + 1 = j
          BY <1>1, <4>2
        <5> QED
          BY <1>1, <3>3, <5>1
      <4> QED
        BY <4>1, <4>2
    <3>4. (i + 1) - 1 = i
      OBVIOUS
    <3> QED
      BY <2>1, <3>1, <3>2, <3>3, <3>4 DEF GapInv, WireInv
  <2> QED
    BY <1>2, <2>1 DEF WireInv
<1>9. LiveInv'
  <2>1. ASSUME NEW s \in Numbers, Good(s), phase[s] = "done", s \in Range(wire) PROVE s \in Shown' \/ s \in Range(wire')
    <3>1. PICK j \in 1..Len(wire) : wire[j] = s
      BY <1>1, <2>1 DEF Range
    <3>2. CASE j = 1
      BY <1>4, <2>1, <3>1, <3>2 DEF Doomed
    <3>3. CASE j # 1
      <4>1. j - 1 \in 1..Len(wire') /\ (j - 1) + 1 = j
        BY <1>1, <3>3
      <4> QED
        BY <1>1, <3>1, <4>1 DEF Range
    <3> QED
      BY <3>2, <3>3
  <2> QED
    BY <1>1, <1>2, <1>3, <2>1 DEF GapInv, LiveInv
<1> QED
  BY <1>6, <1>7, <1>8, <1>9 DEF GapInv

\* A step that leaves rows, stream and marks alone.
LEMMA IdleGap ==
    ASSUME GapInv, UNCHANGED <<phase, event, conn, wire, lastEventId, order, lastSequence, gap, late>>
    PROVE  GapInv'
<1>1. Rows' = Rows /\ Shown' = Shown /\ Range(wire') = Range(wire)
  BY DEF Rows, Shown
<1>2. \A s : (Good(s)' <=> Good(s)) /\ (Doomed(s)' <=> Doomed(s))
  BY <1>1 DEF Good, Doomed, IsPresence
<1>3. MarkInv' /\ PastInv'
  BY <1>1, <1>2 DEF GapInv, MarkInv, PastInv
<1>4. WireInv' /\ LiveInv'
  BY <1>1, <1>2 DEF GapInv, WireInv, LiveInv
<1> QED
  BY <1>3, <1>4 DEF GapInv

LEMMA GapInvariant == Spec => []GapInv
<1>1. Init => GapInv
  BY InitGap
<1>2. Inv /\ GapInv /\ [Next]_vars => GapInv'
  <2> SUFFICES ASSUME Inv, GapInv, [Next]_vars PROVE GapInv'
    OBVIOUS
  <2>1. ASSUME NEW s \in Numbers, Publish(s) \/ \E e \in Events : Insert(s, e) PROVE GapInv'
    BY <2>1, PublishGap, InsertGap
  <2>2. CASE Visit
    BY <2>2, VisitGap
  <2>3. CASE Break \/ Reconnect \/ Subscribe
    BY <2>3, ConnectionGap
  <2>4. CASE Replay
    BY <2>4, ReplayGap
  <2>5. CASE Receive
    BY <2>5, ReceiveGap
  <2>6. CASE \E api \in ApiStatuses : SyncStatus(api)
    BY <2>6, IdleGap DEF SyncStatus, writers, stream, history
  <2>7. CASE UNCHANGED vars
    BY <2>7, IdleGap DEF vars
  <2> QED
    BY <2>1, <2>2, <2>3, <2>4, <2>5, <2>6, <2>7 DEF Next
<1> QED
  BY <1>1, <1>2, Invariant, PTL DEF Spec

-----------------------------------------------------------------------------
(* The indicator.  When nothing is lost or overtaken, and never was, the   *)
(* client receives the rows one after the other without a hole.            *)

\* Nothing was published between a replay and a subscription, and nothing came,
\* or will come, after a higher number.
Smooth == gap = {} /\ late = {} /\ \A s \in Rows : ~Doomed(s)

\* The last number received, once all that is on the way has been.
Final == IF wire = << >> THEN lastEventId ELSE wire[Len(wire)]

FinalInv ==
    conn \in {"subscribing", "live"} => \A s \in Rows : phase[s] = "done" => s <= Final

NoneBetween(a, b) == \A s \in Rows : ~(a < s /\ s < b)

\* Each step of the wire goes to the next row.
StepInv ==
    /\ wire # << >> => NoneBetween(lastEventId, wire[1])
    /\ \A i \in 1..(Len(wire) - 1) : NoneBetween(wire[i], wire[i + 1])

Starts == {s \in Rows : event[s].type = "presence_thinking_start"}
Ends(t, s) == t > s /\ event[t].agentId = event[s].agentId
                    /\ event[t].type # "presence_thinking_start"

\* The indicator, seen from the last start, if that has been received: what the
\* table says, as far as it has been received.
IndicatorInv ==
    /\ Starts = {} => thinkingAgent = Nobody
    /\ \A s \in Starts : s <= lastEventId /\ (\A t \in Starts : t <= s) =>
          /\ thinkingAgent \in {event[s].agentId, Nobody}
          /\ (\E t \in Rows : Ends(t, s) /\ t <= lastEventId) => thinkingAgent = Nobody
          /\ (\A t \in Rows : ~Ends(t, s)) => thinkingAgent = event[s].agentId

SmoothInv == Smooth => FinalInv /\ StepInv /\ IndicatorInv

LEMMA InitSmooth == Init => SmoothInv
<1> SUFFICES ASSUME Init PROVE SmoothInv
  OBVIOUS
<1>1. Rows = {}
  BY DEF Init, Rows
<1> QED
  BY <1>1 DEF Init, SmoothInv, FinalInv, StepInv, IndicatorInv, Starts

\* A new row is above all others; nobody has received it.
LEMMA InsertSmooth ==
    ASSUME Inv, GapInv, SmoothInv, NEW s \in Numbers, NEW e \in Events, Insert(s, e) PROVE SmoothInv'
<1> SUFFICES ASSUME Smooth' PROVE (FinalInv /\ StepInv /\ IndicatorInv)'
  BY DEF SmoothInv
<1> USE DEF Insert, stream, store
<1>1. /\ Rows' = Rows \cup {s} /\ s \notin Rows /\ s \in Int /\ s > 0
      /\ wire' = wire /\ conn' = conn /\ gap' = gap
      /\ lastEventId' = lastEventId /\ thinkingAgent' = thinkingAgent
      /\ wire \in Seq(Numbers) /\ Len(wire) \in Nat
  BY Constants DEF Inv, TypeOK, Rows, Numbers
<1>2. \A t \in Rows : event'[t] = event[t] /\ phase'[t] = phase[t] /\ phase'[s] = "stored" /\ t \in Int
  BY Constants DEF Inv, TypeOK, Rows, Numbers
<1>3. \A t \in Rows : t < s
  <2>1. \A t \in Rows : ~(t > s)
    BY DEF Smooth
  <2> QED
    BY <1>1, <1>2, <2>1
<1>4. Smooth
  <2>1. \A t \in Rows : Doomed(t) => Doomed(t)'
    BY <1>1, <1>2 DEF Doomed
  <2>2. late = {}
    BY DEF Smooth
  <2> QED
    BY <1>1, <2>1, <2>2 DEF Smooth
<1>5. lastEventId < s /\ \A i \in 1..Len(wire) : wire[i] < s
  <2>1. \A i \in 1..Len(wire) : wire[i] \in Rows
    BY <1>1 DEF Inv, StoredInv, Range
  <2> QED
    BY <1>1, <1>3, <2>1 DEF GapInv, MarkInv
<1>6. FinalInv'
  BY <1>1, <1>2, <1>4 DEF SmoothInv, FinalInv, Final
<1>7. StepInv'
  <2>1. \A b : b \in Numbers /\ b < s => ~(s < b)
    BY <1>1, Constants DEF Numbers
  <2>2. \A i \in 1..Len(wire) : wire[i] \in Numbers
    BY <1>1
  <2>3. \A a : \A i \in 1..Len(wire) : NoneBetween(a, wire[i]) => NoneBetween(a, wire[i])'
    BY <1>1, <1>5, <2>1, <2>2 DEF NoneBetween
  <2>4. wire # << >> => 1 \in 1..Len(wire)
    BY <1>1
  <2>5. \A i \in 1..(Len(wire) - 1) : i + 1 \in 1..Len(wire)
    BY <1>1
  <2> QED
    BY <1>1, <1>4, <2>3, <2>4, <2>5 DEF SmoothInv, StepInv, NoneBetween
<1>8. IndicatorInv'
  <2>1. Starts \subseteq Starts' /\ Starts' \subseteq Starts \cup {s}
    BY <1>1, <1>2 DEF Starts
  <2>2. lastEventId \in Int
    BY Constants DEF Inv, TypeOK
  <2>3. \A x \in Starts' : x <= lastEventId => x \in Starts
    BY <1>1, <1>5, <2>1, <2>2
  <2>4. \A x \in Starts, t \in Rows : Ends(t, x)' <=> Ends(t, x)
    BY <1>2 DEF Ends, Starts
  <2>5. ASSUME NEW x \in Starts, x <= lastEventId, \A t \in Starts' : t <= x
        PROVE  /\ thinkingAgent \in {event'[x].agentId, Nobody}
               /\ (\E t \in Rows' : Ends(t, x)' /\ t <= lastEventId) => thinkingAgent = Nobody
               /\ (\A t \in Rows' : ~Ends(t, x)') => thinkingAgent = event'[x].agentId
    <3>1. event'[x] = event[x] /\ \A t \in Starts : t <= x
      BY <1>2, <2>1, <2>5 DEF Starts
    <3>2. /\ thinkingAgent \in {event[x].agentId, Nobody}
          /\ (\E t \in Rows : Ends(t, x) /\ t <= lastEventId) => thinkingAgent = Nobody
          /\ (\A t \in Rows : ~Ends(t, x)) => thinkingAgent = event[x].agentId
      BY <1>4, <2>5, <3>1 DEF SmoothInv, IndicatorInv
    <3>3. ~(s <= lastEventId)
      BY <1>1, <1>5, <2>2
    <3> QED
      BY <1>1, <2>4, <3>1, <3>2, <3>3
  <2> QED
    BY <1>1, <1>4, <2>1, <2>3, <2>5 DEF SmoothInv, IndicatorInv
<1> QED
  BY <1>6, <1>7, <1>8

\* What is published is above all that was published and, nothing below it being
\* left to publish, the next row.
LEMMA PublishSmooth ==
    ASSUME Inv, GapInv, SmoothInv, NEW s \in Numbers, Publish(s) PROVE SmoothInv'
<1> SUFFICES ASSUME Smooth' PROVE (FinalInv /\ StepInv /\ IndicatorInv)'
  BY DEF SmoothInv
<1> USE DEF Publish, store
<1>1. /\ Rows' = Rows /\ s \in Rows /\ event' = event /\ conn' = conn /\ s \in Int
      /\ lastEventId' = lastEventId /\ thinkingAgent' = thinkingAgent
      /\ phase[s] = "stored" /\ phase'[s] = "done"
      /\ \A t \in Numbers : t # s => phase'[t] = phase[t]
      /\ \A t \in Rows : t \in Int /\ t \in Numbers /\ phase[t] \in {"stored", "done"}
  BY Constants DEF Inv, TypeOK, Rows, Numbers
<1>2. ~Doomed(s) /\ late = {} /\ gap = {} /\ conn # "subscribing"
  BY DEF Smooth, Doomed
<1>3. Smooth
  <2>1. \A t \in Rows : t # s /\ Doomed(t) => Doomed(t)'
    BY <1>1 DEF Doomed
  <2> QED
    BY <1>1, <1>2, <2>1 DEF Smooth
<1>4. \A t \in Rows : t > s => phase[t] = "stored"
  BY <1>1, <1>2 DEF Doomed
<1>5. \A t \in Rows : t < s => phase[t] = "done"
  <2>1. ASSUME NEW t \in Rows, t < s, phase[t] = "stored" PROVE FALSE
    <3>1. phase'[t] = "stored" /\ s > t
      BY <1>1, <2>1
    <3> QED
      BY <1>1, <3>1 DEF Smooth, Doomed
  <2> QED
    BY <1>1, <2>1
<1>6. CASE conn = "live"
  <2>1. /\ wire \in Seq(Numbers) /\ Len(wire) \in Nat /\ wire' = Append(wire, s)
        /\ Len(wire') = Len(wire) + 1 /\ wire' # << >>
        /\ \A i \in 1..Len(wire) : wire'[i] = wire[i]
        /\ wire'[Len(wire')] = s
        /\ (wire = << >> <=> Len(wire) = 0)
    BY <1>6 DEF Inv, TypeOK
  <2>2. FinalInv'
    <3>1. \A t \in Rows : phase'[t] = "done" => t <= s
      BY <1>1, <1>4
    <3> QED
      BY <1>1, <2>1, <3>1 DEF FinalInv, Final
  <2>3. NoneBetween(Final, s)
    <3>1. Final \in Int
      BY <2>1, Constants DEF Final, Inv, TypeOK, Numbers
    <3>2. ASSUME NEW t \in Rows, Final < t, t < s PROVE FALSE
      <4>1. t <= Final
        BY <1>3, <1>5, <1>6, <3>2 DEF SmoothInv, FinalInv
      <4> QED
        BY <1>1, <3>1, <3>2, <4>1
    <3> QED
      BY <3>2 DEF NoneBetween
  <2>4. \A a, b : NoneBetween(a, b)' <=> NoneBetween(a, b)
    BY <1>1 DEF NoneBetween
  <2>5. StepInv
    BY <1>3 DEF SmoothInv
  <2>6. NoneBetween(lastEventId, wire'[1])
    <3>1. CASE wire = << >>
      BY <2>1, <2>3, <3>1 DEF Final
    <3>2. CASE wire # << >>
      BY <2>1, <2>5, <3>2 DEF StepInv
    <3> QED
      BY <3>1, <3>2
  <2>7. ASSUME NEW i \in 1..(Len(wire') - 1) PROVE NoneBetween(wire'[i], wire'[i + 1])
    <3>1. CASE i = Len(wire)
      <4>1. wire'[i] = Final /\ wire'[i + 1] = s
        BY <2>1, <3>1 DEF Final
      <4> QED
        BY <2>3, <4>1
    <3>2. CASE i # Len(wire)
      <4>1. i \in 1..(Len(wire) - 1) /\ wire'[i] = wire[i] /\ wire'[i + 1] = wire[i + 1]
        BY <2>1, <2>7, <3>2
      <4> QED
        BY <2>5, <4>1 DEF StepInv
    <3> QED
      BY <3>1, <3>2
  <2>8. StepInv'
    BY <1>1, <2>4, <2>6, <2>7 DEF StepInv
  <2> QED
    BY <1>1, <1>3, <2>2, <2>8 DEF SmoothInv, IndicatorInv, Starts, Ends
<1>7. CASE conn \notin {"subscribing", "live"}
  <2>1. FinalInv'
    BY <1>1, <1>7 DEF FinalInv
  <2>2. wire' = wire
    BY <1>7
  <2>3. StepInv'
    BY <1>1, <1>3, <2>2 DEF SmoothInv, StepInv, NoneBetween
  <2> QED
    BY <1>1, <1>3, <2>1, <2>3 DEF SmoothInv, IndicatorInv, Starts, Ends
<1> QED
  BY <1>2, <1>6, <1>7

LEMMA VisitSmooth ==
    ASSUME Inv, Visit PROVE SmoothInv'
<1> USE DEF Visit
<1>1. \A s \in Starts' : ~(s <= 0)
  BY Constants DEF Starts, Rows, Numbers
<1> QED
  BY <1>1 DEF SmoothInv, FinalInv, StepInv, IndicatorInv

LEMMA ConnectionSmooth ==
    ASSUME Inv, SmoothInv, Break \/ Reconnect \/ Subscribe PROVE SmoothInv'
<1> USE DEF Break, Reconnect, Subscribe, writers, store, history
<1>1. UNCHANGED <<phase, event, gap, late, thinkingAgent, lastEventId>> /\ Rows' = Rows
  BY DEF Rows
<1>2. Smooth' => Smooth
  BY <1>1 DEF Smooth, Doomed
<1>3. IndicatorInv => IndicatorInv'
  BY <1>1 DEF IndicatorInv, Starts, Ends
<1>4. StepInv => StepInv'
  BY <1>1 DEF StepInv, NoneBetween
<1>5. FinalInv => FinalInv'
  BY <1>1 DEF FinalInv, Final
<1> QED
  BY <1>2, <1>3, <1>4, <1>5 DEF SmoothInv

\* The frames of a replay are all the rows above its start, one after the other.
LEMMA ReplaySmooth ==
    ASSUME Inv, SmoothInv, Replay PROVE SmoothInv'
<1> USE DEF Replay, writers, store
<1> DEFINE rows == {s \in Rows : s > since}
<1>1. rows \subseteq Numbers /\ wire' \in Ascending(rows)
  BY DEF Rows
<1>2. /\ wire' \in Seq(Numbers) /\ Len(wire') \in Nat /\ DOMAIN wire' = 1..Len(wire')
      /\ \A i, j \in 1..Len(wire') : i < j => wire'[i] < wire'[j]
      /\ Range(wire') = rows
  BY <1>1, AscendingCovers
<1>3. /\ Rows' = Rows /\ lastEventId' = lastEventId /\ since = lastEventId /\ since \in Int
      /\ UNCHANGED <<phase, event, gap, late, thinkingAgent>>
      /\ \A s \in Rows : s \in Int
  BY Constants DEF Rows, Inv, PositionInv, TypeOK, Numbers
<1>4. Smooth' => Smooth
  BY <1>3 DEF Smooth, Doomed
<1>5. IndicatorInv => IndicatorInv'
  BY <1>3 DEF IndicatorInv, Starts, Ends
<1>6. \A i \in 1..Len(wire') : wire'[i] \in Int /\ wire'[i] > since
  BY <1>2, <1>3 DEF Range
<1>7. \A s \in Rows : s > since => \E j \in 1..Len(wire') : wire'[j] = s
  BY <1>2 DEF Range
<1>8. FinalInv'
  <2>1. ASSUME NEW s \in Rows PROVE s <= Final'
    <3>1. CASE wire' = << >>
      <4>1. ~(s > since) /\ Final' = since
        BY <1>3, <1>7, <3>1 DEF Final
      <4> QED
        BY <1>3, <4>1
    <3>2. CASE wire' # << >>
      <4>1. Final' = wire'[Len(wire')] /\ Len(wire') \in 1..Len(wire')
        BY <1>2, <3>2 DEF Final
      <4>2. CASE s > since
        <5>1. PICK j \in 1..Len(wire') : wire'[j] = s
          BY <1>7, <4>2
        <5> QED
          BY <1>2, <1>6, <4>1, <5>1
      <4>3. CASE ~(s > since)
        BY <1>3, <1>6, <4>1, <4>3
      <4> QED
        BY <4>2, <4>3
    <3> QED
      BY <3>1, <3>2
  <2> QED
    BY <1>3, <2>1 DEF FinalInv
<1>9. StepInv'
  <2>1. ASSUME wire' # << >>, NEW s \in Rows, lastEventId < s, s < wire'[1] PROVE FALSE
    <3>1. PICK j \in 1..Len(wire') : wire'[j] = s
      BY <1>3, <1>7, <2>1
    <3>2. 1 \in 1..Len(wire') /\ wire'[1] \in Int
      BY <1>2, <1>6, <2>1
    <3> QED
      BY <1>2, <1>3, <2>1, <3>1, <3>2
  <2>2. ASSUME NEW i \in 1..(Len(wire') - 1), NEW s \in Rows, wire'[i] < s, s < wire'[i + 1] PROVE FALSE
    <3>1. i \in 1..Len(wire') /\ i + 1 \in 1..Len(wire')
      BY <1>2, <2>2
    <3>2. s > since
      BY <1>3, <1>6, <2>2, <3>1
    <3>3. PICK j \in 1..Len(wire') : wire'[j] = s
      BY <1>7, <3>2
    <3>4. ~(j < i) /\ j # i /\ ~(i + 1 < j) /\ j # i + 1
      BY <1>2, <1>3, <1>6, <2>2, <3>1, <3>3
    <3> QED
      BY <1>2, <3>1, <3>3, <3>4
  <2>3. wire' # << >> => NoneBetween(lastEventId, wire'[1])
    BY <2>1 DEF NoneBetween
  <2>4. \A i \in 1..(Len(wire') - 1) : NoneBetween(wire'[i], wire'[i + 1])
    BY <2>2 DEF NoneBetween
  <2>5. \A a, b : NoneBetween(a, b)' <=> NoneBetween(a, b)
    BY <1>3 DEF NoneBetween
  <2> QED
    BY <1>3, <2>3, <2>4, <2>5 DEF StepInv
<1> QED
  BY <1>4, <1>5, <1>8, <1>9 DEF SmoothInv

\* The indicator, after the next row or one received before.
LEMMA ReceiveIndicator ==
    ASSUME Inv, Receive, IndicatorInv, NoneBetween(lastEventId, wire[1]) PROVE IndicatorInv'
<1> DEFINE h == wire[1]
<1>1. /\ Head(wire) = h /\ lastEventId' = h /\ h \in Rows /\ h \in Int /\ Rows' = Rows /\ event' = event
      /\ event[h] \in Events
  BY Received
<1>2. thinkingAgent' = ThinkingAfter(event[h])
  BY <1>1 DEF Receive, AppendEvent
<1>3. Starts' = Starts /\ \A t, s : Ends(t, s)' <=> Ends(t, s)
  BY <1>1 DEF Starts, Ends
<1>4. lastEventId \in Int /\ \A s \in Rows : s \in Int
  BY Constants DEF Inv, TypeOK, Rows, Numbers
<1>5. event[h].type # "presence_thinking_start" => thinkingAgent' \in {thinkingAgent, Nobody}
  BY <1>2 DEF ThinkingAfter
<1>6. Starts = {} => thinkingAgent' = Nobody
  BY <1>1, <1>5 DEF Starts, IndicatorInv
<1>7. ASSUME NEW x \in Starts, x <= h, \A t \in Starts : t <= x
      PROVE  /\ thinkingAgent' \in {event[x].agentId, Nobody}
             /\ (\E t \in Rows : Ends(t, x) /\ t <= h) => thinkingAgent' = Nobody
             /\ (\A t \in Rows : ~Ends(t, x)) => thinkingAgent' = event[x].agentId
  <2>1. x \in Int /\ x \in Rows /\ event[x] \in Events /\ event[x].agentId \in Agents
    <3>1. x \in Rows /\ event[x].type = "presence_thinking_start"
      BY <1>7 DEF Starts
    <3> QED
      BY <1>4, <3>1, EventFacts DEF Inv, StoredInv
  <2>2. CASE x = h
    <3>1. thinkingAgent' = event[x].agentId
      BY <1>2, <2>2 DEF ThinkingAfter, Starts
    <3>2. \A t \in Rows : ~(Ends(t, x) /\ t <= h)
      BY <1>4, <2>1, <2>2 DEF Ends
    <3> QED
      BY <3>1, <3>2
  <2>3. CASE x < h
    <3>1. x <= lastEventId
      BY <1>1, <1>4, <2>1, <2>3 DEF NoneBetween
    <3>2. /\ thinkingAgent \in {event[x].agentId, Nobody}
          /\ (\E t \in Rows : Ends(t, x) /\ t <= lastEventId) => thinkingAgent = Nobody
          /\ (\A t \in Rows : ~Ends(t, x)) => thinkingAgent = event[x].agentId
      BY <1>7, <3>1 DEF IndicatorInv
    <3>3. event[h].type # "presence_thinking_start"
      BY <1>1, <1>4, <1>7, <2>1, <2>3 DEF Starts
    <3>4. thinkingAgent' \in {thinkingAgent, Nobody}
      BY <1>5, <3>3
    <3>5. ASSUME NEW t \in Rows, Ends(t, x), t <= h PROVE thinkingAgent' = Nobody
      <4>1. CASE t <= lastEventId
        BY <3>2, <3>4, <3>5, <4>1
      <4>2. CASE ~(t <= lastEventId)
        <5>1. t = h
          BY <1>1, <1>4, <3>5, <4>2 DEF NoneBetween
        <5>2. event[h].agentId = event[x].agentId
          BY <3>5, <5>1 DEF Ends
        <5>3. event[h].type \in {"presence_thinking_end", "agent_message"}
          BY <1>1, <2>1, <3>3, <5>2, Constants DEF Events, Presence
        <5> QED
          BY <1>2, <3>2, <3>3, <5>2, <5>3 DEF ThinkingAfter
      <4> QED
        BY <4>1, <4>2
    <3>6. ASSUME \A t \in Rows : ~Ends(t, x) PROVE thinkingAgent' = event[x].agentId
      <4>1. ~Ends(h, x) /\ h > x
        BY <1>1, <2>1, <2>3, <3>6
      <4>2. event[h].agentId # event[x].agentId /\ thinkingAgent = event[x].agentId
        BY <3>2, <3>3, <3>6, <4>1 DEF Ends
      <4> QED
        BY <1>2, <3>3, <4>2 DEF ThinkingAfter
    <3> QED
      BY <3>2, <3>4, <3>5, <3>6
  <2> QED
    BY <1>1, <1>7, <2>1, <2>2, <2>3
<1> QED
  BY <1>1, <1>3, <1>6, <1>7 DEF IndicatorInv

LEMMA ReceiveSmooth ==
    ASSUME Inv, SmoothInv, Receive PROVE SmoothInv'
<1>1. /\ wire \in Seq(Numbers) /\ Len(wire) \in Nat /\ Len(wire) >= 1 /\ Len(wire') = Len(wire) - 1
      /\ wire' \in Seq(Numbers) /\ wire # << >>
      /\ \A i \in 1..Len(wire') : wire'[i] = wire[i + 1]
      /\ lastEventId' = wire[1] /\ Rows' = Rows
      /\ UNCHANGED <<phase, event, conn, gap, late>>
  BY Received
<1>2. Smooth' => Smooth
  BY <1>1 DEF Smooth, Doomed
<1>3. Final' = Final
  <2>1. CASE wire' = << >>
    <3>1. Len(wire) = 1
      BY <1>1, <2>1
    <3> QED
      BY <1>1, <2>1, <3>1 DEF Final
  <2>2. CASE wire' # << >>
    <3>1. Len(wire') \in 1..Len(wire') /\ Len(wire') + 1 = Len(wire)
      BY <1>1, <2>2
    <3> QED
      BY <1>1, <2>2, <3>1 DEF Final
  <2> QED
    BY <2>1, <2>2
<1>4. FinalInv => FinalInv'
  BY <1>1, <1>3 DEF FinalInv
<1>5. StepInv => StepInv'
  <2> SUFFICES ASSUME StepInv PROVE StepInv'
    OBVIOUS
  <2>1. \A a, b : NoneBetween(a, b)' <=> NoneBetween(a, b)
    BY <1>1 DEF NoneBetween
  <2>2. ASSUME wire' # << >> PROVE NoneBetween(lastEventId', wire'[1])
    <3>1. 1 \in 1..(Len(wire) - 1) /\ 1 \in 1..Len(wire') /\ 1 + 1 = 2
      BY <1>1, <2>2
    <3> QED
      BY <1>1, <3>1 DEF StepInv
  <2>3. ASSUME NEW i \in 1..(Len(wire') - 1) PROVE NoneBetween(wire'[i], wire'[i + 1])
    <3>1. i + 1 \in 1..(Len(wire) - 1) /\ i \in 1..Len(wire') /\ i + 1 \in 1..Len(wire')
      BY <1>1
    <3> QED
      BY <1>1, <3>1 DEF StepInv
  <2> QED
    BY <2>1, <2>2, <2>3 DEF StepInv
<1>6. StepInv /\ IndicatorInv => IndicatorInv'
  BY <1>1, ReceiveIndicator DEF StepInv
<1> QED
  BY <1>2, <1>4, <1>5, <1>6 DEF SmoothInv

LEMMA IdleSmooth ==
    ASSUME SmoothInv, UNCHANGED <<phase, event, conn, wire, lastEventId, thinkingAgent, gap, late>>
    PROVE  SmoothInv'
<1>1. Rows' = Rows
  BY DEF Rows
<1>2. Smooth' => Smooth
  BY <1>1 DEF Smooth, Doomed
<1>3. FinalInv => FinalInv'
  BY <1>1 DEF FinalInv, Final
<1>4. StepInv => StepInv'
  BY <1>1 DEF StepInv, NoneBetween
<1>5. IndicatorInv => IndicatorInv'
  BY <1>1 DEF IndicatorInv, Starts, Ends
<1> QED
  BY <1>2, <1>3, <1>4, <1>5 DEF SmoothInv

LEMMA SmoothInvariant == Spec => []SmoothInv
<1>1. Init => SmoothInv
  BY InitSmooth
<1>2. Inv /\ GapInv /\ SmoothInv /\ [Next]_vars => SmoothInv'
  <2> SUFFICES ASSUME Inv, GapInv, SmoothInv, [Next]_vars PROVE SmoothInv'
    OBVIOUS
  <2>1. ASSUME NEW s \in Numbers, Publish(s) \/ \E e \in Events : Insert(s, e) PROVE SmoothInv'
    BY <2>1, PublishSmooth, InsertSmooth
  <2>2. CASE Visit
    BY <2>2, VisitSmooth
  <2>3. CASE Break \/ Reconnect \/ Subscribe
    BY <2>3, ConnectionSmooth
  <2>4. CASE Replay
    BY <2>4, ReplaySmooth
  <2>5. CASE Receive
    BY <2>5, ReceiveSmooth
  <2>6. CASE \E api \in ApiStatuses : SyncStatus(api)
    BY <2>6, IdleSmooth DEF SyncStatus, writers, stream, history
  <2>7. CASE UNCHANGED vars
    BY <2>7, IdleSmooth DEF vars
  <2> QED
    BY <2>1, <2>2, <2>3, <2>4, <2>5, <2>6, <2>7 DEF Next
<1> QED
  BY <1>1, <1>2, Invariant, GapInvariant, PTL DEF Spec

\* A set of numbers that is not empty has a highest.
LEMMA HasHighest ==
    ASSUME NEW S, S \subseteq Numbers, S # {}
    PROVE  \E m \in S : \A s \in S : s <= m
<1> DEFINE T == {k \in Nat : MaxSeq - k \in S}
<1>1. \A s \in S : s \in Int /\ MaxSeq - s \in Nat /\ MaxSeq - (MaxSeq - s) = s
  BY Constants DEF Numbers
<1>2. T \subseteq Nat /\ T # {}
  BY <1>1
<1>3. PICK k \in T : \A j \in T : <<j, k>> \notin OpToRel(<, Nat)
  BY <1>2, NatLessThanWellFounded, WFMin, Zenon
<1>4. \A j \in T : ~(j < k)
  BY <1>2, <1>3 DEF OpToRel
<1>5. ASSUME NEW s \in S PROVE s <= MaxSeq - k
  <2>1. MaxSeq - s \in T
    BY <1>1
  <2> QED
    BY <1>1, <1>2, <1>4, <2>1, Constants
<1> QED
  BY <1>5

-----------------------------------------------------------------------------
(* The theorems.                                                           *)

\* Every variable of the stream and of the store keeps to its type.
THEOREM TypeCorrect == Spec => []TypeOK
<1>1. Inv => TypeOK
  BY DEF Inv
<1> QED
  BY <1>1, Invariant, PTL

\* processEvent: replays, reconnects and late arrivals, however they mix, leave
\* the transcript in sequence order and without repetition.
THEOREM TranscriptStaysSorted == Spec => []TranscriptSorted
<1>1. Inv => TranscriptSorted
  BY DEF Inv, OrderInv
<1> QED
  BY <1>1, Invariant, PTL

\* Persist before publish: whatever the browser shows is in the events table.
THEOREM NothingShownIsLost == Spec => []ShownIsStored
<1>1. Inv => ShownIsStored
  BY DEF Inv, StoredInv, ShownIsStored
<1> QED
  BY <1>1, Invariant, PTL

\* The badge of the run follows the latest transition of the transcript; the
\* answer of the API, whenever it comes, never overrides it.
THEOREM BadgeFollowsTranscript == Spec => []StatusIsLatest
<1>1. Inv => StatusIsLatest
  BY DEF Inv
<1> QED
  BY <1>1, Invariant, PTL

\* Opening the page shows every row its replay read, in whatever order live
\* messages of lower numbers come behind it.
THEOREM ReloadIsComplete == Spec => []ReloadShowsAll
<1>1. Inv => ReloadShowsAll
  <2> SUFFICES ASSUME Inv, since = 0, conn \in {"subscribing", "live"},
                      NEW s \in replayed, Due(s)
               PROVE  s \in Range(wire)
    BY DEF Inv, ReplayInv, ReloadShowsAll
  <2>1. DOMAIN wire = 1..Len(wire)
    BY DEF Inv, TypeOK
  <2> QED
    BY <2>1 DEF Due, Range
<1> QED
  BY <1>1, Invariant, PTL

\* subscribe after replay: an event that a client which has received everything
\* does not show was never published, or was published in the gap between the
\* two, or came after a higher number; no reconnect, reload or repetition loses
\* another.
THEOREM OnlyTheGapLoses == Spec => []NoUnexplainedGap
<1>1. Inv /\ GapInv => NoUnexplainedGap
  <2> SUFFICES ASSUME Inv, GapInv, CaughtUp, NEW s \in Rows, ~IsPresence(s), s \notin Shown,
                      s \notin gap \cup late, phase[s] # "stored"
               PROVE  FALSE
    BY DEF NoUnexplainedGap
  <2>1. Good(s) /\ s \in Numbers /\ phase[s] = "done"
    BY DEF Good, Rows, Inv, TypeOK
  <2>2. s \in Range(wire)
    BY <2>1 DEF GapInv, LiveInv, CaughtUp
  <2> QED
    BY <2>2 DEF CaughtUp, Range
<1> QED
  BY <1>1, Invariant, GapInvariant, PTL

\* The thinkingAgent slice: for a caught-up client that nothing was lost for or
\* overtaken, the indicator names whom the table says is thinking.
THEOREM IndicatorIsRight == Spec => []IndicatorAgrees
<1>1. Inv /\ SmoothInv => IndicatorAgrees
  <2> SUFFICES ASSUME Inv, SmoothInv, CaughtUp, gap = {}, late = {}, \A s \in Rows : phase[s] = "done"
               PROVE  thinkingAgent = Thinking
    BY DEF IndicatorAgrees
  <2>1. Smooth
    BY DEF Smooth, Doomed
  <2>2. \A s \in Rows : s <= lastEventId
    BY <2>1 DEF SmoothInv, FinalInv, Final, CaughtUp
  <2>3. IndicatorInv
    BY <2>1 DEF SmoothInv
  <2> DEFINE last == CHOOSE s \in Starts : \A t \in Starts : t <= s
             over == \E t \in Rows : Ends(t, last)
  <2>4. Thinking = IF Starts = {} \/ over THEN Nobody ELSE event[last].agentId
    BY DEF Thinking, Starts, Ends
  <2>5. CASE Starts = {}
    BY <2>3, <2>4, <2>5 DEF IndicatorInv
  <2>6. CASE Starts # {}
    <3>1. Starts \subseteq Numbers
      BY DEF Starts, Rows
    <3>2. \E s \in Starts : \A t \in Starts : t <= s
      BY <2>6, <3>1, HasHighest
    <3>3. last \in Starts /\ \A t \in Starts : t <= last
      BY <3>2
    <3>4. last <= lastEventId
      BY <2>2, <3>3 DEF Starts
    <3> HIDE DEF last
    <3>5. /\ over => thinkingAgent = Nobody
          /\ ~over => thinkingAgent = event[last].agentId
      BY <2>2, <2>3, <3>3, <3>4 DEF IndicatorInv
    <3> QED
      BY <2>4, <2>6, <3>5
  <2> QED
    BY <2>5, <2>6
<1> QED
  BY <1>1, Invariant, SmoothInvariant, PTL
=============================================================================
