--------------------------- MODULE AppendOnlyLog ---------------------------
(***************************************************************************)
(* What the event pipeline promises about one run's conversation, whatever *)
(* the writers do: a log of numbered events that only grows, a live feed   *)
(* that carries nothing the log does not hold and nothing twice, and       *)
(* acknowledgements only for events that are in the log.                   *)
(* EventLog.tla is shown to implement it.                                  *)
(***************************************************************************)
EXTENDS Integers, Sequences

CONSTANT Events     \* the events any writer may submit

VARIABLES
    log,            \* set of records [seq, ev]: what a replay will show
    feed,           \* sequence of log records: what live listeners are sent
    acked           \* events whose submitter was told "done"

Entry == [seq : Nat, ev : Events]

Init == /\ log = {}
        /\ feed = << >>
        /\ acked = {}

\* A new entry takes a number no other entry has.
Add(e) == /\ e \in Entry
          /\ \A r \in log : r.seq # e.seq
          /\ log' = log \cup {e}

\* The submitter may learn of it only now or later, when it is broadcast.
Store(e) == /\ Add(e)
            /\ acked' \in {acked, acked \cup {e.ev}}
            /\ UNCHANGED feed

\* An entry of the log is sent to the live listeners, once.
Broadcast(e) == /\ e \in log
                /\ \A i \in DOMAIN feed : feed[i] # e
                /\ feed' = Append(feed, e)
                /\ acked' \in {acked, acked \cup {e.ev}}
                /\ UNCHANGED log

\* Every entry a step may store or send is in the log after the step.
Next == \E e \in log' : Store(e) \/ Broadcast(e)

Spec == Init /\ [][Next]_<<log, feed, acked>>
=============================================================================
