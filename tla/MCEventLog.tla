----------------------------- MODULE MCEventLog -----------------------------
(* EventLog on small sets of processes.                                     *)
EXTENDS EventLog

CONSTANT h1

\* One hub task submits two events, so that a task's events are ordered
\* against each other; every other process submits one.
TwoForOne == [p \in Procs |-> IF p = h1 THEN 2 ELSE 1]
=============================================================================
