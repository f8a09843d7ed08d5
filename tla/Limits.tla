------------------------------- MODULE Limits -------------------------------
(***************************************************************************)
(* The sliding-window limiters in front of two routes: the upload of       *)
(* attachments (10 calls a minute and user) and the rewriting of prompts   *)
(* (30).  Each is a map in the process's memory from a user to the times   *)
(* of his accepted calls.  Accepted calls are numbered here, so that a     *)
(* list of times is a set of numbers.                                      *)
(***************************************************************************)
EXTENDS Integers, Sequences, FiniteSets

CONSTANTS
    Users,
    RATE_LIMIT_MAX,        \* calls accepted in a window
    RATE_LIMIT_WINDOW_MS,
    LastTime               \* bound on the clock

ASSUME LimitsAssumption ==
    /\ RATE_LIMIT_MAX \in Nat \ {0}
    /\ RATE_LIMIT_WINDOW_MS \in Nat \ {0}
    /\ LastTime \in Nat

VARIABLES
    now,             \* Date.now(), which is assumed not to go back
    accepted,        \* per user, the times of the calls that passed so far
    userTimestamps,  \* per user, which of them the limiter still lists
    refused          \* per user, when a call was last refused; -1 for never

limitVars == <<now, accepted, userTimestamps, refused>>

LimitsInit ==
    /\ now = 0
    /\ accepted = [u \in Users |-> <<>>]
    /\ userTimestamps = [u \in Users |-> {}]
    /\ refused = [u \in Users |-> -1]

\* Variant: the cutoff is compared the wrong side of the edge.
recentWithEdge(u) ==
    {i \in userTimestamps[u] : accepted[u][i] >= now - RATE_LIMIT_WINDOW_MS}

\* The listed calls inside the window; both outcomes store the list trimmed.
recent(u) == {i \in userTimestamps[u] : accepted[u][i] > now - RATE_LIMIT_WINDOW_MS}

\* rateLimitOk returns true.
Accept(u) ==
    /\ Cardinality(recent(u)) < RATE_LIMIT_MAX
    /\ accepted' = [accepted EXCEPT ![u] = Append(@, now)]
    /\ userTimestamps' = [userTimestamps EXCEPT ![u] = recent(u) \cup {Len(accepted[u]) + 1}]
    /\ UNCHANGED <<now, refused>>

\* rateLimitOk returns false, and the route answers 429.
Refuse(u) ==
    /\ Cardinality(recent(u)) >= RATE_LIMIT_MAX
    /\ userTimestamps' = [userTimestamps EXCEPT ![u] = recent(u)]
    /\ refused' = [refused EXCEPT ![u] = now]
    /\ UNCHANGED <<now, accepted>>

\* The map lives in memory: the counts of what follows start afresh.
RestartWeb ==
    /\ userTimestamps' = [u \in Users |-> {}]
    /\ accepted' = [u \in Users |-> <<>>]
    /\ refused' = [u \in Users |-> -1]
    /\ UNCHANGED now

TimePasses ==
    /\ now < LastTime
    /\ now' = now + 1
    /\ UNCHANGED <<accepted, userTimestamps, refused>>

LimitsNext ==
    \/ \E u \in Users : Accept(u) \/ Refuse(u)
    \/ RestartWeb \/ TimePasses

LimitsSpec == LimitsInit /\ [][LimitsNext]_limitVars

-----------------------------------------------------------------------------
(* Properties.                                                              *)

\* The typing of the limiter: it lists only calls that passed.
LimitsTypeOK ==
    /\ now \in 0..LastTime
    /\ accepted \in [Users -> Seq(0..LastTime)]
    /\ \A u \in Users : userTimestamps[u] \subseteq DOMAIN accepted[u]
    /\ refused \in [Users -> -1..LastTime]

\* The limit is exact over the life of the process, whatever is trimmed when:
\* a call that passes is a full window younger than the one RATE_LIMIT_MAX
\* calls before it, and a call is refused only when RATE_LIMIT_MAX calls
\* passed within the window before it.
LimitIsExact ==
    \A u \in Users :
        /\ \A i \in DOMAIN accepted[u] : i > RATE_LIMIT_MAX =>
              accepted[u][i] - accepted[u][i - RATE_LIMIT_MAX] >= RATE_LIMIT_WINDOW_MS
        /\ refused[u] # -1 =>
              Cardinality({i \in DOMAIN accepted[u] :
                  /\ accepted[u][i] > refused[u] - RATE_LIMIT_WINDOW_MS
                  /\ accepted[u][i] <= refused[u]}) >= RATE_LIMIT_MAX

=============================================================================
