----------------------------- MODULE AccountProofs ----------------------------
(***************************************************************************)
(* Theorems about what the server keeps for a user and his browser: the    *)
(* limit on his calls, his preferences, his push subscriptions and how he  *)
(* came to be; for any number of users, tabs, tenants and requests.        *)
(***************************************************************************)
EXTENDS Limits, Settings, Push, Onboarding, FiniteSetTheorems, TLAPS

-----------------------------------------------------------------------------
(* Limits: the inductive invariant, of one user: the times s of his calls,   *)
(* the list L of those the limiter keeps, his last refusal r, the clock t.   *)

RecentOf(s, L, t) == {i \in L : s[i] > t - RATE_LIMIT_WINDOW_MS}
Counted(s, r) == {i \in DOMAIN s : s[i] > r - RATE_LIMIT_WINDOW_MS /\ s[i] <= r}

\* Calls are in order; those no longer listed have left the window.
UserInv(s, L, r, t) ==
    /\ s \in Seq(0..LastTime) /\ L \subseteq DOMAIN s /\ r \in -1..LastTime
    /\ r <= t /\ \A i \in DOMAIN s : s[i] <= t
    /\ \A i, j \in DOMAIN s : i <= j => s[i] <= s[j]
    /\ \A i \in DOMAIN s \ L : s[i] <= t - RATE_LIMIT_WINDOW_MS
    /\ \A i \in DOMAIN s : i > RATE_LIMIT_MAX =>
          s[i] - s[i - RATE_LIMIT_MAX] >= RATE_LIMIT_WINDOW_MS
    /\ r # -1 => Cardinality(Counted(s, r)) >= RATE_LIMIT_MAX

LimitInv ==
    /\ now \in 0..LastTime
    /\ DOMAIN accepted = Users /\ accepted = [u \in Users |-> accepted[u]]
    /\ DOMAIN userTimestamps = Users /\ userTimestamps = [u \in Users |-> userTimestamps[u]]
    /\ DOMAIN refused = Users /\ refused = [u \in Users |-> refused[u]]
    /\ \A u \in Users : UserInv(accepted[u], userTimestamps[u], refused[u], now)

LEMMA LimitConstants ==
    /\ RATE_LIMIT_MAX \in Nat /\ RATE_LIMIT_MAX > 0
    /\ RATE_LIMIT_WINDOW_MS \in Nat /\ RATE_LIMIT_WINDOW_MS > 0
    /\ LastTime \in Nat
  BY LimitsAssumption

LEMMA CallTimes ==
    ASSUME NEW s \in Seq(0..LastTime)
    PROVE  /\ Len(s) \in Nat /\ DOMAIN s = 1..Len(s)
           /\ \A i \in 1..Len(s) : s[i] \in 0..LastTime /\ s[i] \in Int
<1>1. ASSUME NEW S, NEW q \in Seq(S) PROVE \A i \in 1..Len(q) : q[i] \in S
  OBVIOUS
<1>2. \A i \in 1..Len(s) : s[i] \in 0..LastTime
  BY <1>1
<1> QED
  BY <1>2, LimitConstants

\* A set of call numbers is finite, and a set within it is no larger.
LEMMA CallNumbers ==
    ASSUME NEW s \in Seq(0..LastTime), NEW T, T \subseteq DOMAIN s, NEW R, R \subseteq T
    PROVE  /\ IsFiniteSet(T) /\ Cardinality(T) \in Nat
           /\ Cardinality(R) \in Nat /\ Cardinality(R) <= Cardinality(T)
<1>1. DOMAIN s = 1..Len(s) /\ Len(s) \in Int /\ 1 \in Int
  OBVIOUS
<1>2. IsFiniteSet(DOMAIN s)
  BY <1>1, FS_Interval
<1>3. IsFiniteSet(T)
  BY <1>2, FS_Subset
<1>4. IsFiniteSet(R) /\ Cardinality(R) <= Cardinality(T)
  BY <1>3, FS_Subset
<1> QED
  BY <1>3, <1>4, FS_CardinalityType

-----------------------------------------------------------------------------
(* Limits: what the two outcomes and the clock do to one user.              *)

\* An accepted call: were the call RATE_LIMIT_MAX before it still inside the
\* window, then so would all those after it, and the limiter would have
\* counted them.
LEMMA AcceptKeepsLimit ==
    ASSUME NEW s, NEW L, NEW r, NEW t \in 0..LastTime, UserInv(s, L, r, t),
           Cardinality(RecentOf(s, L, t)) < RATE_LIMIT_MAX
    PROVE  UserInv(Append(s, t), RecentOf(s, L, t) \cup {Len(s) + 1}, r, t)
<1> DEFINE n == Len(s)
           a == Append(s, t)
           R == RecentOf(s, L, t)
<1>1. /\ s \in Seq(0..LastTime) /\ L \subseteq DOMAIN s
      /\ n \in Nat /\ DOMAIN s = 1..n /\ \A i \in 1..n : s[i] \in 0..LastTime /\ s[i] \in Int
  <2>1. s \in Seq(0..LastTime) /\ L \subseteq DOMAIN s
    BY DEF UserInv
  <2> QED
    BY <2>1, CallTimes
<1>2. /\ a \in Seq(0..LastTime) /\ DOMAIN a = 1..(n + 1) /\ a[n + 1] = t
      /\ \A i \in 1..n : a[i] = s[i]
  BY <1>1
<1>3. R \subseteq DOMAIN s
  BY <1>1 DEF RecentOf
<1>4. R \cup {n + 1} \subseteq DOMAIN a
  BY <1>1, <1>2, <1>3
<1>5. \A i \in DOMAIN a : a[i] <= t
  BY <1>1, <1>2, LimitConstants DEF UserInv
<1>6. \A i, j \in DOMAIN a : i <= j => a[i] <= a[j]
  BY <1>1, <1>2, LimitConstants DEF UserInv
<1>7. \A i \in DOMAIN a \ (R \cup {n + 1}) : a[i] <= t - RATE_LIMIT_WINDOW_MS
  BY <1>1, <1>2, LimitConstants DEF UserInv, RecentOf
<1>8. ASSUME NEW i \in DOMAIN a, i > RATE_LIMIT_MAX
      PROVE  a[i] - a[i - RATE_LIMIT_MAX] >= RATE_LIMIT_WINDOW_MS
  <2>1. CASE i \in 1..n
    BY <1>1, <1>2, <1>8, <2>1, LimitConstants DEF UserInv
  <2>2. CASE i = n + 1
    <3> DEFINE first == n + 1 - RATE_LIMIT_MAX
    <3>1. first \in 1..n
      BY <1>1, <1>8, <2>2, LimitConstants
    <3>2. SUFFICES ASSUME s[first] > t - RATE_LIMIT_WINDOW_MS PROVE FALSE
      BY <1>1, <1>2, <2>2, <3>1, LimitConstants
    <3>3. \A j \in first..n : j \in DOMAIN s /\ s[j] > t - RATE_LIMIT_WINDOW_MS
      <4>1. \A j \in first..n : j \in 1..n /\ s[first] <= s[j]
        BY <1>1, <3>1 DEF UserInv
      <4> QED
        BY <1>1, <3>1, <3>2, <4>1, LimitConstants
    <3>4. first..n \subseteq R
      <4>1. SUFFICES ASSUME NEW j \in first..n, j \notin L PROVE FALSE
        BY <3>3 DEF RecentOf
      <4>2. s[j] <= t - RATE_LIMIT_WINDOW_MS /\ s[j] \in Int
        BY <1>1, <3>3, <4>1 DEF UserInv
      <4> QED
        BY <3>3, <4>2, LimitConstants
    <3>5. Cardinality(first..n) = RATE_LIMIT_MAX
      <4>1. first \in Int /\ n \in Int /\ first <= n
        BY <1>1, <3>1, LimitConstants
      <4>2. Cardinality(first..n) = n - first + 1
        BY <4>1, FS_Interval
      <4> QED
        BY <1>1, <4>2, LimitConstants
    <3>6. Cardinality(first..n) <= Cardinality(R) /\ Cardinality(R) \in Nat
      BY <1>1, <1>3, <3>4, CallNumbers
    <3> QED
      BY <3>5, <3>6, LimitConstants
  <2>3. i \in 1..n \/ i = n + 1
    BY <1>1, <1>2
  <2> QED
    BY <2>1, <2>2, <2>3
<1>9. ASSUME r # -1 PROVE Cardinality(Counted(a, r)) >= RATE_LIMIT_MAX
  <2>1. Counted(s, r) \subseteq Counted(a, r) /\ Counted(a, r) \subseteq DOMAIN a
    BY <1>1, <1>2 DEF Counted
  <2>2. /\ Cardinality(Counted(s, r)) <= Cardinality(Counted(a, r))
        /\ Cardinality(Counted(s, r)) \in Nat /\ Cardinality(Counted(a, r)) \in Nat
    BY <1>2, <2>1, CallNumbers
  <2> QED
    BY <1>9, <2>2, LimitConstants DEF UserInv
<1> QED
  BY <1>2, <1>4, <1>5, <1>6, <1>7, <1>8, <1>9 DEF UserInv

\* A refused call: those the limiter counted passed within the window.
LEMMA RefuseKeepsLimit ==
    ASSUME NEW s, NEW L, NEW r, NEW t \in 0..LastTime, UserInv(s, L, r, t),
           Cardinality(RecentOf(s, L, t)) >= RATE_LIMIT_MAX
    PROVE  UserInv(s, RecentOf(s, L, t), t, t)
<1>1. /\ s \in Seq(0..LastTime) /\ L \subseteq DOMAIN s
      /\ \A i \in DOMAIN s : s[i] \in 0..LastTime /\ s[i] \in Int
  <2>1. s \in Seq(0..LastTime) /\ L \subseteq DOMAIN s
    BY DEF UserInv
  <2> QED
    BY <2>1, CallTimes
<1>2. /\ RecentOf(s, L, t) \subseteq Counted(s, t) /\ Counted(s, t) \subseteq DOMAIN s
  BY <1>1 DEF UserInv, RecentOf, Counted
<1>3. /\ Cardinality(RecentOf(s, L, t)) <= Cardinality(Counted(s, t))
      /\ Cardinality(RecentOf(s, L, t)) \in Nat /\ Cardinality(Counted(s, t)) \in Nat
  BY <1>1, <1>2, CallNumbers
<1>4. Cardinality(Counted(s, t)) >= RATE_LIMIT_MAX
  BY <1>3, LimitConstants
<1>5. \A i \in DOMAIN s \ RecentOf(s, L, t) : s[i] <= t - RATE_LIMIT_WINDOW_MS
  BY <1>1, LimitConstants DEF UserInv, RecentOf
<1>6. RecentOf(s, L, t) \subseteq DOMAIN s /\ t \in -1..LastTime /\ t <= t
  BY <1>1, LimitConstants DEF RecentOf
<1> QED
  BY <1>4, <1>5, <1>6 DEF UserInv

LEMMA TimeKeepsLimit ==
    ASSUME NEW s, NEW L, NEW r, NEW t \in 0..LastTime, UserInv(s, L, r, t)
    PROVE  UserInv(s, L, r, t + 1)
<1>1. r \in Int /\ \A i \in DOMAIN s : s[i] \in Int
  <2>1. s \in Seq(0..LastTime) /\ r \in -1..LastTime
    BY DEF UserInv
  <2> QED
    BY <2>1, CallTimes, LimitConstants
<1>2. r <= t + 1 /\ \A i \in DOMAIN s : s[i] <= t + 1
  BY <1>1, LimitConstants DEF UserInv
<1>3. \A i \in DOMAIN s \ L : s[i] <= t + 1 - RATE_LIMIT_WINDOW_MS
  BY <1>1, LimitConstants DEF UserInv
<1>4. /\ s \in Seq(0..LastTime) /\ L \subseteq DOMAIN s /\ r \in -1..LastTime
      /\ \A i, j \in DOMAIN s : i <= j => s[i] <= s[j]
      /\ \A i \in DOMAIN s : i > RATE_LIMIT_MAX =>
            s[i] - s[i - RATE_LIMIT_MAX] >= RATE_LIMIT_WINDOW_MS
      /\ r # -1 => Cardinality(Counted(s, r)) >= RATE_LIMIT_MAX
  BY DEF UserInv
<1> QED
  BY <1>1, <1>2, <1>3, <1>4, LimitConstants DEF UserInv

LEMMA FreshKeepsLimit ==
    ASSUME NEW t \in 0..LastTime PROVE UserInv(<<>>, {}, -1, t)
<1>1. <<>> \in Seq(0..LastTime) /\ DOMAIN <<>> = {}
  OBVIOUS
<1> QED
  BY <1>1, LimitConstants DEF UserInv

-----------------------------------------------------------------------------
(* Limits: every step keeps the invariant.                                  *)

LEMMA LimitInit == LimitsInit => LimitInv
<1> SUFFICES ASSUME LimitsInit PROVE LimitInv
  OBVIOUS
<1>1. now \in 0..LastTime
  BY LimitConstants DEF LimitsInit
<1> QED
  BY <1>1, FreshKeepsLimit DEF LimitsInit, LimitInv

LEMMA LimitStep == LimitInv /\ [LimitsNext]_limitVars => LimitInv'
<1> SUFFICES ASSUME LimitInv, [LimitsNext]_limitVars PROVE LimitInv'
  OBVIOUS
<1> USE DEF LimitInv
<1>1. ASSUME NEW u \in Users, Accept(u) PROVE LimitInv'
  <2>1. recent(u) = RecentOf(accepted[u], userTimestamps[u], now)
    BY DEF recent, RecentOf
  <2>2. UserInv(accepted'[u], userTimestamps'[u], refused[u], now)
    BY <1>1, <2>1, AcceptKeepsLimit DEF Accept
  <2> QED
    BY <1>1, <2>2 DEF Accept
<1>2. ASSUME NEW u \in Users, Refuse(u) PROVE LimitInv'
  <2>1. recent(u) = RecentOf(accepted[u], userTimestamps[u], now)
    BY DEF recent, RecentOf
  <2>2. UserInv(accepted[u], userTimestamps'[u], refused'[u], now)
    BY <1>2, <2>1, RefuseKeepsLimit DEF Refuse
  <2> QED
    BY <1>2, <2>2 DEF Refuse
<1>3. CASE RestartWeb
  BY <1>3, FreshKeepsLimit DEF RestartWeb
<1>4. CASE TimePasses
  <2>1. now' \in 0..LastTime /\ now' = now + 1
    BY <1>4, LimitConstants DEF TimePasses
  <2> QED
    BY <1>4, <2>1, TimeKeepsLimit DEF TimePasses
<1>5. CASE UNCHANGED limitVars
  BY <1>5 DEF limitVars
<1> QED
  BY <1>1, <1>2, <1>3, <1>4, <1>5 DEF LimitsNext

\* The inductive invariant holds of every behaviour.
THEOREM LimitInvariant == LimitsSpec => []LimitInv
<1>1. LimitsInit => LimitInv
  BY LimitInit
<1>2. LimitInv /\ [LimitsNext]_limitVars => LimitInv'
  BY LimitStep
<1> QED
  BY <1>1, <1>2, PTL DEF LimitsSpec

-----------------------------------------------------------------------------
(* Limits: what follows.                                                    *)

\* Type correctness: the limiter lists only calls that passed.
THEOREM LimitsTypeCorrect == LimitsSpec => []LimitsTypeOK
<1>1. LimitInv => LimitsTypeOK
  BY DEF LimitInv, UserInv, LimitsTypeOK
<1> QED
  BY <1>1, LimitInvariant, PTL

\* rateLimitOk is exact, whatever it trims and when: no more than
\* RATE_LIMIT_MAX calls of a user pass in a window, and a refused call had
\* RATE_LIMIT_MAX accepted ones in the window before it.
THEOREM LimitHolds == LimitsSpec => []LimitIsExact
<1>1. LimitInv => LimitIsExact
  BY DEF LimitInv, UserInv, LimitIsExact, Counted
<1> QED
  BY <1>1, LimitInvariant, PTL

-----------------------------------------------------------------------------
(* Settings: the inductive invariant.                                       *)

Patch == [at : {"idle", "sent", "read", "written"}, saw : Stored,
          field : Fields \cup {Unset}, value : Options \cup {Unset}]

\* What the requests under way have to do with the row and what was sent last,
\* as long as they never overlapped.
InStep(p) ==
    /\ uPatch[p].at \in {"sent", "read"} =>
          /\ uPatch[p].field \in Fields /\ uPatch[p].value \in Options
          /\ uSent = [uRow EXCEPT ![uPatch[p].field] = uPatch[p].value]
    /\ uPatch[p].at = "read" => uPatch[p].saw = uRow
    /\ uPatch[p].at = "written" => uPatch[p].saw = uSent /\ uRow = uSent

Untangled ==
    /\ uStore = uSent
    /\ \A p, q \in Patches : uPatch[p].at # "idle" /\ uPatch[q].at # "idle" => p = q
    /\ PatchUnderway => uGet.at = "idle"
    /\ ~PatchUnderway => uRow = uSent /\ uQuery = uSent
    /\ uGet.at = "read" => uGet.saw = uSent
    /\ \A p \in Patches : InStep(p)

Named == \A p \in Patches : uPatch[p].at # "idle" =>
            uPatch[p].field \in Fields /\ uPatch[p].value \in Options

SettingsInv == SettingsTypeOK /\ Named /\ (~uTangled => Untangled)

LEMMA SettingsConstants == Unset \notin Options /\ Default \in Stored /\ MaxChanges \in Nat
  BY SettingsAssumption DEF Stored

LEMMA SettingsTyped ==
    ASSUME SettingsTypeOK
    PROVE  /\ uRow \in Stored /\ uQuery \in Stored /\ uStore \in Stored
           /\ uSent \in Stored /\ uChosen \in Stored
           /\ uGet.at \in {"idle", "sent", "read"} /\ uGet.saw \in Stored
           /\ uPatch \in [Patches -> Patch]
           /\ \A p \in Patches : uPatch[p] \in Patch
  BY DEF SettingsTypeOK, Patch

\* The typing of a step from the typing of what it assigns.
LEMMA SettingsTypedNext ==
    ASSUME {uRow', uQuery', uStore', uChosen', uSent'} \subseteq Stored,
           uGet' \in [at : {"idle", "sent", "read"}, saw : Stored],
           uOpen' \in BOOLEAN, uTangled' \in BOOLEAN, uChanges' \in 0..MaxChanges,
           uTimer' \in [Fields -> Options \cup {Unset}], uPatch' \in [Patches -> Patch]
    PROVE  SettingsTypeOK'
  BY DEF SettingsTypeOK, Patch, Stored

LEMMA MirrorsTyped ==
    ASSUME SettingsTypeOK, NEW data \in Stored, NEW store \in Stored, Mirrors(data, store)
    PROVE  uQuery' = data /\ uStore' \in {store, data} /\ uQuery' \in Stored /\ uStore' \in Stored
  BY DEF Mirrors

-----------------------------------------------------------------------------
(* Settings: every step keeps the invariant.                                *)

LEMMA SettingsStart == SettingsInit => SettingsInv
<1> SUFFICES ASSUME SettingsInit PROVE SettingsInv
  OBVIOUS
<1>1. \A p \in Patches : uPatch[p].at = "idle"
  BY DEF SettingsInit
<1>2. SettingsTypeOK
  <2>1. /\ {uRow, uQuery, uStore, uChosen, uSent} \subseteq Stored
        /\ uGet \in [at : {"idle", "sent", "read"}, saw : Stored]
    BY SettingsConstants DEF SettingsInit
  <2>2. uOpen \in BOOLEAN /\ uTangled \in BOOLEAN
    BY DEF SettingsInit
  <2>3. uChanges \in 0..MaxChanges /\ uTimer \in [Fields -> Options \cup {Unset}]
    BY SettingsConstants DEF SettingsInit
  <2>4. uPatch \in [Patches -> Patch]
    BY SettingsConstants DEF SettingsInit, Patch
  <2> QED
    BY <2>1, <2>2, <2>3, <2>4 DEF SettingsTypeOK, Patch
<1>3. Untangled
  BY <1>1 DEF SettingsInit, Untangled, InStep, PatchUnderway
<1> QED
  BY <1>1, <1>2, <1>3 DEF SettingsInv, Named

\* The page's own steps touch only the timers, the history and uOpen.
LEMMA PageKeeps ==
    ASSUME SettingsInv, \/ OpenSettings \/ LeaveSettings
                \/ \E f \in Fields, v \in Options : Commit(f, v)
    PROVE  SettingsInv'
<1>1. UNCHANGED <<uRow, uQuery, uStore, uGet, uPatch, uSent, uTangled>>
  BY DEF OpenSettings, LeaveSettings, Commit, client
<1>2. uOpen' \in BOOLEAN
  BY DEF OpenSettings, LeaveSettings, Commit, SettingsInv, SettingsTypeOK
<1>3. uTimer' \in [Fields -> Options \cup {Unset}]
  BY DEF OpenSettings, LeaveSettings, Commit, SettingsInv, SettingsTypeOK
<1>4. uChosen' \in Stored /\ uChanges' \in 0..MaxChanges
  BY SettingsConstants DEF OpenSettings, LeaveSettings, Commit, SettingsInv, SettingsTypeOK, Stored
<1>5. SettingsTypeOK'
  BY <1>1, <1>2, <1>3, <1>4 DEF SettingsInv, SettingsTypeOK
<1> QED
  BY <1>1, <1>5 DEF SettingsInv, Named, Untangled, InStep, PatchUnderway

LEMMA MutateKeeps ==
    ASSUME SettingsInv, NEW p \in Patches, NEW f \in Fields, Mutate(p, f) PROVE SettingsInv'
<1> DEFINE v == uTimer[f]
           x == [at |-> "sent", field |-> f, value |-> v, saw |-> Default]
<1>1. v \in Options /\ uPatch[p].at = "idle"
  BY DEF Mutate, SettingsInv, SettingsTypeOK
<1>2. /\ x \in Patch /\ uPatch' = [uPatch EXCEPT ![p] = x]
      /\ uPatch' \in [Patches -> Patch] /\ uPatch'[p] = x
      /\ \A q \in Patches : q # p => uPatch'[q] = uPatch[q]
  BY <1>1, SettingsConstants, SettingsTyped DEF Mutate, Patch, SettingsInv
<1>3. /\ uStore' = [uStore EXCEPT ![f] = v] /\ uSent' = [uSent EXCEPT ![f] = v]
      /\ uStore' \in Stored /\ uSent' \in Stored
  BY <1>1 DEF Mutate, SettingsInv, SettingsTypeOK, Stored
<1>4. SettingsTypeOK'
  <2>1. uTangled' \in BOOLEAN
    BY DEF Mutate, PatchUnderway
  <2>2. uTimer' \in [Fields -> Options \cup {Unset}]
    BY DEF Mutate, SettingsInv, SettingsTypeOK
  <2> QED
    BY <1>2, <1>3, <2>1, <2>2, SettingsTypedNext DEF Mutate, SettingsInv, SettingsTypeOK
<1>5. Named'
  BY <1>1, <1>2 DEF SettingsInv, Named
<1>6. ASSUME ~uTangled' PROVE Untangled'
  <2>1. ~uTangled /\ ~PatchUnderway /\ uGet.at = "idle"
    BY <1>6 DEF Mutate
  <2>2. /\ uStore = uSent /\ uRow = uSent /\ uQuery = uSent
        /\ \A q \in Patches : uPatch[q].at = "idle"
    BY <2>1 DEF SettingsInv, Untangled, PatchUnderway
  <2>3. \A q \in Patches : q # p => uPatch'[q].at = "idle"
    BY <1>2, <2>2
  <2>4. uRow' = uRow /\ uGet' = uGet /\ uPatch'[p].at = "sent"
    BY <1>2 DEF Mutate
  <2>5. \A q \in Patches : InStep(q)'
    BY <1>1, <1>2, <1>3, <2>2, <2>3, <2>4 DEF InStep
  <2> QED
    BY <1>3, <2>1, <2>2, <2>3, <2>4, <2>5 DEF Untangled, PatchUnderway
<1> QED
  BY <1>4, <1>5, <1>6 DEF SettingsInv

LEMMA ReadKeeps ==
    ASSUME SettingsInv, NEW p \in Patches, ReadPreferences(p) PROVE SettingsInv'
<1>1. /\ uPatch' \in [Patches -> Patch] /\ uPatch[p].at = "sent"
      /\ uPatch'[p].at = "read" /\ uPatch'[p].saw = uRow
      /\ uPatch'[p].field = uPatch[p].field /\ uPatch'[p].value = uPatch[p].value
      /\ \A q \in Patches : q # p => uPatch'[q] = uPatch[q]
  BY SettingsTyped DEF ReadPreferences, Patch, SettingsInv
<1>2. UNCHANGED <<uRow, uQuery, uStore, uGet, uOpen, uTimer, uChosen, uSent, uChanges, uTangled>>
  BY DEF ReadPreferences, client
<1>3. SettingsTypeOK'
  BY <1>1, <1>2 DEF SettingsInv, SettingsTypeOK, Patch
<1>4. PatchUnderway /\ PatchUnderway'
  BY <1>1 DEF PatchUnderway
<1> QED
  BY <1>1, <1>2, <1>3, <1>4 DEF SettingsInv, Named, Untangled, InStep

LEMMA WriteKeeps ==
    ASSUME SettingsInv, NEW p \in Patches, WritePreferences(p) PROVE SettingsInv'
<1>1. uPatch[p].at = "read" /\ uPatch[p].field \in Fields /\ uPatch[p].value \in Options
  BY DEF WritePreferences, SettingsInv, Named
<1>2. Merged(p) \in Stored
  BY <1>1, SettingsTyped DEF Merged, SettingsInv, Patch, Stored
<1>3. /\ uPatch' \in [Patches -> Patch]
      /\ uPatch'[p].at = "written" /\ uPatch'[p].saw = Merged(p)
      /\ uPatch'[p].field = uPatch[p].field /\ uPatch'[p].value = uPatch[p].value
      /\ \A q \in Patches : q # p => uPatch'[q] = uPatch[q]
  BY <1>2, SettingsTyped DEF WritePreferences, Patch, SettingsInv
<1>4. /\ uRow' = Merged(p)
      /\ UNCHANGED <<uQuery, uStore, uGet, uOpen, uTimer, uChosen, uSent, uChanges, uTangled>>
  BY DEF WritePreferences, client
<1>5. SettingsTypeOK' /\ Named'
  BY <1>1, <1>2, <1>3, <1>4 DEF SettingsInv, SettingsTypeOK, Named, Patch
<1>6. ASSUME ~uTangled' PROVE Untangled'
  <2>1. Untangled /\ InStep(p)
    BY <1>4, <1>6 DEF SettingsInv, Untangled
  <2>2. Merged(p) = uSent
    BY <1>1, <2>1 DEF InStep, Merged
  <2>3. \A q \in Patches : q # p => uPatch'[q].at = "idle"
    BY <1>1, <1>3, <2>1 DEF Untangled
  <2>4. \A q \in Patches : InStep(q)'
    BY <1>3, <1>4, <2>2, <2>3 DEF InStep
  <2>5. PatchUnderway /\ PatchUnderway'
    BY <1>1, <1>3 DEF PatchUnderway
  <2> QED
    BY <1>1, <1>3, <1>4, <2>1, <2>3, <2>4, <2>5 DEF Untangled
<1> QED
  BY <1>5, <1>6 DEF SettingsInv

\* The request that ends is no more.
LEMMA IdleFacts ==
    ASSUME SettingsTypeOK, NEW p \in Patches, Idle(p)
    PROVE  /\ uPatch' \in [Patches -> Patch] /\ uPatch'[p].at = "idle"
           /\ \A q \in Patches : q # p => uPatch'[q] = uPatch[q]
  BY SettingsTyped, SettingsConstants DEF Idle, Patch

LEMMA SucceedsKeeps ==
    ASSUME SettingsInv, NEW p \in Patches, PatchSucceeds(p) PROVE SettingsInv'
<1>1. /\ uPatch' \in [Patches -> Patch] /\ uPatch'[p].at = "idle" /\ uPatch[p].at = "written"
      /\ \A q \in Patches : q # p => uPatch'[q] = uPatch[q]
  BY IdleFacts DEF PatchSucceeds, SettingsInv
<1>2. /\ uPatch[p].saw \in Stored /\ uQuery' = uPatch[p].saw
      /\ uStore' \in {uStore, uPatch[p].saw}
      /\ uQuery' \in Stored /\ uStore' \in Stored
  BY SettingsTyped, MirrorsTyped DEF PatchSucceeds, SettingsInv, Patch
<1>3. UNCHANGED <<uRow, uGet, uOpen, uTimer, uChosen, uSent, uChanges, uTangled>>
  BY DEF PatchSucceeds
<1>4. SettingsTypeOK' /\ Named'
  BY <1>1, <1>2, <1>3 DEF SettingsInv, SettingsTypeOK, Named, Patch
<1>5. ASSUME ~uTangled' PROVE Untangled'
  <2>1. Untangled /\ InStep(p)
    BY <1>3, <1>5 DEF SettingsInv, Untangled
  <2>2. \A q \in Patches : uPatch'[q].at = "idle"
    BY <1>1, <2>1 DEF Untangled
  <2>3. uPatch[p].saw = uSent /\ uRow = uSent /\ uStore' = uSent /\ uGet.at = "idle"
    BY <1>1, <1>2, <2>1 DEF Untangled, InStep, PatchUnderway
  <2> QED
    BY <1>2, <1>3, <2>2, <2>3 DEF Untangled, InStep, PatchUnderway
<1> QED
  BY <1>4, <1>5 DEF SettingsInv

LEMMA FailsKeeps ==
    ASSUME SettingsInv, NEW p \in Patches, PatchFails(p) PROVE SettingsInv'
<1>1. /\ uPatch' \in [Patches -> Patch] /\ uPatch'[p].at = "idle" /\ uTangled' = TRUE
      /\ \A q \in Patches : q # p => uPatch'[q] = uPatch[q]
  BY IdleFacts DEF PatchFails, SettingsInv
<1>2. UNCHANGED <<uRow, uQuery, uStore, uGet, uOpen, uTimer, uChosen, uSent, uChanges>>
  BY DEF PatchFails, client
<1>3. uTangled' \in BOOLEAN
  BY <1>1, Zenon
<1>4. SettingsTypeOK' /\ Named'
  BY <1>1, <1>2, <1>3 DEF SettingsInv, SettingsTypeOK, Named, Patch
<1> QED
  BY <1>1, <1>4 DEF SettingsInv

LEMMA GetKeeps ==
    ASSUME SettingsInv, Refetch \/ ReadForGet \/ GetSettles PROVE SettingsInv'
<1>1. UNCHANGED <<uRow, uOpen, uTimer, uPatch, uChosen, uSent, uChanges>>
  BY DEF Refetch, ReadForGet, GetSettles
<1>2. CASE Refetch
  <2>1. /\ uGet' = [at |-> "sent", saw |-> uGet.saw] /\ UNCHANGED <<uQuery, uStore>>
        /\ uGet' \in [at : {"idle", "sent", "read"}, saw : Stored]
    BY <1>2 DEF Refetch, SettingsInv, SettingsTypeOK
  <2>2. uTangled' \in BOOLEAN
    BY <1>2 DEF Refetch, PatchUnderway
  <2>3. SettingsTypeOK' /\ Named'
    BY <1>1, <2>1, <2>2 DEF SettingsInv, SettingsTypeOK, Named
  <2>4. ASSUME ~uTangled' PROVE Untangled'
    <3>1. ~uTangled /\ ~PatchUnderway
      BY <1>2, <2>4 DEF Refetch
    <3> QED
      BY <1>1, <2>1, <3>1 DEF SettingsInv, Untangled, InStep, PatchUnderway
  <2> QED
    BY <2>3, <2>4 DEF SettingsInv
<1>3. CASE ReadForGet
  <2>1. /\ uGet.at = "sent" /\ uGet' = [at |-> "read", saw |-> uRow]
        /\ UNCHANGED <<uQuery, uStore, uTangled>>
    BY <1>3 DEF ReadForGet
  <2>2. SettingsTypeOK' /\ Named'
    BY <1>1, <2>1, SettingsTyped DEF SettingsInv, SettingsTypeOK, Named
  <2>3. ASSUME ~uTangled' PROVE Untangled'
    <3>1. Untangled /\ ~PatchUnderway
      BY <2>1, <2>3 DEF SettingsInv, Untangled
    <3>2. uGet'.at = "read" /\ uGet'.saw = uSent
      BY <2>1, <3>1 DEF Untangled
    <3> QED
      BY <1>1, <2>1, <3>1, <3>2 DEF Untangled, InStep, PatchUnderway
  <2> QED
    BY <2>2, <2>3 DEF SettingsInv
<1>4. CASE GetSettles
  <2>1. /\ uGet.at # "idle" /\ uGet' = [at |-> "idle", saw |-> Default] /\ uTangled' = uTangled
        /\ \/ /\ uGet.at = "read" /\ uQuery' = uGet.saw /\ uStore' \in {uStore, uGet.saw}
           \/ UNCHANGED <<uQuery, uStore>>
    BY <1>4 DEF GetSettles, Mirrors
  <2>2. /\ uQuery' \in Stored /\ uStore' \in Stored
        /\ uGet' \in [at : {"idle", "sent", "read"}, saw : Stored]
    BY <2>1, SettingsTyped, SettingsConstants DEF SettingsInv
  <2>3. SettingsTypeOK' /\ Named'
    BY <1>1, <2>1, <2>2 DEF SettingsInv, SettingsTypeOK, Named
  <2>4. ASSUME ~uTangled' PROVE Untangled'
    <3>1. Untangled /\ ~PatchUnderway
      BY <2>1, <2>4 DEF SettingsInv, Untangled
    <3>2. uQuery' = uSent /\ uStore' = uSent
      BY <2>1, <3>1 DEF Untangled
    <3> QED
      BY <1>1, <2>1, <3>1, <3>2 DEF Untangled, InStep, PatchUnderway
  <2> QED
    BY <2>3, <2>4 DEF SettingsInv
<1> QED
  BY <1>2, <1>3, <1>4

LEMMA SettingsStep == SettingsInv /\ [SettingsNext]_settingsVars => SettingsInv'
<1> SUFFICES ASSUME SettingsInv, [SettingsNext]_settingsVars PROVE SettingsInv'
  OBVIOUS
<1>1. CASE \/ OpenSettings \/ LeaveSettings
           \/ \E f \in Fields, v \in Options : Commit(f, v)
  BY <1>1, PageKeeps
<1>2. CASE Refetch \/ ReadForGet \/ GetSettles
  BY <1>2, GetKeeps
<1>3. ASSUME NEW p \in Patches,
             \/ ReadPreferences(p) \/ WritePreferences(p) \/ PatchSucceeds(p) \/ PatchFails(p)
             \/ \E f \in Fields : Mutate(p, f)
      PROVE  SettingsInv'
  BY <1>3, ReadKeeps, WriteKeeps, SucceedsKeeps, FailsKeeps, MutateKeeps
<1>4. CASE UNCHANGED settingsVars
  <2>1. UNCHANGED <<uRow, uQuery, uStore, uGet, uOpen, uTimer, uPatch, uChosen, uSent, uChanges, uTangled>>
    BY <1>4 DEF settingsVars, client
  <2> QED
    BY <2>1 DEF SettingsInv, SettingsTypeOK, Named, Untangled, InStep, PatchUnderway
<1> QED
  BY <1>1, <1>2, <1>3, <1>4 DEF SettingsNext

\* The inductive invariant holds of every behaviour.
THEOREM SettingsInvariant == SettingsSpec => []SettingsInv
<1>1. SettingsInit => SettingsInv
  BY SettingsStart
<1>2. SettingsInv /\ [SettingsNext]_settingsVars => SettingsInv'
  BY SettingsStep
<1> QED
  BY <1>1, <1>2, PTL DEF SettingsSpec

-----------------------------------------------------------------------------
(* Settings: what follows.                                                  *)

\* Type correctness of the row, the client and the requests.
THEOREM SettingsTypeCorrect == SettingsSpec => []SettingsTypeOK
<1>1. SettingsInv => SettingsTypeOK
  BY DEF SettingsInv
<1> QED
  BY <1>1, SettingsInvariant, PTL

\* The PATCH route's read, merge and write lose nothing of changes that did
\* not overlap, and the query and the store end where the row does.
THEOREM ChangesKept == SettingsSpec => []SequentialChangesKept
<1>1. SettingsInv => SequentialChangesKept
  BY DEF SettingsInv, Untangled, SequentialChangesKept
<1> QED
  BY <1>1, SettingsInvariant, PTL

\* The page is left while a change waits for its timer.
LeavesEarly == LeaveSettings /\ \E f \in Fields : uTimer[f] # Unset

\* What waits is what was chosen last; where nothing waits, that has been sent.
ChosenIsDue ==
    \A f \in Fields :
        IF uTimer[f] = Unset THEN uSent[f] = uChosen[f] ELSE uTimer[f] = uChosen[f]

LEMMA DueStep ==
    ASSUME SettingsTypeOK, ChosenIsDue, [SettingsNext]_settingsVars, [~LeavesEarly]_settingsVars
    PROVE  ChosenIsDue'
<1> USE SettingsConstants DEF client
<1>0. /\ uTimer \in [Fields -> Options \cup {Unset}]
      /\ uChosen \in [Fields -> Options] /\ uSent \in [Fields -> Options]
  BY DEF SettingsTypeOK, Stored
<1> DEFINE Same == UNCHANGED <<uTimer, uChosen, uSent>>
<1>1. ASSUME Same PROVE ChosenIsDue'
  BY <1>1 DEF ChosenIsDue
<1>2. ASSUME NEW f \in Fields, NEW v \in Options, Commit(f, v) PROVE ChosenIsDue'
  BY <1>0, <1>2 DEF Commit, ChosenIsDue
<1>3. ASSUME NEW p \in Patches, NEW f \in Fields, Mutate(p, f) PROVE ChosenIsDue'
  BY <1>0, <1>3 DEF Mutate, ChosenIsDue
<1>4. CASE LeaveSettings
  <2>1. CASE UNCHANGED settingsVars
    BY <1>1, <2>1 DEF settingsVars
  <2>2. CASE ~LeavesEarly
    <3>1. uTimer' = uTimer /\ UNCHANGED <<uChosen, uSent>>
      BY <1>0, <1>4, <2>2 DEF LeaveSettings, LeavesEarly
    <3> QED
      BY <1>1, <3>1
  <2> QED
    BY <2>1, <2>2
<1>5. CASE OpenSettings \/ Refetch \/ ReadForGet \/ GetSettles
  BY <1>1, <1>5 DEF OpenSettings, Refetch, ReadForGet, GetSettles
<1>6. ASSUME NEW p \in Patches,
             ReadPreferences(p) \/ WritePreferences(p) \/ PatchSucceeds(p) \/ PatchFails(p)
      PROVE  ChosenIsDue'
  BY <1>1, <1>6 DEF ReadPreferences, WritePreferences, PatchSucceeds, PatchFails
<1>7. CASE UNCHANGED settingsVars
  BY <1>1, <1>7 DEF settingsVars
<1> QED
  BY <1>2, <1>3, <1>4, <1>5, <1>6, <1>7 DEF SettingsNext

\* The comment at the settings page's cleanup ("a navigation-in-flight delta
\* still fires") is right of every change but those waiting when the page is left.
THEOREM OnlyLeavingLoses ==
    SettingsSpec /\ [][~LeavesEarly]_settingsVars => []NavigationStillFires
<1>1. SettingsInit => ChosenIsDue
  BY DEF SettingsInit, ChosenIsDue
<1>2. SettingsTypeOK /\ ChosenIsDue /\ [SettingsNext]_settingsVars /\ [~LeavesEarly]_settingsVars
        => ChosenIsDue'
  BY DueStep
<1>3. ChosenIsDue => NavigationStillFires
  BY DEF ChosenIsDue, NavigationStillFires
<1> QED
  BY <1>1, <1>2, <1>3, SettingsTypeCorrect, PTL DEF SettingsSpec

\* From a choice on the page to the row: at rest, with no timer waiting, the
\* row and the store hold what was chosen last in every field, unless the page
\* was left early, two requests were under way together or one failed.
THEOREM ChoicesReachTheRow ==
    SettingsSpec /\ [][~LeavesEarly]_settingsVars =>
        [](~uTangled /\ ~PatchUnderway /\ (\A f \in Fields : uTimer[f] = Unset)
              => uRow = uChosen /\ uStore = uChosen)
<1>1. ASSUME SettingsTypeOK, NavigationStillFires, SequentialChangesKept
      PROVE  ~uTangled /\ ~PatchUnderway /\ (\A f \in Fields : uTimer[f] = Unset)
                => uRow = uChosen /\ uStore = uChosen
  <2>1. uSent \in [Fields -> Options] /\ uChosen \in [Fields -> Options]
    BY <1>1 DEF SettingsTypeOK, Stored
  <2>2. (\A f \in Fields : uTimer[f] = Unset) => uSent = uChosen
    BY <1>1, <2>1 DEF NavigationStillFires
  <2> QED
    BY <1>1, <2>2 DEF SequentialChangesKept
<1> QED
  BY <1>1, OnlyLeavingLoses, ChangesKept, SettingsTypeCorrect, PTL

-----------------------------------------------------------------------------
(* Push.  The invariant is inductive with the typing, which keeps the rows  *)
(* and the registrations among the endpoints handed out.                    *)

LEMMA PushStart == PushInit => PushTypeOK /\ SubscribedIsStored
<1> SUFFICES ASSUME PushInit PROVE PushTypeOK /\ SubscribedIsStored
  OBVIOUS
<1>1. PushTypeOK
  BY DEF PushInit, PushTypeOK
<1>2. SubscribedIsStored
  BY DEF PushInit, SubscribedIsStored
<1> QED
  BY <1>1, <1>2

\* The tabs and the browser.  Only a subscription that is registered at once
\* becomes the browser's.
LEMMA BrowserKeepsPush ==
    ASSUME PushTypeOK, SubscribedIsStored,
           \/ SwitchPreference \/ ExpireSubscription
           \/ \E t \in Windows : CheckSubscribed(t) \/ ClickEnable(t) \/ PermissionRefused(t)
                 \/ Subscribe(t) \/ EnableSettles(t) \/ ReloadTab(t)
    PROVE  PushTypeOK' /\ SubscribedIsStored'
<1> USE DEF browser, server
<1>1. CASE SwitchPreference \/ ExpireSubscription
  <2>1. PushTypeOK'
    BY <1>1 DEF PushTypeOK, SwitchPreference, ExpireSubscription
  <2>2. SubscribedIsStored'
    BY <1>1 DEF SubscribedIsStored, SwitchPreference, ExpireSubscription
  <2> QED
    BY <2>1, <2>2
<1>2. ASSUME NEW t \in Windows,
             \/ CheckSubscribed(t) \/ ClickEnable(t) \/ PermissionRefused(t)
             \/ EnableSettles(t) \/ ReloadTab(t)
      PROVE  PushTypeOK' /\ SubscribedIsStored'
  <2>1. /\ \E s \in {"hidden", "shown", "asking", "registering"} : banner' = [banner EXCEPT ![t] = s]
        /\ permission' \in {permission, "denied", "granted"}
        /\ UNCHANGED <<preference, subscription, used, rows, posted, lost, notify>>
    BY <1>2 DEF CheckSubscribed, ClickEnable, PermissionRefused, EnableSettles, ReloadTab
  <2>2. PushTypeOK'
    BY <2>1 DEF PushTypeOK
  <2> QED
    BY <2>1, <2>2 DEF SubscribedIsStored
<1>3. ASSUME NEW t \in Windows, Subscribe(t) PROVE PushTypeOK' /\ SubscribedIsStored'
  <2>1. PICK e \in Endpoints : subscription' = e /\ used' = used \cup {e} /\ posted' = posted \cup {e}
    BY <1>3 DEF Subscribe
  <2>2. /\ permission' = "granted" /\ banner' = [banner EXCEPT ![t] = "registering"]
        /\ UNCHANGED <<preference, rows, lost, notify>>
    BY <1>3 DEF Subscribe
  <2>3. PushTypeOK'
    BY <2>1, <2>2 DEF PushTypeOK
  <2> QED
    BY <2>1, <2>3 DEF SubscribedIsStored
<1> QED
  BY <1>1, <1>2, <1>3

\* The routes and the fan-out.  What the push service calls gone is not what the
\* browser holds.
LEMMA ServerKeepsPush ==
    ASSUME PushTypeOK, SubscribedIsStored,
           \/ \E e \in Endpoints : StoreSubscription(e) \/ LoseRegistration(e)
           \/ \E n \in Sends : ReadSubscriptions(n) \/ SendSettles(n) \/ DeleteStale(n)
    PROVE  PushTypeOK' /\ SubscribedIsStored'
<1> USE DEF browser
<1>1. ASSUME NEW e \in Endpoints, StoreSubscription(e) \/ LoseRegistration(e)
      PROVE  PushTypeOK' /\ SubscribedIsStored'
  <2>1. /\ e \in posted /\ posted' = posted \ {e}
        /\ UNCHANGED <<permission, preference, subscription, used, banner, notify>>
        /\ \/ rows' = rows \cup {e} /\ lost' = lost
           \/ lost' = lost \cup {e} /\ rows' = rows
    BY <1>1 DEF StoreSubscription, LoseRegistration
  <2>2. PushTypeOK'
    BY <2>1 DEF PushTypeOK
  <2> QED
    BY <2>1, <2>2 DEF SubscribedIsStored
<1>2. ASSUME NEW n \in Sends, ReadSubscriptions(n) \/ SendSettles(n) \/ DeleteStale(n)
      PROVE  PushTypeOK' /\ SubscribedIsStored'
  <2>1. UNCHANGED <<permission, preference, subscription, used, posted, lost, banner>>
    BY <1>2 DEF ReadSubscriptions, SendSettles, DeleteStale
  <2>2. /\ rows' \subseteq rows /\ (subscription \in rows => subscription \in rows')
        /\ notify' \in [Sends -> [at : {"idle", "sending"}, left : SUBSET Endpoints]]
    <3>1. CASE ReadSubscriptions(n)
      <4>1. rows \in SUBSET Endpoints
        BY DEF PushTypeOK
      <4> QED
        BY <3>1, <4>1 DEF ReadSubscriptions, PushTypeOK
    <3>2. CASE SendSettles(n) \/ DeleteStale(n)
      <4>1. PICK e \in notify[n].left : notify' = [notify EXCEPT ![n].left = @ \ {e}]
        BY <3>2 DEF SendSettles, DeleteStale
      <4>2. rows' = rows \/ \E x : x # subscription /\ rows' = rows \ {x}
        BY <3>2 DEF SendSettles, DeleteStale
      <4>3. notify' \in [Sends -> [at : {"idle", "sending"}, left : SUBSET Endpoints]]
        BY <4>1 DEF PushTypeOK
      <4> QED
        BY <4>2, <4>3
    <3> QED
      BY <1>2, <3>1, <3>2
  <2>3. PushTypeOK'
    BY <2>1, <2>2 DEF PushTypeOK
  <2> QED
    BY <2>1, <2>2, <2>3 DEF SubscribedIsStored
<1> QED
  BY <1>1, <1>2

LEMMA PushInvariant == PushSpec => [](PushTypeOK /\ SubscribedIsStored)
<1>1. PushInit => PushTypeOK /\ SubscribedIsStored
  BY PushStart
<1>2. PushTypeOK /\ SubscribedIsStored /\ [PushNext]_pushVars => PushTypeOK' /\ SubscribedIsStored'
  <2> SUFFICES ASSUME PushTypeOK, SubscribedIsStored, [PushNext]_pushVars
               PROVE  PushTypeOK' /\ SubscribedIsStored'
    OBVIOUS
  <2>1. CASE UNCHANGED pushVars
    BY <2>1 DEF pushVars, PushTypeOK, SubscribedIsStored
  <2> QED
    BY <2>1, BrowserKeepsPush, ServerKeepsPush DEF PushNext
<1> QED
  BY <1>1, <1>2, PTL DEF PushSpec

\* Type correctness: the server has rows only for endpoints once handed out.
THEOREM PushTypeCorrect == PushSpec => []PushTypeOK
  BY PushInvariant, PTL

\* The fan-out's deletions of what is gone never hit the row of a subscription
\* the browser holds, in whatever order tabs, routes and fan-outs interleave.
THEOREM SubscriptionIsStored == PushSpec => []SubscribedIsStored
  BY PushInvariant, PTL

-----------------------------------------------------------------------------
(* Onboarding: the inductive invariant.                                     *)

\* The script, respectively the invitation, has made the account of its email.
ScriptHolds(a) == provisioning[a].at \in {"organization", "member", "verify", "done"}
InviteHolds(v) == joining[v].at \in {"public", "signin", "accept", "lookup", "done"}

\* What each statement of a script rests on, and what its admin belongs to.
ScriptInv ==
    \A a \in Tenants :
        /\ provisioning[a].at \notin {"insert", "failed"} => a \in tenants
        /\ provisioning[a].at \in {"bucket", "signup"} \/ ScriptHolds(a) => <<a, "hyphens">> \in schemas
        /\ provisioning[a].at = "signup" \/ ScriptHolds(a) => provisioning[a].slug \in buckets
        /\ provisioning[a].at \in {"member", "verify", "done"} => a \in organizations
        /\ ScriptHolds(a) => provisioning[a].email \in users
        /\ provisioning[a].at \in {"organization", "member"} =>
              \A o \in Tenants : <<provisioning[a].email, o>> \notin members
        /\ provisioning[a].at \in {"verify", "done"} =>
              \A o \in Tenants : <<provisioning[a].email, o>> \in members <=> o = a

\* The same of an invitation that made an account.
InviteInv ==
    \A v \in SignUps :
        /\ joining[v].org \in organizations \cup {NoTenant}
        /\ InviteHolds(v) => joining[v].email \in users
        /\ joining[v].at \in {"public", "signin", "accept"} =>
              \A o \in Tenants : <<joining[v].email, o>> \notin members
        /\ joining[v].at \in {"lookup", "done"} => joining[v].org # NoTenant
        /\ joining[v].at \in {"lookup", "done"} =>
              \A o \in Tenants : <<joining[v].email, o>> \in members <=> o = joining[v].org
        /\ joining[v].at = "done" => joining[v].active \in {NoTenant, joining[v].org}

\* An account is made once.
OneHolder ==
    /\ \A a, b \in Tenants : ScriptHolds(a) /\ ScriptHolds(b)
          /\ provisioning[a].email = provisioning[b].email => a = b
    /\ \A v, w \in SignUps : InviteHolds(v) /\ InviteHolds(w)
          /\ joining[v].email = joining[w].email => v = w
    /\ \A a \in Tenants, v \in SignUps :
          ScriptHolds(a) /\ InviteHolds(v) => provisioning[a].email # joining[v].email

\* Who answers for an account without an organization.
Unserved ==
    \A e \in users : (\A o \in Tenants : <<e, o>> \notin members) =>
        \/ \E a \in tenants : provisioning[a].email = e
              /\ provisioning[a].at \in {"organization", "member", "failed"}
        \/ \E v \in SignUps : joining[v].email = e
              /\ joining[v].at \in {"public", "signup", "signin", "accept", "failed"}

\* What a migration listed is done, has failed or is left.
MigrationInv ==
    /\ migration.left \subseteq organizations
    /\ migration.at # "idle" => migration.listed \subseteq migrated \cup migration.failed \cup migration.left
    /\ migration.at # "alter" => migration.left = {}

OnboardingInv ==
    OnboardingTypeOK /\ ScriptInv /\ InviteInv /\ OneHolder /\ Unserved /\ MigrationInv

LEMMA OnboardingConstants == NoTenant \notin Tenants /\ (CHOOSE e \in Emails : TRUE) \in Emails
  BY OnboardingAssumption

ScriptStages == {"insert", "schema", "bucket", "signup", "organization", "member", "verify",
                 "done", "failed"}
InviteStages == {"unsent", "page", "public", "signup", "signin", "accept", "lookup", "done", "failed"}

LEMMA OnboardingTyped ==
    ASSUME OnboardingTypeOK
    PROVE  /\ tenants \subseteq Tenants /\ organizations \subseteq tenants
           /\ members \subseteq users \X organizations
           /\ \A m \in members : m = <<m[1], m[2]>> /\ m[1] \in users /\ m[2] \in organizations
           /\ users \subseteq Emails
           /\ \A a \in Tenants : /\ provisioning[a].at \in ScriptStages
                                 /\ provisioning[a].email \in Emails /\ provisioning[a].slug \in Slugs
           /\ \A v \in SignUps : /\ joining[v].at \in InviteStages
                                     /\ joining[v].email \in Emails
                                     /\ joining[v].org \in Tenants \cup {NoTenant}
           /\ migration.left \subseteq Tenants /\ migration.at \in {"idle", "alter", "done"}
<1>1. /\ tenants \subseteq Tenants /\ organizations \subseteq tenants /\ users \subseteq Emails
      /\ members \subseteq users \X organizations
      /\ migration.left \subseteq Tenants /\ migration.at \in {"idle", "alter", "done"}
  BY DEF OnboardingTypeOK
<1>2. \A m \in members : m = <<m[1], m[2]>> /\ m[1] \in users /\ m[2] \in organizations
  BY <1>1
<1>3. \A a \in Tenants : /\ provisioning[a].at \in ScriptStages
                         /\ provisioning[a].email \in Emails /\ provisioning[a].slug \in Slugs
  BY DEF OnboardingTypeOK, ScriptStages
<1>4. \A v \in SignUps : /\ joining[v].at \in InviteStages
                             /\ joining[v].email \in Emails
                             /\ joining[v].org \in Tenants \cup {NoTenant}
  BY DEF OnboardingTypeOK, InviteStages
<1> QED
  BY <1>1, <1>2, <1>3, <1>4

\* A script, and an invitation, that goes on keeps its arguments.
LEMMA ScriptGoes ==
    ASSUME OnboardingTypeOK, NEW a \in Tenants, NEW stage \in ScriptStages, ProvisionGoes(a, stage)
    PROVE  /\ provisioning' \in [Tenants -> [slug : Slugs, email : Emails, at : ScriptStages]]
           /\ \A b \in Tenants : /\ provisioning'[b].slug = provisioning[b].slug
                                 /\ provisioning'[b].email = provisioning[b].email
                                 /\ provisioning'[b].at = IF b = a THEN stage ELSE provisioning[b].at
  BY DEF OnboardingTypeOK, ScriptStages, ProvisionGoes

LEMMA InviteGoes ==
    ASSUME OnboardingTypeOK, NEW v \in SignUps, NEW stage \in InviteStages, JoinGoes(v, stage)
    PROVE  /\ joining' \in [SignUps -> [org : Tenants \cup {NoTenant}, email : Emails,
                               active : Tenants \cup {NoTenant}, at : InviteStages]]
           /\ \A w \in SignUps : /\ joining'[w].org = joining[w].org
                                     /\ joining'[w].email = joining[w].email
                                     /\ joining'[w].active = joining[w].active
                                     /\ joining'[w].at = IF w = v THEN stage ELSE joining[w].at
  BY DEF OnboardingTypeOK, InviteStages, JoinGoes

LEMMA OnboardingStart == OnboardingInit => OnboardingInv
<1> SUFFICES ASSUME OnboardingInit PROVE OnboardingInv
  OBVIOUS
<1> USE DEF OnboardingInit
<1>1. \A a \in Tenants : provisioning[a].at = "insert"
  OBVIOUS
<1>2. \A v \in SignUps : joining[v].at = "unsent"
  OBVIOUS
<1>3. OnboardingTypeOK
  <2>1. provisioning \in [Tenants -> [slug : Slugs, email : Emails, at : ScriptStages]]
    BY DEF ScriptStages
  <2>2. joining \in [SignUps -> [org : Tenants \cup {NoTenant}, email : Emails,
                        active : Tenants \cup {NoTenant}, at : InviteStages]]
    <3> DEFINE first == CHOOSE e \in Emails : TRUE
    <3>1. first \in Emails
      BY OnboardingConstants
    <3> HIDE DEF first
    <3>2. joining = [v \in SignUps |->
                       [at |-> "unsent", org |-> NoTenant, email |-> first, active |-> NoTenant]]
      BY DEF first
    <3> QED
      BY <3>1, <3>2 DEF InviteStages
  <2> QED
    BY <2>1, <2>2 DEF OnboardingTypeOK, ScriptStages, InviteStages
<1>4. ScriptInv /\ InviteInv /\ OneHolder
  BY <1>1, <1>2 DEF ScriptInv, InviteInv, OneHolder, ScriptHolds, InviteHolds
<1>5. Unserved /\ MigrationInv
  BY DEF Unserved, MigrationInv
<1> QED
  BY <1>3, <1>4, <1>5 DEF OnboardingInv

-----------------------------------------------------------------------------
(* Onboarding: the script.                                                  *)

\* Every statement but the one that makes the account and the one that gives it
\* its organization.
LEMMA ScriptKeeps ==
    ASSUME OnboardingInv, NEW a \in Tenants,
           \/ InsertTenant(a) \/ CreateSchema(a) \/ EnsureBucket(a)
           \/ InsertOrganization(a) \/ VerifySignIn(a) \/ ProvisionFails(a)
    PROVE  OnboardingInv'
<1>1. PICK stage \in ScriptStages :
        /\ ProvisionGoes(a, stage)
        /\ \/ /\ stage = "failed" /\ provisioning[a].at \notin {"done", "failed"}
              /\ UNCHANGED <<tenants, schemas, buckets, organizations>>
           \/ /\ stage = "schema" /\ provisioning[a].at = "insert" /\ tenants' = tenants \cup {a}
              /\ UNCHANGED <<schemas, buckets, organizations>>
           \/ /\ stage = "bucket" /\ provisioning[a].at = "schema"
              /\ schemas' = schemas \cup {<<a, "hyphens">>}
              /\ UNCHANGED <<tenants, buckets, organizations>>
           \/ /\ stage = "signup" /\ provisioning[a].at = "bucket"
              /\ buckets' = buckets \cup {provisioning[a].slug}
              /\ UNCHANGED <<tenants, schemas, organizations>>
           \/ /\ stage = "member" /\ provisioning[a].at = "organization"
              /\ organizations' = organizations \cup {a}
              /\ UNCHANGED <<tenants, schemas, buckets>>
           \/ /\ stage = "done" /\ provisioning[a].at = "verify"
              /\ UNCHANGED <<tenants, schemas, buckets, organizations>>
  BY DEF InsertTenant, CreateSchema, EnsureBucket, InsertOrganization, VerifySignIn,
         ProvisionFails, ProvisionAt, ScriptStages, stores
<1>2. UNCHANGED <<users, members, joining, migrated, migration>>
  BY DEF InsertTenant, CreateSchema, EnsureBucket, InsertOrganization, VerifySignIn,
         ProvisionFails, stores, migrating
<1> HIDE DEF InsertTenant, CreateSchema, EnsureBucket, InsertOrganization, VerifySignIn, ProvisionFails
<1>3. /\ provisioning' \in [Tenants -> [slug : Slugs, email : Emails, at : ScriptStages]]
      /\ \A b \in Tenants : /\ provisioning'[b].slug = provisioning[b].slug
                            /\ provisioning'[b].email = provisioning[b].email
                            /\ provisioning'[b].at = IF b = a THEN stage ELSE provisioning[b].at
  BY <1>1, ScriptGoes DEF OnboardingInv
<1>4. /\ tenants \subseteq tenants' /\ schemas \subseteq schemas' /\ buckets \subseteq buckets'
      /\ organizations \subseteq organizations'
  BY <1>1
<1>5. \A b \in Tenants : ScriptHolds(b)' => ScriptHolds(b)
  BY <1>1, <1>3 DEF ScriptHolds
<1>6. \A v \in SignUps : InviteHolds(v)' <=> InviteHolds(v)
  BY <1>2 DEF InviteHolds
<1>7. OnboardingTypeOK'
  <2>1. tenants' \subseteq Tenants /\ buckets' \subseteq Slugs
    BY <1>1, OnboardingTyped DEF OnboardingInv, OnboardingTypeOK
  <2>2. schemas' \subseteq Tenants \X {"hyphens", "underscores"}
    BY <1>1 DEF OnboardingInv, OnboardingTypeOK
  <2>3. organizations' \subseteq tenants' /\ members \subseteq users \X organizations'
    <3>1. provisioning[a].at = "organization" => a \in tenants
      BY DEF OnboardingInv, ScriptInv
    <3>2. organizations \subseteq tenants /\ members \subseteq users \X organizations
      BY DEF OnboardingInv, OnboardingTypeOK
    <3> QED
      BY <1>1, <1>4, <3>1, <3>2
  <2>4. migrated \subseteq organizations'
    BY <1>4 DEF OnboardingInv, OnboardingTypeOK
  <2> QED
    BY <1>2, <1>3, <2>1, <2>2, <2>3, <2>4 DEF OnboardingInv, OnboardingTypeOK, ScriptStages
<1>8. ScriptInv'
  <2> SUFFICES ASSUME NEW b \in Tenants
               PROVE  /\ provisioning'[b].at \notin {"insert", "failed"} => b \in tenants'
                      /\ provisioning'[b].at \in {"bucket", "signup"} \/ ScriptHolds(b)' =>
                            <<b, "hyphens">> \in schemas'
                      /\ provisioning'[b].at = "signup" \/ ScriptHolds(b)' =>
                            provisioning'[b].slug \in buckets'
                      /\ provisioning'[b].at \in {"member", "verify", "done"} => b \in organizations'
                      /\ ScriptHolds(b)' => provisioning'[b].email \in users'
                      /\ provisioning'[b].at \in {"organization", "member"} =>
                            \A o \in Tenants : <<provisioning'[b].email, o>> \notin members'
                      /\ provisioning'[b].at \in {"verify", "done"} =>
                            \A o \in Tenants : <<provisioning'[b].email, o>> \in members' <=> o = b
    BY DEF ScriptInv
  <2>1. CASE b # a
    BY <1>2, <1>3, <1>4, <1>5, <2>1 DEF OnboardingInv, ScriptInv, ScriptHolds
  <2>2. CASE b = a
    BY <1>1, <1>2, <1>3, <1>4, <2>2 DEF OnboardingInv, ScriptInv, ScriptHolds
  <2> QED
    BY <2>1, <2>2
<1>9. InviteInv'
  BY <1>2, <1>4, <1>6 DEF OnboardingInv, InviteInv
<1>10. OneHolder'
  BY <1>2, <1>3, <1>5, <1>6 DEF OnboardingInv, OneHolder
<1>11. Unserved'
  <2>1. \A b \in tenants : b \in Tenants
    BY OnboardingTyped DEF OnboardingInv
  <2>2. \A b \in tenants : provisioning[b].at \in {"organization", "member", "failed"} =>
            provisioning'[b].at \in {"organization", "member", "failed"}
    BY <1>1, <1>3, <2>1
  <2> QED
    BY <1>2, <1>3, <1>4, <2>1, <2>2 DEF OnboardingInv, Unserved
<1>12. MigrationInv'
  BY <1>2, <1>4 DEF OnboardingInv, MigrationInv
<1> QED
  BY <1>7, <1>8, <1>9, <1>10, <1>11, <1>12 DEF OnboardingInv

\* An account is new when it is made: nobody has it, and it belongs to nothing.
LEMMA SignUpAdminKeeps ==
    ASSUME OnboardingInv, NEW a \in Tenants, SignUpAdmin(a) PROVE OnboardingInv'
<1>1. /\ ProvisionGoes(a, "organization") /\ provisioning[a].at = "signup"
      /\ provisioning[a].email \notin users /\ users' = users \cup {provisioning[a].email}
      /\ UNCHANGED <<tenants, schemas, buckets, organizations, members, joining, migrated, migration>>
  BY DEF SignUpAdmin, ProvisionAt, migrating
<1>2. /\ provisioning' \in [Tenants -> [slug : Slugs, email : Emails, at : ScriptStages]]
      /\ \A b \in Tenants : /\ provisioning'[b].slug = provisioning[b].slug
                            /\ provisioning'[b].email = provisioning[b].email
                            /\ provisioning'[b].at = IF b = a THEN "organization" ELSE provisioning[b].at
  <2>1. "organization" \in ScriptStages
    BY DEF ScriptStages
  <2> QED
    BY <1>1, <2>1, ScriptGoes DEF OnboardingInv
<1>3. \A o \in Tenants : <<provisioning[a].email, o>> \notin members
  BY <1>1, OnboardingTyped DEF OnboardingInv
<1>4. OnboardingTypeOK'
  <2>1. users' \subseteq Emails /\ members \subseteq users' \X organizations
    BY <1>1, OnboardingTyped DEF OnboardingInv
  <2> QED
    BY <1>1, <1>2, <2>1 DEF OnboardingInv, OnboardingTypeOK, ScriptStages
<1>5. ScriptInv'
  BY <1>1, <1>2, <1>3 DEF OnboardingInv, ScriptInv, ScriptHolds
<1>6. InviteInv'
  BY <1>1 DEF OnboardingInv, InviteInv, InviteHolds
<1>7. OneHolder'
  <2>1. \A b \in Tenants : ScriptHolds(b)' => b = a \/ (ScriptHolds(b) /\ provisioning[b].email \in users)
    BY <1>2 DEF OnboardingInv, ScriptInv, ScriptHolds
  <2>2. \A v \in SignUps : InviteHolds(v)' => InviteHolds(v) /\ joining'[v].email \in users
    BY <1>1 DEF OnboardingInv, InviteInv, InviteHolds
  <2> QED
    BY <1>1, <1>2, <2>1, <2>2 DEF OnboardingInv, OneHolder
<1>8. Unserved'
  <2>1. a \in tenants /\ tenants \subseteq Tenants
    BY <1>1, OnboardingTyped DEF OnboardingInv, ScriptInv
  <2>2. \A b \in tenants : provisioning[b].at \in {"organization", "member", "failed"} =>
            provisioning'[b].at \in {"organization", "member", "failed"}
    BY <1>2, <2>1
  <2> QED
    BY <1>1, <1>2, <2>1, <2>2 DEF OnboardingInv, Unserved
<1>9. MigrationInv'
  BY <1>1 DEF OnboardingInv, MigrationInv
<1> QED
  BY <1>4, <1>5, <1>6, <1>7, <1>8, <1>9 DEF OnboardingInv

\* Only the script that made the account gives it the organization.
LEMMA InsertOwnerKeeps ==
    ASSUME OnboardingInv, NEW a \in Tenants, InsertOwner(a) PROVE OnboardingInv'
<1>1. /\ ProvisionGoes(a, "verify") /\ provisioning[a].at = "member"
      /\ members' = members \cup {<<provisioning[a].email, a>>}
      /\ UNCHANGED <<tenants, schemas, buckets, users, organizations, joining, migrated, migration>>
  BY DEF InsertOwner, ProvisionAt, migrating
<1>2. /\ provisioning' \in [Tenants -> [slug : Slugs, email : Emails, at : ScriptStages]]
      /\ \A b \in Tenants : /\ provisioning'[b].slug = provisioning[b].slug
                            /\ provisioning'[b].email = provisioning[b].email
                            /\ provisioning'[b].at = IF b = a THEN "verify" ELSE provisioning[b].at
  <2>1. "verify" \in ScriptStages
    BY DEF ScriptStages
  <2> QED
    BY <1>1, <2>1, ScriptGoes DEF OnboardingInv
<1>3. /\ ScriptHolds(a) /\ provisioning[a].email \in users /\ a \in organizations
      /\ \A o \in Tenants : <<provisioning[a].email, o>> \notin members
  BY <1>1 DEF OnboardingInv, ScriptInv, ScriptHolds
<1>4. \A b \in Tenants : ScriptHolds(b)' <=> ScriptHolds(b)
  BY <1>1, <1>2 DEF ScriptHolds
<1>5. /\ \A b \in Tenants : b # a /\ ScriptHolds(b) => provisioning[b].email # provisioning[a].email
      /\ \A v \in SignUps : InviteHolds(v) => joining[v].email # provisioning[a].email
  BY <1>3 DEF OnboardingInv, OneHolder
<1>6. OnboardingTypeOK'
  BY <1>1, <1>2, <1>3 DEF OnboardingInv, OnboardingTypeOK, ScriptStages
<1>7. ScriptInv'
  <2> SUFFICES ASSUME NEW b \in Tenants
               PROVE  /\ provisioning'[b].at \notin {"insert", "failed"} => b \in tenants'
                      /\ provisioning'[b].at \in {"bucket", "signup"} \/ ScriptHolds(b)' =>
                            <<b, "hyphens">> \in schemas'
                      /\ provisioning'[b].at = "signup" \/ ScriptHolds(b)' =>
                            provisioning'[b].slug \in buckets'
                      /\ provisioning'[b].at \in {"member", "verify", "done"} => b \in organizations'
                      /\ ScriptHolds(b)' => provisioning'[b].email \in users'
                      /\ provisioning'[b].at \in {"organization", "member"} =>
                            \A o \in Tenants : <<provisioning'[b].email, o>> \notin members'
                      /\ provisioning'[b].at \in {"verify", "done"} =>
                            \A o \in Tenants : <<provisioning'[b].email, o>> \in members' <=> o = b
    BY DEF ScriptInv
  <2>1. CASE b # a
    BY <1>1, <1>2, <1>4, <1>5, <2>1 DEF OnboardingInv, ScriptInv, ScriptHolds
  <2>2. CASE b = a
    BY <1>1, <1>2, <1>3, <2>2 DEF OnboardingInv, ScriptInv, ScriptHolds
  <2> QED
    BY <2>1, <2>2
<1>8. InviteInv'
  BY <1>1, <1>5 DEF OnboardingInv, InviteInv, InviteHolds
<1>9. OneHolder'
  BY <1>1, <1>2, <1>4 DEF OnboardingInv, OneHolder, InviteHolds
<1>10. Unserved'
  <2>1. tenants \subseteq Tenants
    BY OnboardingTyped DEF OnboardingInv
  <2>2. ASSUME NEW e \in users, \A o \in Tenants : <<e, o>> \notin members'
        PROVE  e # provisioning[a].email /\ \A o \in Tenants : <<e, o>> \notin members
    BY <1>1, <2>2
  <2> QED
    BY <1>1, <1>2, <2>1, <2>2 DEF OnboardingInv, Unserved
<1>11. MigrationInv'
  BY <1>1 DEF OnboardingInv, MigrationInv
<1> QED
  BY <1>6, <1>7, <1>8, <1>9, <1>10, <1>11 DEF OnboardingInv

-----------------------------------------------------------------------------
(* Onboarding: invitations.                                                 *)

\* Every step but the one that makes the account and the one that accepts.
LEMMA InviteKeeps ==
    ASSUME OnboardingInv, NEW v \in SignUps,
           \/ Invite(v) \/ SubmitInvite(v) \/ SubmitUninvited(v) \/ SignInInvitee(v)
           \/ SetActive(v) \/ JoinFails(v)
    PROVE  OnboardingInv'
<1> DEFINE new == joining'[v]
           old == joining[v]
<1>1. UNCHANGED <<stores, provisioning, migrated, migration>>
  BY DEF Invite, SubmitInvite, SubmitUninvited, SignInInvitee, SetActive, JoinFails, migrating
<1>2. /\ joining' \in [SignUps -> [org : Tenants \cup {NoTenant}, email : Emails,
                          active : Tenants \cup {NoTenant}, at : InviteStages]]
      /\ \A w \in SignUps : w # v => joining'[w] = joining[w]
      /\ \/ new.at = "page" /\ old.at = "unsent" /\ new.org \in organizations
         \/ new.at = "signup" /\ old.at = "unsent" /\ new.org = old.org
         \/ /\ new.org = old.org /\ new.email = old.email
            /\ \/ new.at = "signup" /\ old.at \in {"page", "failed"}
               \/ new.at = "accept" /\ old.at = "signin"
               \/ new.at = "done" /\ old.at = "lookup" /\ new.active \in {NoTenant, new.org}
               \/ new.at = "failed" /\ old.at \in {"signup", "signin", "accept", "lookup"}
  <2> DEFINE Invited == [org : Tenants \cup {NoTenant}, email : Emails,
                         active : Tenants \cup {NoTenant}, at : InviteStages]
  <2> USE DEF InviteStages
  <2>0. joining \in [SignUps -> Invited] /\ old \in Invited
    BY DEF OnboardingInv, OnboardingTypeOK
  <2>1. CASE Invite(v)
    <3>1. PICK m \in members, e \in Emails :
            joining' = [joining EXCEPT ![v] = [@ EXCEPT !.at = "page", !.org = m[2], !.email = e]]
      BY <2>1 DEF Invite
    <3>2. m[2] \in organizations /\ m[2] \in Tenants /\ old.at = "unsent"
      BY <2>1, OnboardingTyped DEF OnboardingInv, Invite, JoinAt
    <3>3. new = [old EXCEPT !.at = "page", !.org = m[2], !.email = e]
      BY <2>0, <3>1
    <3>4. new \in Invited /\ new.at = "page" /\ new.org = m[2]
      BY <2>0, <3>2, <3>3
    <3>5. joining' = [joining EXCEPT ![v] = new]
      BY <3>1, <3>3
    <3> HIDE DEF new
    <3>6. joining' \in [SignUps -> Invited] /\ \A w \in SignUps : w # v => joining'[w] = joining[w]
      BY <2>0, <3>4, <3>5
    <3> QED
      BY <3>2, <3>4, <3>6
  <2>2. CASE SubmitInvite(v) \/ SignInInvitee(v) \/ JoinFails(v)
    <3>1. PICK stage \in InviteStages :
            /\ JoinGoes(v, stage)
            /\ \/ stage = "signup" /\ old.at \in {"page", "failed"}
               \/ stage = "accept" /\ old.at = "signin"
               \/ stage = "failed" /\ old.at \in {"signup", "signin", "accept", "lookup"}
      BY <2>2 DEF SubmitInvite, SignInInvitee, JoinFails, JoinAt
    <3>2. \A w \in SignUps : w # v => joining'[w] = joining[w]
      BY <3>1 DEF JoinGoes, OnboardingInv, OnboardingTypeOK
    <3> QED
      BY <3>1, <3>2, InviteGoes DEF OnboardingInv
  <2>3. CASE SetActive(v)
    <3>1. PICK found \in {NoTenant, joining[v].org} :
            joining' = [joining EXCEPT ![v].at = "done", ![v].active = found]
      BY <2>3 DEF SetActive
    <3>2. old.at = "lookup" /\ found \in Tenants \cup {NoTenant}
      BY <2>0, <2>3, <3>1 DEF SetActive, JoinAt
    <3>3. new = [old EXCEPT !.at = "done", !.active = found]
      BY <2>0, <3>1
    <3>4. /\ new \in Invited /\ new.at = "done" /\ new.active = found
          /\ new.org = old.org /\ new.email = old.email
      BY <2>0, <3>2, <3>3
    <3>5. joining' = [joining EXCEPT ![v] = new]
      BY <2>0, <3>1, <3>3
    <3> HIDE DEF new
    <3>6. joining' \in [SignUps -> Invited] /\ \A w \in SignUps : w # v => joining'[w] = joining[w]
      BY <2>0, <3>4, <3>5
    <3> QED
      BY <3>1, <3>2, <3>4, <3>6
  <2>4. CASE SubmitUninvited(v)
    <3>1. PICK e \in Emails : joining' = [joining EXCEPT ![v].at = "signup", ![v].email = e]
      BY <2>4 DEF SubmitUninvited
    <3>2. old.at = "unsent"
      BY <2>4 DEF SubmitUninvited, JoinAt
    <3>3. new = [old EXCEPT !.at = "signup", !.email = e]
      BY <2>0, <3>1
    <3>4. new \in Invited /\ new.at = "signup" /\ new.org = old.org
      BY <2>0, <3>3
    <3>5. joining' = [joining EXCEPT ![v] = new]
      BY <2>0, <3>1, <3>3
    <3> HIDE DEF new
    <3>6. joining' \in [SignUps -> Invited] /\ \A w \in SignUps : w # v => joining'[w] = joining[w]
      BY <2>0, <3>4, <3>5
    <3> QED
      BY <3>2, <3>4, <3>6
  <2> QED
    BY <2>1, <2>2, <2>3, <2>4
<1>3. \A w \in SignUps : InviteHolds(w)' => InviteHolds(w) /\ joining'[w].email = joining[w].email
  BY <1>2 DEF InviteHolds
<1>4. OnboardingTypeOK'
  BY <1>1, <1>2 DEF OnboardingInv, OnboardingTypeOK, InviteStages, stores
<1>5. ScriptInv' /\ MigrationInv'
  BY <1>1 DEF OnboardingInv, ScriptInv, ScriptHolds, MigrationInv, stores
<1>6. InviteInv'
  <2> SUFFICES ASSUME NEW w \in SignUps
               PROVE  /\ joining'[w].org \in organizations' \cup {NoTenant}
                      /\ InviteHolds(w)' => joining'[w].email \in users'
                      /\ joining'[w].at \in {"public", "signin", "accept"} =>
                            \A o \in Tenants : <<joining'[w].email, o>> \notin members'
                      /\ joining'[w].at \in {"lookup", "done"} => joining'[w].org # NoTenant
                      /\ joining'[w].at \in {"lookup", "done"} =>
                            \A o \in Tenants : <<joining'[w].email, o>> \in members' <=> o = joining'[w].org
                      /\ joining'[w].at = "done" => joining'[w].active \in {NoTenant, joining'[w].org}
    BY DEF InviteInv
  <2>1. CASE w # v
    BY <1>1, <1>2, <1>3, <2>1 DEF OnboardingInv, InviteInv, stores
  <2>2. CASE w = v
    BY <1>1, <1>2, <1>3, <2>2 DEF OnboardingInv, InviteInv, stores
  <2> QED
    BY <2>1, <2>2
<1>7. OneHolder'
  BY <1>1, <1>3 DEF OnboardingInv, OneHolder, ScriptHolds
<1>8. Unserved'
  <2>1. \A w \in SignUps : joining[w].at \in {"public", "signup", "signin", "accept", "failed"} =>
            /\ joining'[w].at \in {"public", "signup", "signin", "accept", "failed"}
            /\ joining'[w].email = joining[w].email
    BY <1>2
  <2> QED
    BY <1>1, <2>1 DEF OnboardingInv, Unserved, stores
<1> QED
  BY <1>4, <1>5, <1>6, <1>7, <1>8 DEF OnboardingInv

\* An account is made by the route or publicly, of an email that had none.
LEMMA SignUpKeeps ==
    ASSUME OnboardingInv, NEW v \in SignUps, SignUpInvitee(v) \/ SignUpPublicly(v)
    PROVE  OnboardingInv'
<1> DEFINE Invited == [org : Tenants \cup {NoTenant}, email : Emails,
                       active : Tenants \cup {NoTenant}, at : InviteStages]
<1>0. joining \in [SignUps -> Invited]
  BY DEF OnboardingInv, OnboardingTypeOK, InviteStages
<1>1. PICK e \in Emails, stage \in {"public", "signin"} :
        /\ joining' = [joining EXCEPT ![v].at = stage, ![v].email = e]
        /\ \/ stage = "public" /\ joining[v].at = "unsent"
           \/ stage = "signin" /\ joining[v].at = "signup" /\ joining[v].email = e
        /\ e \notin users /\ users' = users \cup {e}
        /\ UNCHANGED <<tenants, schemas, buckets, organizations, members, provisioning, migrated, migration>>
  <2>1. CASE SignUpInvitee(v)
    <3>1. joining' = [joining EXCEPT ![v].at = "signin", ![v].email = joining[v].email]
      BY <1>0, <2>1 DEF SignUpInvitee, JoinGoes
    <3>2. joining[v].email \in Emails
      BY <1>0
    <3> QED
      BY <2>1, <3>1, <3>2 DEF SignUpInvitee, JoinAt, migrating
  <2>2. CASE SignUpPublicly(v)
    BY <2>2 DEF SignUpPublicly, JoinAt, migrating
  <2> QED
    BY <2>1, <2>2
<1>2. /\ joining' \in [SignUps -> Invited]
      /\ joining'[v].email = e /\ joining'[v].at = stage /\ joining'[v].org = joining[v].org
      /\ \A w \in SignUps : w # v => joining'[w] = joining[w]
  BY <1>0, <1>1 DEF InviteStages
<1>3. \A o \in Tenants : <<e, o>> \notin members
  BY <1>1, OnboardingTyped DEF OnboardingInv
<1>4. OnboardingTypeOK'
  <2>1. users' \subseteq Emails /\ members \subseteq users' \X organizations
    BY <1>1, OnboardingTyped DEF OnboardingInv
  <2> QED
    BY <1>1, <1>2, <2>1 DEF OnboardingInv, OnboardingTypeOK, InviteStages
<1>5. ScriptInv'
  BY <1>1 DEF OnboardingInv, ScriptInv, ScriptHolds
<1>6. InviteInv'
  BY <1>1, <1>2, <1>3 DEF OnboardingInv, InviteInv, InviteHolds
<1>7. OneHolder'
  <2>1. \A w \in SignUps : InviteHolds(w)' => w = v \/ (InviteHolds(w) /\ joining[w].email \in users)
    BY <1>2 DEF OnboardingInv, InviteInv, InviteHolds
  <2>2. \A a \in Tenants : ScriptHolds(a)' => ScriptHolds(a) /\ provisioning'[a].email \in users
    BY <1>1 DEF OnboardingInv, ScriptInv, ScriptHolds
  <2> QED
    BY <1>1, <1>2, <2>1, <2>2 DEF OnboardingInv, OneHolder
<1>8. Unserved'
  <2>1. \A w \in SignUps :
          /\ joining[w].at \in {"public", "signup", "signin", "accept", "failed"}
          /\ joining[w].email \in users
          => joining'[w] = joining[w]
    BY <1>1, <1>2
  <2> QED
    BY <1>1, <1>2, <2>1 DEF OnboardingInv, Unserved
<1>9. MigrationInv'
  BY <1>1 DEF OnboardingInv, MigrationInv
<1> QED
  BY <1>4, <1>5, <1>6, <1>7, <1>8, <1>9 DEF OnboardingInv

LEMMA AcceptKeeps ==
    ASSUME OnboardingInv, NEW v \in SignUps, AcceptInvitation(v) PROVE OnboardingInv'
<1>1. /\ JoinGoes(v, "lookup") /\ joining[v].at = "accept" /\ joining[v].org # NoTenant
      /\ members' = members \cup {<<joining[v].email, joining[v].org>>}
      /\ UNCHANGED <<tenants, schemas, buckets, users, organizations, provisioning, migrated, migration>>
  BY DEF AcceptInvitation, JoinAt, migrating
<1>2. /\ joining' \in [SignUps -> [org : Tenants \cup {NoTenant}, email : Emails,
                          active : Tenants \cup {NoTenant}, at : InviteStages]]
      /\ \A w \in SignUps : /\ joining'[w].org = joining[w].org
                                /\ joining'[w].email = joining[w].email
                                /\ joining'[w].active = joining[w].active
                                /\ joining'[w].at = IF w = v THEN "lookup" ELSE joining[w].at
  <2>1. "lookup" \in InviteStages
    BY DEF InviteStages
  <2> QED
    BY <1>1, <2>1, InviteGoes DEF OnboardingInv
<1>3. /\ InviteHolds(v) /\ joining[v].email \in users /\ joining[v].org \in organizations
      /\ \A o \in Tenants : <<joining[v].email, o>> \notin members
  BY <1>1 DEF OnboardingInv, InviteInv, InviteHolds
<1>4. joining[v].org \in Tenants
  BY <1>3, OnboardingTyped DEF OnboardingInv
<1>5. \A w \in SignUps : InviteHolds(w)' <=> InviteHolds(w)
  BY <1>1, <1>2 DEF InviteHolds
<1>6. /\ \A w \in SignUps : w # v /\ InviteHolds(w) => joining[w].email # joining[v].email
      /\ \A a \in Tenants : ScriptHolds(a) => provisioning[a].email # joining[v].email
  BY <1>3 DEF OnboardingInv, OneHolder
<1>7. OnboardingTypeOK'
  BY <1>1, <1>2, <1>3 DEF OnboardingInv, OnboardingTypeOK, InviteStages
<1>8. ScriptInv'
  BY <1>1, <1>6 DEF OnboardingInv, ScriptInv, ScriptHolds
<1>9. InviteInv'
  <2> SUFFICES ASSUME NEW w \in SignUps
               PROVE  /\ joining'[w].org \in organizations' \cup {NoTenant}
                      /\ InviteHolds(w)' => joining'[w].email \in users'
                      /\ joining'[w].at \in {"public", "signin", "accept"} =>
                            \A o \in Tenants : <<joining'[w].email, o>> \notin members'
                      /\ joining'[w].at \in {"lookup", "done"} => joining'[w].org # NoTenant
                      /\ joining'[w].at \in {"lookup", "done"} =>
                            \A o \in Tenants : <<joining'[w].email, o>> \in members' <=> o = joining'[w].org
                      /\ joining'[w].at = "done" => joining'[w].active \in {NoTenant, joining'[w].org}
    BY DEF InviteInv
  <2>1. CASE w # v
    BY <1>1, <1>2, <1>5, <1>6, <2>1 DEF OnboardingInv, InviteInv, InviteHolds
  <2>2. CASE w = v
    BY <1>1, <1>2, <1>3, <1>4, <2>2 DEF InviteHolds
  <2> QED
    BY <2>1, <2>2
<1>10. OneHolder'
  BY <1>1, <1>2, <1>5 DEF OnboardingInv, OneHolder, ScriptHolds
<1>11. Unserved'
  <2>1. ASSUME NEW e \in users, \A o \in Tenants : <<e, o>> \notin members'
        PROVE  e # joining[v].email /\ \A o \in Tenants : <<e, o>> \notin members
    BY <1>1, <1>4, <2>1
  <2> QED
    BY <1>1, <1>2, <2>1 DEF OnboardingInv, Unserved
<1>12. MigrationInv'
  BY <1>1 DEF OnboardingInv, MigrationInv
<1> QED
  BY <1>7, <1>8, <1>9, <1>10, <1>11, <1>12 DEF OnboardingInv

-----------------------------------------------------------------------------
(* Onboarding: the migrations, and all of it.                               *)

LEMMA SchemasKeep ==
    ASSUME OnboardingInv, MigrateAll \/ \E a \in Tenants : CreateTables(a)
    PROVE  OnboardingInv'
<1>1. UNCHANGED <<tenants, buckets, users, organizations, members, provisioning, joining, migrated, migration>>
  BY DEF MigrateAll, CreateTables, migrating
<1>2. schemas \subseteq schemas' /\ schemas' \subseteq Tenants \X {"hyphens", "underscores"}
  <2>1. CASE MigrateAll
    <3>1. PICK done \in SUBSET tenants : schemas' = schemas \cup (done \X {"hyphens"})
      BY <2>1 DEF MigrateAll
    <3>2. done \subseteq Tenants
      BY OnboardingTyped DEF OnboardingInv
    <3> QED
      BY <3>1, <3>2 DEF OnboardingInv, OnboardingTypeOK
  <2>2. CASE \E a \in Tenants : CreateTables(a)
    BY <2>2 DEF CreateTables, OnboardingInv, OnboardingTypeOK
  <2> QED
    BY <2>1, <2>2
<1>3. OnboardingTypeOK'
  BY <1>1, <1>2 DEF OnboardingInv, OnboardingTypeOK
<1>4. ScriptInv'
  BY <1>1, <1>2 DEF OnboardingInv, ScriptInv, ScriptHolds
<1>5. InviteInv' /\ OneHolder' /\ Unserved' /\ MigrationInv'
  BY <1>1 DEF OnboardingInv, InviteInv, OneHolder, Unserved, MigrationInv, ScriptHolds, InviteHolds
<1> QED
  BY <1>3, <1>4, <1>5 DEF OnboardingInv

\* Each tenant of the list leaves it migrated or failed.
LEMMA MigrationKeeps ==
    ASSUME OnboardingInv,
           ListOrganizations \/ MigrationEnds \/ \E a \in Tenants : AlterTenant(a) \/ AlterFails(a)
    PROVE  OnboardingInv'
<1>1. UNCHANGED <<stores, provisioning, joining>>
  BY DEF ListOrganizations, MigrationEnds, AlterTenant, AlterFails
<1>2. /\ migrated' \subseteq organizations
      /\ migration' \in [at : {"idle", "alter", "done"}, left : SUBSET Tenants,
                         listed : SUBSET Tenants, failed : SUBSET Tenants]
      /\ migration'.left \subseteq organizations
      /\ migration'.at # "idle" => migration'.listed \subseteq migrated' \cup migration'.failed \cup migration'.left
      /\ migration'.at # "alter" => migration'.left = {}
  <2>1. organizations \subseteq Tenants
    BY OnboardingTyped DEF OnboardingInv
  <2>2. /\ migrated \subseteq organizations
        /\ migration \in [at : {"idle", "alter", "done"}, left : SUBSET Tenants,
                          listed : SUBSET Tenants, failed : SUBSET Tenants]
        /\ migration.left \subseteq organizations
        /\ migration.at # "idle" => migration.listed \subseteq migrated \cup migration.failed \cup migration.left
    BY DEF OnboardingInv, OnboardingTypeOK, MigrationInv
  <2>3. CASE ListOrganizations
    <3>1. /\ migration' = [at |-> "alter", left |-> organizations, failed |-> {},
                           listed |-> {a \in organizations : <<a, "underscores">> \in schemas}]
          /\ migrated' = migrated
      BY <2>3 DEF ListOrganizations
    <3> QED
      BY <2>1, <2>2, <3>1
  <2>4. CASE MigrationEnds
    <3>1. /\ migration.at = "alter" /\ migration.left = {} /\ migrated' = migrated
          /\ migration' = [migration EXCEPT !.at = "done"]
      BY <2>4 DEF MigrationEnds
    <3> QED
      BY <2>2, <3>1
  <2>5. ASSUME NEW a \in Tenants, AlterTenant(a) \/ AlterFails(a)
        PROVE  /\ migrated' \subseteq organizations
               /\ migration' \in [at : {"idle", "alter", "done"}, left : SUBSET Tenants,
                                  listed : SUBSET Tenants, failed : SUBSET Tenants]
               /\ migration'.left \subseteq organizations
               /\ migration'.at = "alter"
               /\ migration'.listed \subseteq migrated' \cup migration'.failed \cup migration'.left
    <3>1. /\ migration.at = "alter" /\ a \in migration.left
          /\ \/ migrated' = migrated \cup {a} /\ migration' = [migration EXCEPT !.left = @ \ {a}]
             \/ /\ migrated' = migrated
                /\ migration' = [migration EXCEPT !.left = @ \ {a}, !.failed = @ \cup {a}]
      BY <2>5 DEF AlterTenant, AlterFails
    <3>2. a \in organizations /\ a \in Tenants
      BY <2>2, <2>5, <3>1
    <3>3. CASE migrated' = migrated \cup {a} /\ migration' = [migration EXCEPT !.left = @ \ {a}]
      BY <2>2, <3>1, <3>2, <3>3
    <3>4. CASE migrated' = migrated /\ migration' = [migration EXCEPT !.left = @ \ {a}, !.failed = @ \cup {a}]
      BY <2>2, <3>1, <3>2, <3>4
    <3> QED
      BY <3>1, <3>3, <3>4
  <2> QED
    BY <2>3, <2>4, <2>5
<1>3. OnboardingTypeOK' /\ MigrationInv'
  BY <1>1, <1>2 DEF OnboardingInv, OnboardingTypeOK, MigrationInv, stores
<1>4. ScriptInv' /\ InviteInv'
  BY <1>1 DEF OnboardingInv, ScriptInv, InviteInv, ScriptHolds, InviteHolds, stores
<1>5. OneHolder' /\ Unserved'
  BY <1>1 DEF OnboardingInv, OneHolder, Unserved, ScriptHolds, InviteHolds, stores
<1> QED
  BY <1>3, <1>4, <1>5 DEF OnboardingInv

LEMMA OnboardingInvariant == OnboardingSpec => []OnboardingInv
<1>1. OnboardingInit => OnboardingInv
  BY OnboardingStart
<1>2. OnboardingInv /\ [OnboardingNext]_onboardingVars => OnboardingInv'
  <2> SUFFICES ASSUME OnboardingInv, [OnboardingNext]_onboardingVars PROVE OnboardingInv'
    OBVIOUS
  <2>1. ASSUME NEW a \in Tenants,
               \/ InsertTenant(a) \/ CreateSchema(a) \/ EnsureBucket(a) \/ SignUpAdmin(a)
               \/ InsertOrganization(a) \/ InsertOwner(a) \/ VerifySignIn(a) \/ ProvisionFails(a)
               \/ CreateTables(a) \/ AlterTenant(a) \/ AlterFails(a)
        PROVE  OnboardingInv'
    BY <2>1, ScriptKeeps, SignUpAdminKeeps, InsertOwnerKeeps, SchemasKeep, MigrationKeeps
  <2>2. ASSUME NEW v \in SignUps,
               \/ Invite(v) \/ SubmitInvite(v) \/ SubmitUninvited(v) \/ SignUpPublicly(v)
               \/ SignUpInvitee(v) \/ SignInInvitee(v)
               \/ AcceptInvitation(v) \/ SetActive(v) \/ JoinFails(v)
        PROVE  OnboardingInv'
    BY <2>2, InviteKeeps, SignUpKeeps, AcceptKeeps
  <2>3. CASE MigrateAll \/ ListOrganizations \/ MigrationEnds
    BY <2>3, SchemasKeep, MigrationKeeps
  <2>4. CASE UNCHANGED onboardingVars
    <3>1. UNCHANGED <<tenants, schemas, buckets, users, organizations, members, provisioning,
                      joining, migrated, migration>>
      BY <2>4 DEF onboardingVars, stores, migrating
    <3> QED
      BY <3>1 DEF OnboardingInv, OnboardingTypeOK, ScriptInv, InviteInv, OneHolder, Unserved,
                  MigrationInv, ScriptHolds, InviteHolds
  <2> QED
    BY <2>1, <2>2, <2>3, <2>4 DEF OnboardingNext
<1> QED
  BY <1>1, <1>2, PTL DEF OnboardingSpec

\* Type correctness: an organization is a tenant's, a member has an account.
THEOREM OnboardingTypeCorrect == OnboardingSpec => []OnboardingTypeOK
<1>1. OnboardingInv => OnboardingTypeOK
  BY DEF OnboardingInv
<1> QED
  BY <1>1, OnboardingInvariant, PTL

\* Of any scripts, invitations and other sign-ups that fail, repeat and overlap:
\* who was told he is in is served that organization and no other, and an account
\* that is served none came by the public sign-up, or is answered for by a script
\* or a call that failed or is not done.
THEOREM EveryNewUserIsServed == OnboardingSpec => []NewUsersAreServed
<1>1. OnboardingInv => NewUsersAreServed
  <2> SUFFICES ASSUME OnboardingInv PROVE NewUsersAreServed
    OBVIOUS
  <2>1. ASSUME NEW v \in SignUps, joining[v].at = "done"
        PROVE  tenantsServed(joining[v].email, joining[v].active) = {joining[v].org}
    <3>1. joining[v].org \in Tenants /\ joining[v].active \in {NoTenant, joining[v].org}
      BY <2>1, OnboardingTyped DEF OnboardingInv, InviteInv
    <3>2. \A o \in Tenants : <<joining[v].email, o>> \in members <=> o = joining[v].org
      BY <2>1 DEF OnboardingInv, InviteInv
    <3> QED
      BY <3>1, <3>2, OnboardingConstants DEF tenantsServed
  <2>2. ASSUME NEW a \in Tenants, provisioning[a].at = "done"
        PROVE  tenantsServed(provisioning[a].email, NoTenant) = {a}
    <3>1. \A o \in Tenants : <<provisioning[a].email, o>> \in members <=> o = a
      BY <2>2 DEF OnboardingInv, ScriptInv
    <3> QED
      BY <3>1 DEF tenantsServed
  <2>3. ASSUME NEW e \in users, tenantsServed(e, NoTenant) = {}
        PROVE  \A o \in Tenants : <<e, o>> \notin members
    BY <2>3 DEF tenantsServed
  <2>4. Unserved
    BY DEF OnboardingInv
  <2> QED
    BY <2>1, <2>2, <2>3, <2>4 DEF NewUsersAreServed, Unserved, JoinAt, ProvisionAt
<1> QED
  BY <1>1, OnboardingInvariant, PTL

\* The migration scripts: one tenant's failure keeps no other from its columns.
THEOREM MigrationsReachGoodTenants == OnboardingSpec => []GoodTenantsAreMigrated
<1>1. OnboardingInv => GoodTenantsAreMigrated
  BY DEF OnboardingInv, MigrationInv, GoodTenantsAreMigrated
<1> QED
  BY <1>1, OnboardingInvariant, PTL

=============================================================================
