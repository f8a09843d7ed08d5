--------------------------- MODULE ConsoleProofs ----------------------------
(***************************************************************************)
(* What TLAPS checks of the console: the views of a run, sharing, the      *)
(* history pages and the operators' panels, each from an inductive         *)
(* invariant of its own, and that each part of MCConsole behaves as the    *)
(* part does by itself, so that the theorems about the parts are theorems  *)
(* about the console.                                                      *)
(***************************************************************************)
EXTENDS MCConsole, GovernanceProofs, AccountProofs, FiniteSetTheorems, WellFoundedInduction, TLAPS

-----------------------------------------------------------------------------
(* Least and greatest members of sets of numbers.                           *)

LEMMA HasLeast ==
    ASSUME NEW S, S \subseteq Nat, S # {}
    PROVE  \E m \in S : \A s \in S : m <= s
<1>1. PICK m \in S : \A s \in S : <<s, m>> \notin OpToRel(<, Nat)
  BY NatLessThanWellFounded, WFMin, Zenon
<1>2. \A s \in S : ~(s < m)
  BY <1>1 DEF OpToRel
<1> QED
  BY <1>2

LEMMA HasGreatest ==
    ASSUME NEW n \in Nat, NEW S, S \subseteq 0..n, S # {}
    PROVE  \E m \in S : \A s \in S : s <= m
<1> DEFINE T == {k \in Nat : n - k \in S}
<1>1. \A s \in S : n - s \in Nat /\ n - (n - s) = s
  OBVIOUS
<1>2. T \subseteq Nat /\ T # {}
  BY <1>1
<1> HIDE DEF T
<1>3. PICK k \in T : \A j \in T : k <= j
  BY <1>2, HasLeast
<1>4. n - k \in S
  BY <1>3 DEF T
<1>5. ASSUME NEW s \in S PROVE s <= n - k
  <2>1. n - s \in T
    BY <1>1 DEF T
  <2> QED
    BY <1>2, <1>3, <2>1
<1> QED
  BY <1>4, <1>5

LEMMA MinIsLeast ==
    ASSUME NEW S, S \subseteq Nat, S # {}
    PROVE  Min(S) \in S /\ \A s \in S : Min(S) <= s
  BY HasLeast DEF Min

LEMMA MaxIsGreatest ==
    ASSUME NEW n \in Nat, NEW S, S \subseteq 0..n, S # {}
    PROVE  Max(S) \in S /\ \A s \in S : s <= Max(S)
<1>1. \E m \in S : \A s \in S : m >= s
  BY HasGreatest
<1>2. Max(S) \in S /\ \A s \in S : Max(S) >= s
  BY <1>1, Zenon DEF Max
<1> QED
  BY <1>2

-----------------------------------------------------------------------------
(* Run views: what detectCollapsibleRanges computes.                        *)

AgentEvents == Of({"agent"})

\* The run of agent messages that is open after event n of E, and the runs that
\* were shut until then.
OpenRun(E, n) ==
    {t \in E \cap AgentEvents : t <= n /\ \A u \in E \ AgentEvents : ~(t < u /\ u <= n)}
ShutRuns(E, n) ==
    {R \in SUBSET (E \cap AgentEvents) :
        Cardinality(R) > 3 /\ \E u \in E \ AgentEvents : u <= n /\ R = OpenRun(E, u - 1)}

Flushed(at) == IF Cardinality(at.run) > 3 THEN at.ranges \cup {at.run} ELSE at.ranges

\* One event of the walk.
WalkStep(E, s, was) ==
    CASE s \notin E -> was
      [] s \in E \cap AgentEvents -> [was EXCEPT !.run = @ \cup {s}]
      [] OTHER -> [run |-> {}, ranges |-> Flushed(was)]

Walked(E, n) == [run |-> OpenRun(E, n), ranges |-> ShutRuns(E, n)]

\* The numbers up to s are those up to s - 1 and s.
LEMMA UpToNext ==
    ASSUME NEW n \in Nat, NEW E, E \subseteq 1..n, NEW s \in 1..n
    PROVE  /\ \A t \in E : t \in 1..n /\ (t <= s <=> t <= s - 1 \/ t = s)
           /\ \A t \in E : t <= s - 1 => t # s
  OBVIOUS

LEMMA WalkBegins ==
    ASSUME NEW n \in Nat, NEW E, E \subseteq 1..n
    PROVE  Walked(E, 0) = [run |-> {}, ranges |-> {}]
<1>1. \A t \in E : ~(t <= 0)
  OBVIOUS
<1>3. OpenRun(E, 0) = {}
  BY <1>1 DEF OpenRun
<1>2. ShutRuns(E, 0) = {}
  BY <1>1 DEF ShutRuns
<1> QED
  BY <1>2, <1>3 DEF Walked

LEMMA WalkGoesOn ==
    ASSUME NEW n \in Nat, NEW E, E \subseteq 1..n, NEW s \in 1..n
    PROVE  Walked(E, s) = WalkStep(E, s, Walked(E, s - 1))
<1> DEFINE was == Walked(E, s - 1)
<1>0. was = [run |-> OpenRun(E, s - 1), ranges |-> ShutRuns(E, s - 1)]
  BY DEF Walked
<1>1. CASE s \notin E
  <2>1. OpenRun(E, s) = OpenRun(E, s - 1)
    <3>1. ASSUME NEW t \in E \cap AgentEvents PROVE t <= s <=> t <= s - 1
      BY <1>1, UpToNext
    <3>2. ASSUME NEW u \in E \ AgentEvents PROVE u <= s <=> u <= s - 1
      BY <1>1, UpToNext
    <3> QED
      BY <3>1, <3>2, Zenon DEF OpenRun
  <2>2. \A u \in E \ AgentEvents : u <= s <=> u <= s - 1
    BY <1>1
  <2>3. ShutRuns(E, s) = ShutRuns(E, s - 1)
    BY <2>2 DEF ShutRuns
  <2> QED
    BY <1>1, <2>1, <2>3 DEF Walked, WalkStep
<1>2. CASE s \in E \cap AgentEvents
  <2>1. OpenRun(E, s) = OpenRun(E, s - 1) \cup {s}
    <3>1. ASSUME NEW t \in E \cap AgentEvents PROVE t <= s <=> t <= s - 1 \/ t = s
      BY UpToNext
    <3>2. ASSUME NEW u \in E \ AgentEvents PROVE (u <= s <=> u <= s - 1) /\ ~(s < u /\ u <= s)
      BY <1>2, UpToNext
    <3>3. ASSUME NEW t \in E \cap AgentEvents
          PROVE  t \in OpenRun(E, s) <=> t \in OpenRun(E, s - 1) \/ t = s
      <4>1. CASE t = s
        BY <3>1, <3>2, <4>1, Zenon DEF OpenRun
      <4>2. CASE t # s
        BY <3>1, <3>2, <4>2, Zenon DEF OpenRun
      <4> QED
        BY <4>1, <4>2
    <3>4. OpenRun(E, s) \subseteq E \cap AgentEvents /\ OpenRun(E, s - 1) \subseteq E \cap AgentEvents
      BY DEF OpenRun
    <3> QED
      BY <1>2, <3>3, <3>4
  <2>2. \A u \in E \ AgentEvents : u <= s <=> u <= s - 1
    BY <1>2
  <2>3. ShutRuns(E, s) = ShutRuns(E, s - 1)
    BY <2>2 DEF ShutRuns
  <2>4. WalkStep(E, s, was) = [was EXCEPT !.run = @ \cup {s}]
    BY <1>2 DEF WalkStep
  <2> QED
    BY <1>0, <2>1, <2>3, <2>4 DEF Walked
<1>3. CASE s \in E \ AgentEvents
  <2>1. OpenRun(E, s) = {}
    <3>1. ASSUME NEW t \in E \cap AgentEvents, t <= s PROVE t < s /\ s <= s
      BY <1>3, <3>1, UpToNext
    <3> QED
      BY <1>3, <3>1, Zenon DEF OpenRun
  <2>2. \A u \in E \ AgentEvents : u <= s <=> u <= s - 1 \/ u = s
    BY <1>3
  <2>3. OpenRun(E, s - 1) \in SUBSET (E \cap AgentEvents)
    BY DEF OpenRun
  <2>4. ShutRuns(E, s) = Flushed(was)
    <3>1. ASSUME NEW R \in SUBSET (E \cap AgentEvents)
          PROVE  R \in ShutRuns(E, s) <=>
                    \/ R \in ShutRuns(E, s - 1)
                    \/ Cardinality(R) > 3 /\ R = OpenRun(E, s - 1)
      <4>1. (\E u \in E \ AgentEvents : u <= s /\ R = OpenRun(E, u - 1)) <=>
              \/ \E u \in E \ AgentEvents : u <= s - 1 /\ R = OpenRun(E, u - 1)
              \/ R = OpenRun(E, s - 1)
        BY <1>3, <2>2
      <4> QED
        BY <4>1 DEF ShutRuns
    <3>2. ShutRuns(E, s) \subseteq SUBSET (E \cap AgentEvents) /\ ShutRuns(E, s - 1) \subseteq SUBSET (E \cap AgentEvents)
      BY DEF ShutRuns
    <3> DEFINE run == OpenRun(E, s - 1)
               shut == ShutRuns(E, s - 1)
    <3>3. Flushed(was) = IF Cardinality(run) > 3 THEN shut \cup {run} ELSE shut
      BY <1>0 DEF Flushed
    <3> HIDE DEF run, shut, was
    <3>4. ASSUME NEW R PROVE R \in ShutRuns(E, s) <=> R \in shut \/ (Cardinality(R) > 3 /\ R = run)
      BY <2>3, <3>1, <3>2 DEF run, shut
    <3> QED
      BY <3>3, <3>4
  <2>5. WalkStep(E, s, was) = [run |-> {}, ranges |-> Flushed(was)]
    BY <1>3 DEF WalkStep
  <2> QED
    BY <2>1, <2>4, <2>5 DEF Walked
<1> QED
  BY <1>1, <1>2, <1>3

\* The recursive walk is the one just described: they agree at the least
\* number, and none is the least at which they differ.
LEMMA WalkComputes ==
    ASSUME Len(vKinds) \in Nat, NEW E, E \subseteq 1..Len(vKinds)
    PROVE  RangesOf(E) = Flushed(Walked(E, Len(vKinds)))
<1> DEFINE N == Len(vKinds)
           F(f) == [s \in 0..N |->
                      IF s = 0 THEN [run |-> {}, ranges |-> {}] ELSE WalkStep(E, s, f[s - 1])]
           walk == CHOOSE f : f = F(f)
           known == [s \in 0..N |-> Walked(E, s)]
<1>1. RangesOf(E) = Flushed(walk[N])
  BY DEF RangesOf, Flushed, WalkStep, AgentEvents
<1>2. known = F(known)
  <2>1. ASSUME NEW s \in 0..N
        PROVE  known[s] = IF s = 0 THEN [run |-> {}, ranges |-> {}] ELSE WalkStep(E, s, known[s - 1])
    <3>1. CASE s = 0
      BY <3>1, WalkBegins
    <3>2. CASE s # 0
      <4>1. s \in 1..N /\ s - 1 \in 0..N
        BY <3>2
      <4>2. known[s - 1] = Walked(E, s - 1) /\ known[s] = Walked(E, s)
        BY <4>1
      <4> QED
        BY <3>2, <4>1, <4>2, WalkGoesOn
    <3> QED
      BY <3>1, <3>2
  <2> HIDE DEF WalkStep
  <2> QED
    BY <2>1
<1>3. walk = F(walk)
  <2> HIDE DEF F, known
  <2> QED
    BY <1>2, Zenon
<1>4. /\ walk[0] = [run |-> {}, ranges |-> {}]
      /\ \A s \in 1..N : walk[s] = WalkStep(E, s, walk[s - 1])
  <2> HIDE DEF walk, N
  <2>1. N \in Nat /\ 0 \in 0..N /\ \A s \in 1..N : s \in 0..N /\ s # 0
    BY DEF N
  <2>2. \A s \in 0..N : F(walk)[s] =
            IF s = 0 THEN [run |-> {}, ranges |-> {}] ELSE WalkStep(E, s, walk[s - 1])
    OBVIOUS
  <2> HIDE DEF F
  <2> QED
    BY <1>3, <2>1, <2>2
<1> DEFINE Differ == {s \in 0..N : walk[s] # Walked(E, s)}
<1>5. Differ = {}
  <2> HIDE DEF walk, N
  <2> SUFFICES ASSUME Differ # {} PROVE FALSE
    OBVIOUS
  <2>1. PICK s \in Differ : \A t \in Differ : s <= t
    <3>1. Differ \subseteq Nat
      OBVIOUS
    <3> HIDE DEF Differ
    <3> QED
      BY <3>1, HasLeast
  <2>2. s # 0
    BY <1>4, WalkBegins DEF N
  <2>3. s \in 1..N /\ s - 1 \in 0..N /\ s - 1 \notin Differ
    BY <2>1, <2>2 DEF N
  <2>4. walk[s - 1] = Walked(E, s - 1)
    BY <2>3
  <2>5. walk[s] = Walked(E, s)
    BY <1>4, <2>3, <2>4, WalkGoesOn DEF N
  <2> QED
    BY <2>1, <2>5
<1>6. walk[N] = Walked(E, N)
  <2> HIDE DEF walk
  <2> QED
    BY <1>5
<1> QED
  BY <1>1, <1>6

-----------------------------------------------------------------------------
(* Run views: the folds are the longest runs of agent messages.             *)

\* The folds the property asks for: R has no other event between its first and
\* its last, and another kind of event keeps it from every event outside.
LongestRuns(E) ==
    {R \in SUBSET (E \cap AgentEvents) :
        /\ Cardinality(R) > 3
        /\ R = Between(Min(R), Max(R), E)
        /\ \A s \in E \ R : \E t \in E \ AgentEvents :
              (s <= t /\ t < Min(R)) \/ (Max(R) < t /\ t <= s)}

\* A run ends before an event of another kind or with the events.
RunEnds(E, n) == {u \in 1..(n + 1) : u \in E \ AgentEvents \/ u = n + 1}

LEMMA FlushedRuns ==
    ASSUME NEW n \in Nat, NEW E, E \subseteq 1..n
    PROVE  \A R : R \in Flushed(Walked(E, n)) <=>
                     Cardinality(R) > 3 /\ \E u \in RunEnds(E, n) : R = OpenRun(E, u - 1)
<1> SUFFICES ASSUME NEW R
    PROVE  R \in Flushed(Walked(E, n)) <=>
              Cardinality(R) > 3 /\ \E u \in RunEnds(E, n) : R = OpenRun(E, u - 1)
  OBVIOUS
<1>1. ASSUME NEW u PROVE u \in RunEnds(E, n) <=> (u \in E \ AgentEvents /\ u <= n) \/ u = n + 1
  <2>1. ASSUME u \in E PROVE u \in 1..(n + 1) /\ u <= n
    BY <2>1
  <2>2. n + 1 \in 1..(n + 1)
    OBVIOUS
  <2> QED
    BY <2>1, <2>2 DEF RunEnds
<1>2. n + 1 - 1 = n
  OBVIOUS
<1>3. \A k : OpenRun(E, k) \in SUBSET (E \cap AgentEvents)
  BY DEF OpenRun
<1>4. R \in ShutRuns(E, n) <=>
          Cardinality(R) > 3 /\ \E u \in E \ AgentEvents : u <= n /\ R = OpenRun(E, u - 1)
  BY <1>3, Zenon DEF ShutRuns
<1>5. R \in Flushed(Walked(E, n)) <=>
          R \in ShutRuns(E, n) \/ (Cardinality(R) > 3 /\ R = OpenRun(E, n))
  BY DEF Flushed, Walked
<1>6. (\E u \in RunEnds(E, n) : R = OpenRun(E, u - 1)) <=>
          \/ \E u \in E \ AgentEvents : u <= n /\ R = OpenRun(E, u - 1)
          \/ R = OpenRun(E, n + 1 - 1)
  <2>1. ASSUME NEW u \in RunEnds(E, n), R = OpenRun(E, u - 1)
        PROVE  \/ \E v \in E \ AgentEvents : v <= n /\ R = OpenRun(E, v - 1)
               \/ R = OpenRun(E, n + 1 - 1)
    <3>1. CASE u \in E \ AgentEvents /\ u <= n
      BY <2>1, <3>1, Zenon
    <3>2. CASE u = n + 1
      BY <2>1, <3>2
    <3> QED
      BY <1>1, <3>1, <3>2, Zenon
  <2>2. n + 1 \in RunEnds(E, n) /\ \A v \in E \ AgentEvents : v <= n => v \in RunEnds(E, n)
    BY <1>1, Zenon
  <2> QED
    BY <2>1, <2>2
<1> QED
  BY <1>2, <1>4, <1>5, <1>6, Zenon

LEMMA NotEmptyRun ==
    ASSUME NEW n \in Nat, NEW R, R \subseteq 1..n, Cardinality(R) > 3
    PROVE  /\ R # {} /\ IsFiniteSet(R)
           /\ Min(R) \in R /\ Max(R) \in R
           /\ \A s \in R : Min(R) <= s /\ s <= Max(R)
<1>1. R # {}
  BY FS_EmptySet
<1>2. IsFiniteSet(R)
  <2>1. IsFiniteSet(1..n)
    BY FS_Interval
  <2> QED
    BY <2>1, FS_Subset
<1>3. R \subseteq Nat /\ R \subseteq 0..n
  OBVIOUS
<1> QED
  BY <1>1, <1>2, <1>3, MinIsLeast, MaxIsGreatest

LEMMA OpenRunIsLongest ==
    ASSUME NEW n \in Nat, NEW E, E \subseteq 1..n, NEW u \in RunEnds(E, n),
           Cardinality(OpenRun(E, u - 1)) > 3
    PROVE  OpenRun(E, u - 1) \in LongestRuns(E)
<1> DEFINE R == OpenRun(E, u - 1)
<1>1. /\ R \subseteq E \cap AgentEvents /\ u \in 1..(n + 1)
      /\ u \in E \ AgentEvents \/ u = n + 1
  BY DEF OpenRun, RunEnds
<1>2. \A t : t \in R <=> /\ t \in E \cap AgentEvents /\ t <= u - 1
                         /\ \A v \in E \ AgentEvents : ~(t < v /\ v <= u - 1)
  BY DEF OpenRun
<1>3. Cardinality(R) > 3
  OBVIOUS
<1> HIDE DEF R
<1>4. /\ Min(R) \in R /\ Max(R) \in R
      /\ \A s \in R : Min(R) <= s /\ s <= Max(R)
  BY <1>1, <1>3, NotEmptyRun
<1> DEFINE lo == Min(R)
           hi == Max(R)
<1>5. /\ lo \in R /\ hi \in R /\ \A s \in R : lo <= s /\ s <= hi
      /\ lo \in 1..n /\ hi \in 1..n /\ lo \in AgentEvents /\ hi <= u - 1
  BY <1>1, <1>2, <1>4
<1> HIDE DEF lo, hi
<1>6. \A v \in E \ AgentEvents : v \in 1..n /\ (v < lo \/ u <= v)
  BY <1>1, <1>2, <1>5
<1>7. R = Between(lo, hi, E)
  <2>1. ASSUME NEW s \in E, lo <= s, s <= hi PROVE s \in R
    <3>1. s \in 1..n /\ s \in AgentEvents
      BY <1>1, <1>5, <1>6, <2>1
    <3>2. \A v \in E \ AgentEvents : ~(s < v /\ v <= u - 1)
      BY <1>1, <1>5, <1>6, <2>1, <3>1
    <3> QED
      BY <1>1, <1>2, <1>5, <2>1, <3>1, <3>2
  <2> QED
    BY <1>1, <1>5, <2>1 DEF Between
<1>8. ASSUME NEW s \in E \ R
      PROVE  \E t \in E \ AgentEvents : (s <= t /\ t < lo) \/ (hi < t /\ t <= s)
  <2>1. CASE u <= s
    BY <1>1, <1>5, <2>1
  <2>2. CASE s < u /\ s \notin AgentEvents
    BY <1>1, <1>5, <1>6, <2>2
  <2>3. CASE s < u /\ s \in AgentEvents
    <3>1. PICK v \in E \ AgentEvents : s < v /\ v <= u - 1
      BY <1>1, <1>2, <2>3
    <3> QED
      BY <1>1, <1>5, <1>6, <3>1
  <2> QED
    BY <1>1, <2>1, <2>2, <2>3
<1>9. R \in SUBSET (E \cap AgentEvents) /\ Cardinality(R) > 3
  BY <1>1, <1>3
<1>10. R \in LongestRuns(E)
  BY <1>7, <1>8, <1>9 DEF LongestRuns, lo, hi
<1> QED
  BY <1>10 DEF R

LEMMA LongestIsOpenRun ==
    ASSUME NEW n \in Nat, NEW E, E \subseteq 1..n, NEW R \in LongestRuns(E)
    PROVE  \E u \in RunEnds(E, n) : R = OpenRun(E, u - 1)
<1>1. R \subseteq E \cap AgentEvents /\ Cardinality(R) > 3
  BY DEF LongestRuns
<1> DEFINE lo == Min(R)
           hi == Max(R)
<1>2. /\ R = Between(lo, hi, E)
      /\ \A s \in E \ R : \E t \in E \ AgentEvents : (s <= t /\ t < lo) \/ (hi < t /\ t <= s)
  BY DEF LongestRuns
<1>3. /\ lo \in R /\ hi \in R /\ \A s \in R : lo <= s /\ s <= hi
  BY <1>1, NotEmptyRun
<1> HIDE DEF lo, hi
<1>4. /\ lo \in 1..n /\ hi \in 1..n
      /\ \A v \in E \ AgentEvents : v < lo \/ hi < v
  BY <1>1, <1>2, <1>3 DEF Between
<1> DEFINE Ends == {u \in RunEnds(E, n) : hi < u}
<1>5. PICK u \in Ends : \A v \in Ends : u <= v
  <2>1. Ends \subseteq Nat /\ n + 1 \in Ends
    BY <1>4 DEF RunEnds
  <2> HIDE DEF Ends
  <2> QED
    BY <2>1, HasLeast
<1>6. /\ u \in 1..(n + 1) /\ hi < u
      /\ \A v \in E \ AgentEvents : v < lo \/ u <= v
  BY <1>4, <1>5 DEF RunEnds
<1>7. ASSUME NEW t PROVE t \in R <=> t \in OpenRun(E, u - 1)
  <2>1. CASE t \in R
    <3>1. t \in E \cap AgentEvents /\ t \in 1..n /\ lo <= t /\ t <= u - 1
      BY <1>1, <1>3, <1>4, <1>6, <2>1
    <3>2. \A v \in E \ AgentEvents : ~(t < v /\ v <= u - 1)
      BY <1>4, <1>6, <3>1
    <3> QED
      BY <2>1, <3>1, <3>2 DEF OpenRun
  <2>2. CASE t \in OpenRun(E, u - 1) /\ t \notin R
    <3>1. /\ t \in E \cap AgentEvents /\ t \in 1..n /\ t <= u - 1
          /\ \A v \in E \ AgentEvents : ~(t < v /\ v <= u - 1)
      BY <2>2 DEF OpenRun
    <3>2. PICK w \in E \ AgentEvents : (t <= w /\ w < lo) \/ (hi < w /\ w <= t)
      BY <1>2, <2>2, <3>1
    <3>3. w \in 1..n /\ w # t /\ lo <= hi
      BY <1>3, <3>1, <3>2
    <3>4. CASE t <= w /\ w < lo
      BY <1>4, <1>6, <3>1, <3>3, <3>4
    <3>5. CASE hi < w /\ w <= t
      BY <1>4, <1>6, <3>1, <3>3, <3>5
    <3> QED
      BY <3>2, <3>4, <3>5
  <2> QED
    BY <2>1, <2>2
<1>8. R = OpenRun(E, u - 1)
  BY <1>7
<1> QED
  BY <1>5, <1>8

LEMMA RangesAreLongestRuns ==
    ASSUME Len(vKinds) \in Nat, NEW E, E \subseteq 1..Len(vKinds)
    PROVE  /\ RangesOf(E) = LongestRuns(E)
           /\ \A R : R \in RangesOf(E) <=>
                /\ Cardinality(R) > 3
                /\ \E u \in RunEnds(E, Len(vKinds)) : R = OpenRun(E, u - 1)
<1> DEFINE n == Len(vKinds)
<1>0. n \in Nat /\ E \subseteq 1..n /\ RangesOf(E) = Flushed(Walked(E, n))
  BY WalkComputes
<1> HIDE DEF n
<1>1. \A R : R \in RangesOf(E) <=>
                Cardinality(R) > 3 /\ \E u \in RunEnds(E, n) : R = OpenRun(E, u - 1)
  <2>1. \A R : R \in Flushed(Walked(E, n)) <=>
            Cardinality(R) > 3 /\ \E u \in RunEnds(E, n) : R = OpenRun(E, u - 1)
    BY <1>0, FlushedRuns, Zenon
  <2> QED
    BY <1>0, <2>1, Zenon
<1>2. ASSUME NEW R PROVE R \in RangesOf(E) <=> R \in LongestRuns(E)
  <2>1. R \in LongestRuns(E) => Cardinality(R) > 3
    BY DEF LongestRuns
  <2>2. R \in LongestRuns(E) => \E u \in RunEnds(E, n) : R = OpenRun(E, u - 1)
    BY <1>0, LongestIsOpenRun
  <2>3. ASSUME NEW u \in RunEnds(E, n), R = OpenRun(E, u - 1), Cardinality(R) > 3
        PROVE  R \in LongestRuns(E)
    <3>1. OpenRun(E, u - 1) \in LongestRuns(E)
      BY <1>0, <2>3, OpenRunIsLongest
    <3> QED
      BY <2>3, <3>1
  <2> QED
    BY <1>1, <2>1, <2>2, <2>3
<1> QED
  BY <1>1, <1>2 DEF n

\* With fewer kinds of other events the folds only grow.
LEMMA FewerBreaksFoldMore ==
    ASSUME Len(vKinds) \in Nat, NEW D, NEW E, E \subseteq 1..Len(vKinds), D \subseteq E,
           D \cap AgentEvents = E \cap AgentEvents, NEW R \in RangesOf(E)
    PROVE  \E S \in RangesOf(D) : R \subseteq S
<1> DEFINE n == Len(vKinds)
<1>1. PICK u \in RunEnds(E, n) : R = OpenRun(E, u - 1)
  BY RangesAreLongestRuns
<1>2. Cardinality(R) > 3 /\ D \subseteq 1..n
  BY RangesAreLongestRuns
<1> HIDE DEF n
<1> DEFINE Ends == {v \in RunEnds(D, n) : u <= v}
<1>3. n \in Nat /\ E \subseteq 1..n /\ u \in 1..(n + 1)
  BY <1>1 DEF n, RunEnds
<1>4. PICK w \in Ends : \A v \in Ends : w <= v
  <2>1. Ends \subseteq Nat /\ n + 1 \in Ends
    BY <1>3 DEF RunEnds
  <2> HIDE DEF Ends
  <2> QED
    BY <2>1, HasLeast
<1> DEFINE S == OpenRun(D, w - 1)
<1>5. w \in 1..(n + 1) /\ u <= w /\ \A v \in D \ AgentEvents : v < u \/ w <= v
  BY <1>2, <1>3, <1>4 DEF RunEnds
<1>6. R \subseteq S
  <2> SUFFICES ASSUME NEW t \in R PROVE t \in S
    OBVIOUS
  <2>1. /\ t \in E \cap AgentEvents /\ t <= u - 1
        /\ \A v \in E \ AgentEvents : ~(t < v /\ v <= u - 1)
    BY <1>1 DEF OpenRun
  <2>2. \A v \in D \ AgentEvents : ~(t < v /\ v <= w - 1)
    BY <1>2, <1>3, <1>5, <2>1
  <2> QED
    BY <1>3, <1>5, <2>1, <2>2 DEF OpenRun
<1>7. Cardinality(S) > 3
  <2>1. S \subseteq 1..n /\ R \subseteq 1..n
    BY <1>2, <1>3, <1>6 DEF OpenRun
  <2>0. IsFiniteSet(1..n)
    BY <1>3, FS_Interval
  <2>2. IsFiniteSet(S) /\ IsFiniteSet(R)
    BY <2>0, <2>1, FS_Subset
  <2>3. Cardinality(R) <= Cardinality(S) /\ Cardinality(R) \in Nat /\ Cardinality(S) \in Nat
    BY <1>6, <2>2, FS_Subset, FS_CardinalityType
  <2> QED
    BY <1>2, <2>3
<1>8. S \in RangesOf(D)
  BY <1>2, <1>4, <1>7, RangesAreLongestRuns DEF n
<1> QED
  BY <1>6, <1>8
-----------------------------------------------------------------------------
(* Run views: the inductive invariant.                                      *)

\* What Play, left alone, has shown: every visible event up to where it is.
PlayInv ==
    isPlaying /\ vPlayed # {} =>
        selectedSeq \in visible /\ \A t \in visible : t <= selectedSeq => t \in vPlayed

\* The Canvas holds one of the artifacts as soon as there is one.
CanvasInv == vTab = "canvas" /\ Of({"artifact"}) # {} => vArtifact \in Of({"artifact"})

ViewsInv == ViewsTypeOK /\ PlayInv /\ CanvasInv

LEMMA ViewsTyped ==
    ASSUME ViewsTypeOK
    PROVE  /\ vKinds \in Seq(EventKinds) /\ Len(vKinds) \in Nat /\ DOMAIN vKinds = 1..Len(vKinds)
           /\ NoSeq \notin Nat
           /\ visible \subseteq eventOrder /\ messages \subseteq eventOrder
           /\ eventOrder \subseteq 1..Len(vKinds) /\ \A K : Of(K) \subseteq eventOrder
  BY ViewsAssumption DEF ViewsTypeOK, visible, messages, eventOrder, Of

LEMMA VisibleBounds ==
    ASSUME ViewsTypeOK, NEW S, S \subseteq visible, S # {}
    PROVE  /\ Min(S) \in S /\ Max(S) \in S
           /\ \A s \in S : Min(S) <= s /\ s <= Max(S)
<1>1. Len(vKinds) \in Nat /\ S \subseteq 1..Len(vKinds)
  BY ViewsTyped
<1>2. S \subseteq Nat /\ S \subseteq 0..Len(vKinds)
  BY <1>1
<1> QED
  BY <1>1, <1>2, MinIsLeast, MaxIsGreatest

LEMMA ViewsStart == ViewsInit => ViewsInv
<1> SUFFICES ASSUME ViewsInit PROVE ViewsInv
  OBVIOUS
<1>1. vKinds = <<>> /\ eventOrder = {} /\ Of({"artifact"}) = {}
  BY DEF ViewsInit, eventOrder, Of
<1>2. ViewsTypeOK
  <2>1. vKinds \in Seq(EventKinds) /\ Len(vKinds) <= MaxEvents
    BY <1>1, ViewsAssumption
  <2> QED
    BY <1>1, <2>1 DEF ViewsInit, ViewsTypeOK, Tabs
<1> QED
  BY <1>1, <1>2 DEF ViewsInit, ViewsInv, PlayInv, CanvasInv

\* advancePlayhead moves to the next visible event or stays at the last.
LEMMA Advances ==
    ASSUME ViewsTypeOK, visible # {}, NEW s
    PROVE  /\ AdvancedFrom(s) \in visible
           /\ s \in visible =>
                \/ AdvancedFrom(s) = s /\ \A t \in visible : t <= s
                \/ AdvancedFrom(s) > s /\ \A t \in visible : t <= s \/ AdvancedFrom(s) <= t
<1> DEFINE later == IF s \in visible THEN {t \in visible : t > s} ELSE visible \ {Min(visible)}
<1>1. later \subseteq visible
  OBVIOUS
<1>2. AdvancedFrom(s) = IF later = {} THEN Max(visible) ELSE Min(later)
  BY DEF AdvancedFrom
<1>3. Max(visible) \in visible /\ \A t \in visible : t <= Max(visible)
  BY VisibleBounds
<1>4. later # {} => Min(later) \in later /\ \A t \in later : Min(later) <= t
  <2> HIDE DEF later
  <2> QED
    BY <1>1, VisibleBounds
<1>5. visible \subseteq Nat
  BY ViewsTyped
<1> DEFINE next == AdvancedFrom(s)
<1>6. CASE later = {}
  <2>1. next \in visible /\ \A t \in visible : t <= next
    BY <1>2, <1>3, <1>6
  <2>2. s \in visible => \A t \in visible : ~(t > s)
    BY <1>6
  <2> HIDE DEF next, later
  <2>3. s \in visible => next = s
    BY <1>5, <2>1, <2>2
  <2> QED
    BY <2>1, <2>3 DEF next
<1>7. CASE later # {}
  <2>1. next \in later /\ \A t \in later : next <= t
    BY <1>2, <1>4, <1>7
  <2>2. s \in visible => \A t \in visible : t \in later <=> t > s
    OBVIOUS
  <2> HIDE DEF next, later
  <2>3. s \in visible => next > s /\ \A t \in visible : t <= s \/ next <= t
    BY <1>1, <1>5, <2>1, <2>2
  <2> QED
    BY <1>1, <2>1, <2>3 DEF next
<1> QED
  BY <1>6, <1>7

\* A scrub snaps to a visible event.
LEMMA NearestIsVisible ==
    ASSUME ViewsTypeOK, visible # {}, NEW n \in Nat
    PROVE  Nearest(n) \in visible
<1>1. visible \subseteq Nat
  BY ViewsTyped
<1> DEFINE D == {Distance(s, n) : s \in visible}
<1>2. \A s \in visible : Distance(s, n) \in Nat
  BY <1>1 DEF Distance
<1>3. PICK d \in D : \A e \in D : d <= e
  <2>1. D \subseteq Nat /\ D # {}
    BY <1>2
  <2> HIDE DEF D
  <2> QED
    BY <2>1, HasLeast
<1> DEFINE Closest == {s \in visible : Distance(s, n) = d}
<1>4. PICK s \in Closest : \A t \in Closest : s <= t
  <2>1. Closest \subseteq Nat /\ Closest # {}
    BY <1>1, <1>3
  <2> HIDE DEF Closest
  <2> QED
    BY <2>1, HasLeast
<1>5. \A t \in visible : d <= Distance(t, n) /\ Distance(t, n) \in Nat
  BY <1>2, <1>3
<1>6. d \in Nat
  BY <1>2, <1>3
<1>7. /\ s \in visible
      /\ \A t \in visible :
            Distance(s, n) < Distance(t, n) \/ (Distance(s, n) = Distance(t, n) /\ s <= t)
  BY <1>4, <1>5, <1>6
<1> QED
  BY <1>7 DEF Nearest

-----------------------------------------------------------------------------
(* Run views: every step keeps the invariant.                               *)

LEMMA TickKeeps ==
    ASSUME ViewsInv, Tick
    PROVE  ViewsInv'
<1>1. /\ isPlaying /\ visible # {} /\ UNCHANGED <<vKinds, vMode, vTab, vArtifact>>
  BY DEF Tick
<1> DEFINE from == IF selectedSeq = NoSeq THEN Max(visible) ELSE selectedSeq
           next == AdvancedFrom(from)
<1>2. /\ next = from => isPlaying' = FALSE /\ UNCHANGED <<selectedSeq, vPlayed>>
      /\ next # from =>
            /\ selectedSeq' = next /\ isPlaying' = isPlaying
            /\ vPlayed' = IF vPlayed = {} THEN {} ELSE vPlayed \cup {next}
  BY DEF Tick
<1>3. ViewsTypeOK /\ PlayInv /\ CanvasInv
  BY DEF ViewsInv
<1>4. visible' = visible /\ eventOrder' = eventOrder /\ Of({"artifact"})' = Of({"artifact"})
  BY <1>1 DEF visible, eventOrder, Of
<1>5. next \in visible /\ visible \subseteq eventOrder
  BY <1>1, <1>3, Advances, ViewsTyped
<1>6. ViewsTypeOK'
  <2> HIDE DEF next, from
  <2>1. /\ isPlaying' \in BOOLEAN /\ selectedSeq' \in eventOrder \cup {NoSeq}
        /\ vPlayed' \subseteq eventOrder
    BY <1>2, <1>3, <1>5 DEF ViewsTypeOK
  <2> QED
    BY <1>1, <1>3, <1>4, <2>1 DEF ViewsTypeOK
<1>7. PlayInv'
  <2> SUFFICES ASSUME isPlaying', vPlayed' # {}
               PROVE  selectedSeq' \in visible /\ \A t \in visible : t <= selectedSeq' => t \in vPlayed'
    BY <1>4 DEF PlayInv
  <2>1. /\ next # from /\ selectedSeq' = next /\ vPlayed # {} /\ vPlayed' = vPlayed \cup {next}
    BY <1>2
  <2>2. selectedSeq \in visible /\ \A t \in visible : t <= selectedSeq => t \in vPlayed
    BY <1>1, <1>3, <2>1 DEF PlayInv
  <2>3. visible \subseteq Nat /\ NoSeq \notin Nat
    BY <1>3, ViewsTyped
  <2>4. from = selectedSeq
    BY <2>2, <2>3
  <2>5. \A t \in visible : t <= selectedSeq \/ next <= t
    BY <1>1, <1>3, <2>1, <2>2, <2>4, Advances
  <2> HIDE DEF next
  <2> QED
    BY <1>5, <2>1, <2>2, <2>3, <2>5
<1>8. CanvasInv'
  BY <1>1, <1>3, <1>4 DEF CanvasInv
<1> QED
  BY <1>6, <1>7, <1>8 DEF ViewsInv

\* The other steps on the Timeline end what Play has shown, or begin it.
LEMMA TimelineKeeps ==
    ASSUME ViewsInv, PressPlay \/ ClickDot \/ Scrub \/ CloseDetail
    PROVE  ViewsInv'
<1>1. UNCHANGED <<vKinds, vMode, vTab, vArtifact>>
  BY DEF PressPlay, ClickDot, Scrub, CloseDetail
<1>2. ViewsTypeOK /\ PlayInv /\ CanvasInv
  BY DEF ViewsInv
<1>3. visible' = visible /\ eventOrder' = eventOrder /\ Of({"artifact"})' = Of({"artifact"})
  BY <1>1 DEF visible, eventOrder, Of
<1>4. visible \subseteq eventOrder /\ visible \subseteq Nat
  BY <1>2, ViewsTyped
<1>5. visible # {} => Min(visible) \in visible /\ \A s \in visible : Min(visible) <= s
  BY <1>2, VisibleBounds
<1>6. /\ isPlaying' \in BOOLEAN /\ selectedSeq' \in eventOrder \cup {NoSeq}
      /\ vPlayed' \subseteq eventOrder
  <2>1. CASE PressPlay
    BY <1>2, <1>4, <1>5, <2>1 DEF PressPlay, ViewsTypeOK
  <2>2. CASE ClickDot
    BY <1>2, <1>4, <2>2 DEF ClickDot, ViewsTypeOK
  <2>3. CASE Scrub
    <3>1. visible # {}
      BY <2>3, FS_EmptySet DEF Scrub
    <3>2. PICK n \in Min(visible)..Max(visible) : selectedSeq' = Nearest(n)
      BY <2>3 DEF Scrub
    <3>3. n \in Nat
      <4>1. Min(visible) \in Nat /\ Max(visible) \in Nat
        BY <1>2, <1>4, <3>1, VisibleBounds
      <4> QED
        BY <4>1
    <3>4. Nearest(n) \in visible
      BY <1>2, <3>1, <3>3, NearestIsVisible
    <3> QED
      BY <1>4, <2>3, <3>2, <3>4 DEF Scrub
  <2>4. CASE CloseDetail
    BY <1>2, <2>4 DEF CloseDetail, ViewsTypeOK
  <2> QED
    BY <2>1, <2>2, <2>3, <2>4
<1>7. ViewsTypeOK'
  BY <1>1, <1>2, <1>3, <1>6 DEF ViewsTypeOK
<1>8. PlayInv'
  <2> SUFFICES ASSUME vPlayed' # {} PROVE PlayInv'
    BY DEF PlayInv
  <2>1. visible # {} /\ selectedSeq' = Min(visible) /\ vPlayed' = {Min(visible)}
    BY DEF PressPlay, ClickDot, Scrub, CloseDetail
  <2>2. ASSUME NEW t \in visible, t <= Min(visible) PROVE t = Min(visible)
    <3>1. t \in Nat /\ Min(visible) \in Nat /\ Min(visible) <= t
      BY <1>4, <1>5, <2>1
    <3> QED
      BY <2>2, <3>1
  <2> QED
    BY <1>3, <1>5, <2>1, <2>2 DEF PlayInv
<1>9. CanvasInv'
  BY <1>1, <1>2, <1>3 DEF CanvasInv
<1> QED
  BY <1>7, <1>8, <1>9 DEF ViewsInv

\* Resync selects an artifact when there is one.
LEMMA Resyncs ==
    ASSUME NEW kinds \in Seq(EventKinds), NEW selected
    PROVE  LET artifacts == {s \in DOMAIN kinds : kinds[s] = "artifact"}
           IN  /\ artifacts # {} => Resync(kinds, selected) \in artifacts
               /\ artifacts = {} => Resync(kinds, selected) = selected
<1> DEFINE artifacts == {s \in DOMAIN kinds : kinds[s] = "artifact"}
<1>1. artifacts \subseteq Nat
  OBVIOUS
<1>2. Resync(kinds, selected) = IF artifacts # {} /\ selected \notin artifacts THEN Min(artifacts) ELSE selected
  BY DEF Resync
<1> HIDE DEF artifacts
<1>3. artifacts # {} => Min(artifacts) \in artifacts
  BY <1>1, MinIsLeast
<1>4. /\ artifacts # {} => Resync(kinds, selected) \in artifacts
      /\ artifacts = {} => Resync(kinds, selected) = selected
  BY <1>2, <1>3
<1> QED
  BY <1>4 DEF artifacts

LEMMA ArtifactsOf == Of({"artifact"}) = {s \in DOMAIN vKinds : vKinds[s] = "artifact"}
  BY DEF Of, eventOrder

LEMMA ArriveKeeps ==
    ASSUME ViewsInv, Arrive
    PROVE  ViewsInv'
<1>1. PICK kind \in EventKinds : vKinds' = Append(vKinds, kind)
  BY DEF Arrive
<1>2. /\ Len(vKinds) < MaxEvents /\ UNCHANGED <<vMode, vTab, selectedSeq, isPlaying, vPlayed>>
      /\ vArtifact' = IF vTab = "canvas" THEN Resync(vKinds', vArtifact) ELSE vArtifact
  BY DEF Arrive, timeline
<1>3. ViewsTypeOK /\ PlayInv /\ CanvasInv
  BY DEF ViewsInv
<1> DEFINE n == Len(vKinds)
<1>4. /\ n \in Nat /\ MaxEvents \in Nat /\ DOMAIN vKinds = 1..n /\ vKinds \in Seq(EventKinds)
      /\ vKinds' \in Seq(EventKinds) /\ Len(vKinds') = n + 1 /\ DOMAIN vKinds' = 1..(n + 1)
      /\ \A s \in 1..n : vKinds'[s] = vKinds[s]
  BY <1>1, <1>3, ViewsTyped, ViewsAssumption
<1>5. /\ eventOrder \subseteq 1..n /\ visible \subseteq 1..n
      /\ eventOrder \subseteq eventOrder' /\ visible \subseteq visible'
      /\ visible' \subseteq visible \cup {n + 1}
  <2>1. \A s \in 1..n : /\ s \in DOMAIN vKinds /\ s \in DOMAIN vKinds' /\ vKinds'[s] = vKinds[s]
    BY <1>4
  <2>2. \A s \in DOMAIN vKinds' : s \in DOMAIN vKinds \/ s = n + 1
    BY <1>4
  <2>3. eventOrder \subseteq eventOrder' /\ \A s \in 1..n : s \in eventOrder' <=> s \in eventOrder
    BY <1>4, <2>1, <2>2 DEF eventOrder
  <2>4. eventOrder \subseteq 1..n /\ visible \subseteq 1..n
    BY <1>4 DEF eventOrder, visible
  <2>5. \A s \in 1..n : s \in visible' <=> s \in visible
    BY <1>2, <2>1, <2>3 DEF visible
  <2>6. visible' \subseteq DOMAIN vKinds'
    BY DEF visible, eventOrder
  <2> QED
    BY <1>4, <2>2, <2>3, <2>4, <2>5, <2>6
<1>6. vArtifact' \in eventOrder' \cup {NoSeq} /\ CanvasInv'
  <2>1. CASE vTab = "canvas"
    <3> DEFINE artifacts == {s \in DOMAIN vKinds' : vKinds'[s] = "artifact"}
    <3>1. /\ artifacts # {} => vArtifact' \in artifacts
          /\ artifacts = {} => vArtifact' = vArtifact
      BY <1>2, <1>4, <2>1, Resyncs
    <3>2. artifacts \subseteq eventOrder' /\ Of({"artifact"})' = artifacts
      BY DEF Of, eventOrder
    <3>3. vArtifact \in eventOrder' \cup {NoSeq}
      BY <1>3, <1>5 DEF ViewsTypeOK
    <3> HIDE DEF artifacts
    <3> QED
      BY <3>1, <3>2, <3>3 DEF CanvasInv
  <2>2. CASE vTab # "canvas"
    BY <1>2, <1>3, <1>5, <2>2 DEF CanvasInv, ViewsTypeOK
  <2> QED
    BY <2>1, <2>2
<1>7. ViewsTypeOK'
  <2>1. Len(vKinds') <= MaxEvents
    BY <1>2, <1>4
  <2>2. selectedSeq' \in eventOrder' \cup {NoSeq} /\ vPlayed' \subseteq eventOrder'
    BY <1>2, <1>3, <1>5 DEF ViewsTypeOK
  <2> QED
    BY <1>2, <1>3, <1>4, <1>6, <2>1, <2>2 DEF ViewsTypeOK
<1>8. PlayInv'
  <2> SUFFICES ASSUME isPlaying, vPlayed # {}
               PROVE  selectedSeq \in visible' /\ \A t \in visible' : t <= selectedSeq => t \in vPlayed
    BY <1>2 DEF PlayInv
  <2>1. selectedSeq \in visible /\ \A t \in visible : t <= selectedSeq => t \in vPlayed
    BY <1>3 DEF PlayInv
  <2>2. ~(n + 1 <= selectedSeq)
    BY <1>4, <1>5, <2>1
  <2> HIDE DEF n
  <2> QED
    BY <1>5, <2>1, <2>2
<1> QED
  BY <1>6, <1>7, <1>8 DEF ViewsInv

LEMMA AroundKeeps ==
    ASSUME ViewsInv, ToggleMode \/ SwitchTab \/ ChooseArtifact
    PROVE  ViewsInv'
<1>1. vKinds' = vKinds
  BY DEF ToggleMode, SwitchTab, ChooseArtifact
<1>2. ViewsTypeOK /\ PlayInv /\ CanvasInv
  BY DEF ViewsInv
<1>3. eventOrder' = eventOrder /\ \A K : Of(K)' = Of(K)
  BY <1>1 DEF eventOrder, Of
<1>4. CASE ToggleMode
  <2>1. /\ UNCHANGED <<vKinds, vTab, selectedSeq, isPlaying, vArtifact>>
        /\ vMode' \in {"clean", "studio"} /\ vPlayed' = {}
    BY <1>4 DEF ToggleMode
  <2> QED
    BY <1>2, <1>3, <2>1 DEF ViewsInv, ViewsTypeOK, PlayInv, CanvasInv
<1>5. CASE SwitchTab
  <2>1. /\ UNCHANGED <<vKinds, vMode>> /\ vTab' \in Tabs
        /\ selectedSeq' = NoSeq /\ isPlaying' = FALSE /\ vPlayed' = {}
        /\ vArtifact' = IF vTab' = "canvas" THEN Resync(vKinds, NoSeq) ELSE NoSeq
    BY <1>5 DEF SwitchTab
  <2>2. /\ vArtifact' \in eventOrder \cup {NoSeq}
        /\ vTab' = "canvas" /\ Of({"artifact"}) # {} => vArtifact' \in Of({"artifact"})
    <3>1. vKinds \in Seq(EventKinds) /\ Of({"artifact"}) \subseteq eventOrder
      BY <1>2, ViewsTyped
    <3>2. /\ Of({"artifact"}) # {} => Resync(vKinds, NoSeq) \in Of({"artifact"})
          /\ Of({"artifact"}) = {} => Resync(vKinds, NoSeq) = NoSeq
      BY <3>1, Resyncs, ArtifactsOf
    <3> QED
      BY <2>1, <3>1, <3>2
  <2> QED
    BY <1>2, <1>3, <2>1, <2>2 DEF ViewsInv, ViewsTypeOK, PlayInv, CanvasInv
<1>6. CASE ChooseArtifact
  <2>1. /\ UNCHANGED <<vKinds, vMode, vTab, selectedSeq, isPlaying, vPlayed>>
        /\ vArtifact' \in Of({"artifact"}) /\ Of({"artifact"}) \subseteq eventOrder
    BY <1>2, <1>6, ViewsTyped DEF ChooseArtifact, timeline
  <2>2. visible' = visible
    BY <2>1, <1>3 DEF visible
  <2> QED
    BY <1>2, <1>3, <2>1, <2>2 DEF ViewsInv, ViewsTypeOK, PlayInv, CanvasInv
<1> QED
  BY <1>4, <1>5, <1>6

LEMMA ViewsStep == ViewsInv /\ [ViewsNext]_viewVars => ViewsInv'
<1> SUFFICES ASSUME ViewsInv, [ViewsNext]_viewVars PROVE ViewsInv'
  OBVIOUS
<1>1. CASE Tick
  BY <1>1, TickKeeps
<1>2. CASE PressPlay \/ ClickDot \/ Scrub \/ CloseDetail
  BY <1>2, TimelineKeeps
<1>3. CASE Arrive
  BY <1>3, ArriveKeeps
<1>4. CASE ToggleMode \/ SwitchTab \/ ChooseArtifact
  BY <1>4, AroundKeeps
<1>5. CASE UNCHANGED viewVars
  <2>1. UNCHANGED <<vKinds, vMode, vTab, selectedSeq, isPlaying, vArtifact, vPlayed>>
    BY <1>5 DEF viewVars
  <2>2. visible' = visible /\ eventOrder' = eventOrder /\ Of({"artifact"})' = Of({"artifact"})
    BY <2>1 DEF visible, eventOrder, Of
  <2> QED
    BY <2>1, <2>2 DEF ViewsInv, ViewsTypeOK, PlayInv, CanvasInv
<1> QED
  BY <1>1, <1>2, <1>3, <1>4, <1>5 DEF ViewsNext

LEMMA ViewsInvariant == ViewsSpec => []ViewsInv
  BY ViewsStart, ViewsStep, PTL DEF ViewsSpec

\* Type correctness of the run's events and of the views' own state.
THEOREM ViewsTypeCorrect == ViewsSpec => []ViewsTypeOK
<1>1. ViewsInv => ViewsTypeOK
  BY DEF ViewsInv
<1> QED
  BY <1>1, ViewsInvariant, PTL

\* The folds, the replay page's folds, the placeholder, the Boardroom's columns
\* and cells and the Canvas: each view shows every message in its one place.
THEOREM EveryMessageIsPlaced == ViewsSpec => []EveryMessageHasItsPlace
<1>1. ViewsInv => EveryMessageHasItsPlace
  <2> SUFFICES ASSUME ViewsInv PROVE EveryMessageHasItsPlace
    OBVIOUS
  <2>1. ViewsTypeOK /\ CanvasInv
    BY DEF ViewsInv
  <2>2. /\ Len(vKinds) \in Nat /\ messages \subseteq 1..Len(vKinds)
        /\ replayed \subseteq messages /\ replayed \subseteq 1..Len(vKinds)
        /\ AgentEvents \subseteq replayed
    <3>1. Len(vKinds) \in Nat /\ eventOrder \subseteq 1..Len(vKinds) /\ messages \subseteq eventOrder
      BY <2>1, ViewsTyped
    <3>2. replayed \subseteq messages /\ AgentEvents \subseteq replayed
      BY DEF replayed, messages, Of, AgentEvents
    <3> QED
      BY <3>1, <3>2
  <2>3. \A E \in {messages, replayed} : RangesOf(E) = {R \in SUBSET (E \cap Of({"agent"})) :
                /\ Cardinality(R) > 3
                /\ R = Between(Min(R), Max(R), E)
                /\ \A s \in E \ R : \E t \in E \ Of({"agent"}) :
                      (s <= t /\ t < Min(R)) \/ (Max(R) < t /\ t <= s)}
    <3>1. \A E \in {messages, replayed} : RangesOf(E) = LongestRuns(E)
      BY <2>2, RangesAreLongestRuns
    <3> QED
      BY <3>1 DEF LongestRuns, AgentEvents
  <2>4. \A R \in collapsibleRanges : \E S \in replayRanges : R \subseteq S
    <3>1. replayed \cap AgentEvents = messages \cap AgentEvents
      BY <2>2
    <3> QED
      BY <2>2, <3>1, FewerBreaksFoldMore DEF collapsibleRanges, replayRanges
  <2>5. skeleton => Of({"agent"}) \subseteq UNION collapsibleRanges
    <3>1. \A s \in Of({"agent"}) : Author(s) = "mo" /\ s \in messages
      BY <2>2 DEF Of, Author, AgentEvents
    <3> QED
      BY <3>1 DEF skeleton, renderedAlone
  <2>6. \A s \in boardroomEvents \ Of({"transition"}) :
            {a \in columnAgents : s \in columns[a]} = {Author(s)}
    <3> SUFFICES ASSUME NEW s \in boardroomEvents \ Of({"transition"})
                 PROVE  {a \in columnAgents : s \in columns[a]} = {Author(s)}
      OBVIOUS
    <3>1. Author(s) \in columnAgents
      BY DEF columnAgents
    <3>2. vKinds[s] # "transition"
      BY DEF Of, boardroomEvents, messages
    <3>3. \A a \in columnAgents : s \in columns[a] <=> a = Author(s)
      BY <3>2 DEF columns
    <3> QED
      BY <3>1, <3>3
  <2>7. \A s \in messages : {a \in DOMAIN cells : s \in cells[a]} = {Author(s)}
    <3> SUFFICES ASSUME NEW s \in messages
                 PROVE  {a \in DOMAIN cells : s \in cells[a]} = {Author(s)}
      OBVIOUS
    <3>1. Author(s) \in DOMAIN cells
      BY DEF cells
    <3>2. \A a \in DOMAIN cells : s \in cells[a] <=> a = Author(s)
      BY DEF cells
    <3> QED
      BY <3>1, <3>2
  <2> QED
    BY <2>1, <2>3, <2>4, <2>5, <2>6, <2>7 DEF EveryMessageHasItsPlace, CanvasInv
<1> QED
  BY <1>1, ViewsInvariant, PTL

\* Playback that started at the first event and was left alone has shown every
\* visible event when the interval stops it.
THEOREM PlaybackIsComplete == ViewsSpec => PlaybackShowsAll
<1> DEFINE Shown == isPlaying /\ ~isPlaying' /\ vPlayed # {} /\ vPlayed' # {} => visible \subseteq vPlayed
<1>1. ViewsInv /\ [ViewsNext]_viewVars => [Shown]_viewVars
  <2> SUFFICES ASSUME ViewsInv, ViewsNext, isPlaying, ~isPlaying', vPlayed # {}, vPlayed' # {}
               PROVE  visible \subseteq vPlayed
    OBVIOUS
  <2>1. Tick
    BY DEF ViewsNext, Arrive, ToggleMode, SwitchTab, PressPlay, ClickDot, Scrub, CloseDetail,
           ChooseArtifact, timeline
  <2>2. ViewsTypeOK /\ selectedSeq \in visible /\ \A t \in visible : t <= selectedSeq => t \in vPlayed
    BY DEF ViewsInv, PlayInv
  <2>3. selectedSeq # NoSeq /\ visible \subseteq Nat
    BY <2>2, ViewsTyped
  <2>4. AdvancedFrom(selectedSeq) = selectedSeq
    BY <2>1, <2>3 DEF Tick
  <2>5. \A t \in visible : t <= selectedSeq
    <3>1. visible # {}
      BY <2>2
    <3> QED
      BY <2>2, <2>3, <2>4, <3>1, Advances
  <2> QED
    BY <2>2, <2>5
<1> QED
  BY <1>1, ViewsInvariant, PTL DEF ViewsSpec, PlaybackShowsAll
-----------------------------------------------------------------------------
(* Sharing: the inductive invariant.                                        *)

\* What the table shows or a fetch has read of a link that was so once: a link
\* has its row once its POST was served, and stays revoked.
LinkInv ==
    \A l \in ShareLinks :
        /\ sPost[l] \in {"none", "sent"} => sRow[l] = "none"
        /\ sTable[l] # "none" => sRow[l] # "none"
        /\ \A f \in Fetches :
              /\ sFetch[f].rows[l] # "none" => sRow[l] # "none"
              /\ sFetch[f].rows[l] = "revoked" => sRow[l] = "revoked"

DeleteInv ==
    \A d \in Deletes :
        /\ sDelete[d].at # "idle" => sDelete[d].link \in ShareLinks /\ sRow[sDelete[d].link] # "none"
        /\ sDelete[d].at = "revoked" => sRow[sDelete[d].link] = "revoked"

\* The links asked for, and those the dialog waits for.
AskedLinks == {l \in ShareLinks : sPost[l] # "none"}
WaitingLinks == {l \in ShareLinks : sPost[l] \in {"sent", "inserted"}}

DialogInv ==
    /\ IsFiniteSet(AskedLinks) /\ Cardinality(AskedLinks) <= sOpenings
    /\ sLoading <=> WaitingLinks # {}
    /\ \A l, m \in WaitingLinks : l = m
    /\ sOpen => sLoading \/ sError \/ sShown # NoLink

SharingInv == SharingTypeOK /\ LinkInv /\ DeleteInv /\ RevokedShownIsShut /\ DialogInv

LEMMA SharingConstants == MaxOpenings \in Nat /\ NoLink \notin ShareLinks
  BY SharingAssumption

\* Rows and answers, one by one.
LEMMA SharingTyped ==
    ASSUME SharingTypeOK
    PROVE  /\ sRow \in [ShareLinks -> RowStates] /\ sTable \in [ShareLinks -> RowStates]
           /\ \A l \in ShareLinks : sRow[l] \in RowStates /\ sTable[l] \in RowStates
           /\ \A f \in Fetches : /\ sFetch[f].at \in {"idle", "sent", "read"}
                                 /\ sFetch[f].rows \in [ShareLinks -> RowStates]
                                 /\ sFetch[f] = [at |-> sFetch[f].at, rows |-> sFetch[f].rows]
           /\ DOMAIN sFetch = Fetches
           /\ NoRows \in [ShareLinks -> RowStates]
<1>1. sRow \in [ShareLinks -> RowStates] /\ sTable \in [ShareLinks -> RowStates]
  BY DEF SharingTypeOK
<1>2. NoRows \in [ShareLinks -> RowStates]
  BY DEF NoRows, RowStates
<1>3. sFetch \in [Fetches -> [at : {"idle", "sent", "read"}, rows : [ShareLinks -> RowStates]]]
  BY DEF SharingTypeOK
<1> QED
  BY <1>1, <1>2, <1>3

LEMMA SharingStart == SharingInit => SharingInv
<1> SUFFICES ASSUME SharingInit PROVE SharingInv
  OBVIOUS
<1> USE DEF SharingInit
<1>1. SharingTypeOK
  <2>1. NoRows \in [ShareLinks -> RowStates] /\ 0 \in 0..MaxOpenings
    BY SharingConstants DEF NoRows, RowStates
  <2>2. /\ sFetch \in [Fetches -> [at : {"idle", "sent", "read"}, rows : [ShareLinks -> RowStates]]]
        /\ sDelete \in [Deletes -> [link : ShareLinks \cup {NoLink},
                         at : {"idle", "sent", "found", "refused", "revoked", "over"}]]
    BY <2>1
  <2>3. /\ sRow \in [ShareLinks -> RowStates] /\ sTable \in [ShareLinks -> RowStates]
        /\ sPost \in [ShareLinks -> {"none", "sent", "inserted", "over"}]
        /\ sView \in [Viewers -> {"idle", "admitted", "answered"}]
    BY <2>1
  <2> QED
    BY <2>1, <2>2, <2>3 DEF SharingTypeOK
<1>2. LinkInv /\ DeleteInv
  BY DEF LinkInv, DeleteInv, NoRows
<1>3. RevokedShownIsShut
  BY DEF RevokedShownIsShut, NoRows
<1>4. DialogInv
  <2>1. AskedLinks = {} /\ WaitingLinks = {}
    BY DEF AskedLinks, WaitingLinks
  <2> QED
    BY <2>1, FS_EmptySet DEF DialogInv
<1> QED
  BY <1>1, <1>2, <1>3, <1>4 DEF SharingInv

\* Steps that leave rows, table, revocations and fetches alone ...
LEMMA TableUntouched ==
    ASSUME SharingInv, UNCHANGED <<sRow, tableVars>>,
           \A l \in ShareLinks : sPost'[l] \in {"none", "sent"} => sPost[l] \in {"none", "sent"}
    PROVE  LinkInv' /\ DeleteInv' /\ RevokedShownIsShut'
  BY DEF SharingInv, LinkInv, DeleteInv, RevokedShownIsShut, tableVars

\* ... and those that leave the dialog alone.
LEMMA DialogUntouched ==
    ASSUME SharingInv, UNCHANGED dialogVars
    PROVE  DialogInv'
  BY DEF SharingInv, DialogInv, AskedLinks, WaitingLinks, dialogVars

-----------------------------------------------------------------------------
(* Sharing: every step keeps the invariant.                                 *)

\* An opening asks for one link, and only when none is awaited.
LEMMA OpenShareKeeps ==
    ASSUME SharingInv, OpenShare PROVE SharingInv'
<1>1. UNCHANGED <<sRow, sExpired, tableVars, sView, sShown, sError>>
  BY DEF OpenShare
<1>2. /\ sOpen' = TRUE /\ sOpenings' = sOpenings + 1 /\ sOpenings < MaxOpenings
      /\ sOpenings \in 0..MaxOpenings /\ sOpenings' \in 0..MaxOpenings
  BY SharingConstants DEF OpenShare, SharingInv, SharingTypeOK
<1>3. sPost \in [ShareLinks -> {"none", "sent", "inserted", "over"}] /\ sLoading \in BOOLEAN
  BY DEF SharingInv, SharingTypeOK
<1>4. CASE Generates
  <2>1. PICK l \in ShareLinks : sPost[l] = "none" /\ sPost' = [sPost EXCEPT ![l] = "sent"]
    BY <1>4 DEF OpenShare
  <2>2. sLoading' = TRUE /\ ~sLoading
    BY <1>4 DEF OpenShare, Generates
  <2>3. AskedLinks' = AskedLinks \cup {l} /\ l \notin AskedLinks
    BY <1>3, <2>1 DEF AskedLinks
  <2>4. WaitingLinks' = WaitingLinks \cup {l} /\ WaitingLinks = {}
    BY <1>3, <2>1, <2>2 DEF WaitingLinks, SharingInv, DialogInv
  <2>5. IsFiniteSet(AskedLinks') /\ Cardinality(AskedLinks') <= sOpenings'
    <3>1. IsFiniteSet(AskedLinks) /\ Cardinality(AskedLinks) <= sOpenings
      BY DEF SharingInv, DialogInv
    <3>2. IsFiniteSet(AskedLinks') /\ Cardinality(AskedLinks') = Cardinality(AskedLinks) + 1
      BY <2>3, <3>1, FS_AddElement
    <3>3. Cardinality(AskedLinks) \in Nat
      BY <3>1, FS_CardinalityType
    <3> QED
      BY <1>2, <3>1, <3>2, <3>3
  <2>6. DialogInv'
    BY <1>2, <2>2, <2>4, <2>5 DEF DialogInv
  <2>7. LinkInv' /\ DeleteInv' /\ RevokedShownIsShut'
    BY <1>1, <1>3, <2>1, TableUntouched
  <2>8. SharingTypeOK'
    BY <1>1, <1>2, <1>3, <2>1, <2>2 DEF SharingInv, SharingTypeOK, tableVars
  <2> QED
    BY <2>6, <2>7, <2>8 DEF SharingInv
<1>5. CASE ~Generates
  <2>1. UNCHANGED <<sPost, sLoading>> /\ (sLoading \/ sError' \/ sShown' # NoLink)
    BY <1>2, <1>5 DEF OpenShare, Generates
  <2>2. DialogInv'
    <3>1. AskedLinks' = AskedLinks /\ WaitingLinks' = WaitingLinks
      BY <2>1 DEF AskedLinks, WaitingLinks
    <3>2. /\ IsFiniteSet(AskedLinks) /\ Cardinality(AskedLinks) <= sOpenings
          /\ Cardinality(AskedLinks) \in Nat
      BY FS_CardinalityType DEF SharingInv, DialogInv
    <3> QED
      BY <1>1, <1>2, <2>1, <3>1, <3>2 DEF SharingInv, DialogInv
  <2>3. LinkInv' /\ DeleteInv' /\ RevokedShownIsShut'
    BY <1>1, <2>1, TableUntouched
  <2>4. SharingTypeOK'
    BY <1>1, <1>2, <2>1 DEF SharingInv, SharingTypeOK, tableVars
  <2> QED
    BY <2>2, <2>3, <2>4 DEF SharingInv
<1> QED
  BY <1>4, <1>5

LEMMA CloseShareKeeps ==
    ASSUME SharingInv, CloseShare PROVE SharingInv'
<1> USE DEF CloseShare
<1>1. SharingTypeOK'
  BY DEF SharingInv, SharingTypeOK, tableVars
<1>2. DialogInv'
  BY DEF SharingInv, DialogInv, AskedLinks, WaitingLinks
<1>3. LinkInv' /\ DeleteInv' /\ RevokedShownIsShut'
  BY TableUntouched
<1> QED
  BY <1>1, <1>2, <1>3 DEF SharingInv

\* A link that is made was neither in the table nor to be revoked.
LEMMA CreateLinkKeeps ==
    ASSUME SharingInv, NEW l \in ShareLinks, CreateLink(l) PROVE SharingInv'
<1>1. /\ sPost[l] = "sent" /\ sPost' = [sPost EXCEPT ![l] = "inserted"]
      /\ sRow' = [sRow EXCEPT ![l] = "live"]
      /\ UNCHANGED <<sExpired, sOpen, sShown, sLoading, sError, sOpenings, tableVars, sView>>
  BY DEF CreateLink
<1>2. /\ sRow \in [ShareLinks -> RowStates]
      /\ sPost \in [ShareLinks -> {"none", "sent", "inserted", "over"}]
  BY DEF SharingInv, SharingTypeOK
<1>3. sRow[l] = "none" /\ sTable[l] = "none"
  BY <1>1 DEF SharingInv, LinkInv
<1>4. SharingTypeOK'
  BY <1>1, <1>2 DEF SharingInv, SharingTypeOK, tableVars, RowStates
<1>5. LinkInv'
  BY <1>1, <1>2, <1>3 DEF SharingInv, LinkInv, tableVars
<1>6. DeleteInv'
  BY <1>1, <1>2, <1>3 DEF SharingInv, DeleteInv, tableVars
<1>7. RevokedShownIsShut'
  BY <1>1, <1>2, <1>3 DEF SharingInv, RevokedShownIsShut, tableVars
<1>8. DialogInv'
  <2>1. AskedLinks' = AskedLinks /\ WaitingLinks' = WaitingLinks
    BY <1>1, <1>2 DEF AskedLinks, WaitingLinks
  <2> QED
    BY <1>1, <2>1 DEF SharingInv, DialogInv
<1> QED
  BY <1>4, <1>5, <1>6, <1>7, <1>8 DEF SharingInv

LEMMA LinkArrivesKeeps ==
    ASSUME SharingInv, NEW l \in ShareLinks, LinkArrives(l) PROVE SharingInv'
<1>1. /\ sPost[l] \in {"sent", "inserted"} /\ sPost' = [sPost EXCEPT ![l] = "over"] /\ sLoading' = FALSE
      /\ UNCHANGED <<sRow, sExpired, sOpen, sOpenings, tableVars, sView>>
      /\ \/ sShown' = l /\ sError' = sError
         \/ sError' = TRUE /\ sShown' = sShown
  BY DEF LinkArrives
<1>2. sPost \in [ShareLinks -> {"none", "sent", "inserted", "over"}]
  BY DEF SharingInv, SharingTypeOK
<1>3. SharingTypeOK'
  BY <1>1, <1>2 DEF SharingInv, SharingTypeOK, tableVars
<1>4. LinkInv' /\ DeleteInv' /\ RevokedShownIsShut'
  BY <1>1, <1>2, TableUntouched
<1>5. DialogInv'
  <2>1. AskedLinks' = AskedLinks /\ WaitingLinks' = WaitingLinks \ {l} /\ l \in WaitingLinks
    BY <1>1, <1>2 DEF AskedLinks, WaitingLinks
  <2>2. WaitingLinks' = {}
    BY <2>1 DEF SharingInv, DialogInv
  <2> QED
    BY <1>1, <2>1, <2>2, SharingConstants DEF SharingInv, DialogInv
<1> QED
  BY <1>3, <1>4, <1>5 DEF SharingInv

LEMMA OpenTableKeeps ==
    ASSUME SharingInv, OpenTable PROVE SharingInv'
<1>1. /\ sFetch' = [sFetch EXCEPT ![NoLink].at = "sent"]
      /\ UNCHANGED <<sRow, sExpired, dialogVars, sTable, sRevoking, sDelete, sLost, sView>>
  BY DEF OpenTable
<1>2. /\ \A f \in Fetches : sFetch'[f].rows = sFetch[f].rows /\ (sFetch[f].at # "idle" => sFetch'[f].at # "idle")
      /\ sFetch' \in [Fetches -> [at : {"idle", "sent", "read"}, rows : [ShareLinks -> RowStates]]]
  BY <1>1 DEF SharingInv, SharingTypeOK, Fetches
<1>3. SharingTypeOK'
  BY <1>1, <1>2 DEF SharingInv, SharingTypeOK, dialogVars
<1>4. LinkInv' /\ DeleteInv'
  BY <1>1, <1>2 DEF SharingInv, LinkInv, DeleteInv, dialogVars
<1>5. RevokedShownIsShut'
  BY <1>1, <1>2 DEF SharingInv, RevokedShownIsShut, Fetches
<1> QED
  BY <1>1, <1>3, <1>4, <1>5, DialogUntouched DEF SharingInv

LEMMA ReadLinksKeeps ==
    ASSUME SharingInv, NEW f \in Fetches, ReadLinks(f) PROVE SharingInv'
<1>1. /\ sFetch[f].at = "sent" /\ sFetch' = [sFetch EXCEPT ![f] = [at |-> "read", rows |-> sRow]]
      /\ UNCHANGED <<sRow, sExpired, dialogVars, sTable, sRevoking, sDelete, sLost, sView>>
  BY DEF ReadLinks
<1>2. /\ \A g \in Fetches : sFetch'[g].rows \in {sFetch[g].rows, sRow} /\ (sFetch[g].at # "idle" => sFetch'[g].at # "idle")
      /\ sFetch' \in [Fetches -> [at : {"idle", "sent", "read"}, rows : [ShareLinks -> RowStates]]]
  BY <1>1 DEF SharingInv, SharingTypeOK
<1>3. SharingTypeOK'
  BY <1>1, <1>2 DEF SharingInv, SharingTypeOK, dialogVars
<1>4. LinkInv'
  <2>1. \A l \in ShareLinks, g \in Fetches :
            \/ sFetch'[g].rows[l] = sFetch[g].rows[l]
            \/ sFetch'[g].rows[l] = sRow[l]
    BY <1>2
  <2> QED
    BY <1>1, <2>1 DEF SharingInv, LinkInv, dialogVars
<1>5. DeleteInv'
  BY <1>1 DEF SharingInv, DeleteInv
<1>6. RevokedShownIsShut'
  BY <1>1, <1>2 DEF SharingInv, RevokedShownIsShut, Fetches
<1> QED
  BY <1>1, <1>3, <1>4, <1>5, <1>6, DialogUntouched DEF SharingInv

\* The rows that replace the table show as revoked what is so for good.
LEMMA LinksArriveKeeps ==
    ASSUME SharingInv, NEW f \in Fetches, LinksArrive(f) PROVE SharingInv'
<1>1. /\ sFetch' = [sFetch EXCEPT ![f] = [at |-> "idle", rows |-> NoRows]]
      /\ \/ sTable' = sFetch[f].rows /\ sLost' = sLost
         \/ sLost' = TRUE /\ sTable' = sTable
      /\ UNCHANGED <<sRow, sExpired, dialogVars, sRevoking, sDelete, sView>>
  BY DEF LinksArrive
<1>2. /\ \A g \in Fetches : sFetch'[g].rows \in {sFetch[g].rows, NoRows}
      /\ sFetch' \in [Fetches -> [at : {"idle", "sent", "read"}, rows : [ShareLinks -> RowStates]]]
  BY <1>1, SharingTyped DEF SharingInv, SharingTypeOK
<1>3. SharingTypeOK'
  BY <1>1, <1>2, SharingTyped DEF SharingInv, SharingTypeOK, dialogVars
<1>4. LinkInv'
  <2>1. \A l \in ShareLinks, g \in Fetches :
            \/ sFetch'[g].rows[l] = sFetch[g].rows[l]
            \/ sFetch'[g].rows[l] = "none"
    BY <1>2 DEF NoRows
  <2> QED
    BY <1>1, <2>1 DEF SharingInv, LinkInv, dialogVars
<1>5. DeleteInv'
  BY <1>1 DEF SharingInv, DeleteInv
<1>6. RevokedShownIsShut'
  BY <1>1 DEF SharingInv, LinkInv, RevokedShownIsShut
<1> QED
  BY <1>1, <1>3, <1>4, <1>5, <1>6, DialogUntouched DEF SharingInv

\* The link is shown as revoked with its DELETE under way.
LEMMA HandleRevokeKeeps ==
    ASSUME SharingInv, NEW d \in Deletes, NEW l \in ShareLinks, HandleRevoke(d, l) PROVE SharingInv'
<1>1. /\ sDelete[d].at = "idle" /\ sFetch[d].at = "idle" /\ sTable[l] = "live"
      /\ sRevoking' = l /\ sTable' = [sTable EXCEPT ![l] = "revoked"]
      /\ sDelete' = [sDelete EXCEPT ![d] = [link |-> l, at |-> "sent"]]
      /\ UNCHANGED <<sRow, sExpired, dialogVars, sFetch, sLost, sView>>
  BY DEF HandleRevoke
<1>2. /\ sTable \in [ShareLinks -> RowStates]
      /\ sDelete \in [Deletes -> [link : ShareLinks \cup {NoLink},
                       at : {"idle", "sent", "found", "refused", "revoked", "over"}]]
  BY DEF SharingInv, SharingTypeOK
<1>3. SharingTypeOK'
  BY <1>1, <1>2 DEF SharingInv, SharingTypeOK, dialogVars, RowStates
<1>4. LinkInv'
  BY <1>1, <1>2 DEF SharingInv, LinkInv, dialogVars
<1>5. DeleteInv'
  BY <1>1, <1>2 DEF SharingInv, DeleteInv, LinkInv
<1>6. RevokedShownIsShut'
  BY <1>1, <1>2 DEF SharingInv, RevokedShownIsShut
<1> QED
  BY <1>1, <1>3, <1>4, <1>5, <1>6, DialogUntouched DEF SharingInv

\* A DELETE ends with the row revoked, or with a fetch on its way.
LEMMA DeleteKeeps ==
    ASSUME SharingInv, NEW d \in Deletes, DeleteFinds(d) \/ DeleteRevokes(d) \/ DeleteSettles(d)
    PROVE  SharingInv'
<1>1. UNCHANGED <<sExpired, dialogVars, sTable, sLost, sView>>
  BY DEF DeleteFinds, DeleteRevokes, DeleteSettles
<1>2. /\ sRow \in [ShareLinks -> RowStates] /\ sRevoking \in ShareLinks \cup {NoLink}
      /\ sFetch \in [Fetches -> [at : {"idle", "sent", "read"}, rows : [ShareLinks -> RowStates]]]
      /\ sDelete \in [Deletes -> [link : ShareLinks \cup {NoLink},
                       at : {"idle", "sent", "found", "refused", "revoked", "over"}]]
      /\ d \in Fetches
  BY DEF SharingInv, SharingTypeOK, Fetches
<1>3. CASE DeleteFinds(d)
  <2>1. /\ sDelete[d].at = "sent" /\ UNCHANGED <<sRow, sRevoking, sFetch>>
        /\ \E at \in {"found", "refused"} : sDelete' = [sDelete EXCEPT ![d].at = at]
    BY <1>3 DEF DeleteFinds
  <2>2. SharingTypeOK'
    BY <1>1, <1>2, <2>1 DEF SharingInv, SharingTypeOK, dialogVars
  <2>3. LinkInv' /\ DeleteInv'
    BY <1>1, <1>2, <2>1 DEF SharingInv, LinkInv, DeleteInv, dialogVars
  <2>4. RevokedShownIsShut'
    BY <1>1, <1>2, <2>1 DEF SharingInv, RevokedShownIsShut
  <2> QED
    BY <1>1, <2>2, <2>3, <2>4, DialogUntouched DEF SharingInv
<1>4. CASE DeleteRevokes(d)
  <2>1. /\ sDelete[d].at = "found" /\ UNCHANGED <<sRevoking, sFetch>>
        /\ sRow' = [sRow EXCEPT ![sDelete[d].link] = "revoked"]
        /\ sDelete' = [sDelete EXCEPT ![d].at = "revoked"]
    BY <1>4 DEF DeleteRevokes
  <2>2. sDelete[d].link \in ShareLinks /\ sRow[sDelete[d].link] # "none"
    BY <2>1 DEF SharingInv, DeleteInv
  <2>3. /\ sRow'[sDelete[d].link] = "revoked"
        /\ \A l \in ShareLinks : sRow'[l] \in {sRow[l], "revoked"} /\ (sRow[l] = "none" => sRow'[l] = "none")
    BY <1>2, <2>1, <2>2
  <2>4. SharingTypeOK'
    BY <1>1, <1>2, <2>1, <2>2 DEF SharingInv, SharingTypeOK, dialogVars, RowStates
  <2>5. LinkInv'
    BY <1>1, <2>1, <2>3 DEF SharingInv, LinkInv, dialogVars
  <2>6. DeleteInv'
    BY <1>2, <2>1, <2>2, <2>3 DEF SharingInv, DeleteInv
  <2>7. RevokedShownIsShut'
    BY <1>1, <1>2, <2>1, <2>2, <2>3 DEF SharingInv, RevokedShownIsShut
  <2> QED
    BY <1>1, <2>4, <2>5, <2>6, <2>7, DialogUntouched DEF SharingInv
<1>5. CASE DeleteSettles(d)
  <2>1. /\ sDelete[d].at # "idle" /\ sRevoking' = NoLink /\ sRow' = sRow
        /\ sDelete' = [sDelete EXCEPT ![d].at = "over"]
        /\ \/ sDelete[d].at = "revoked" /\ sFetch' = sFetch
           \/ sFetch' = [sFetch EXCEPT ![d].at = "sent"]
    BY <1>5 DEF DeleteSettles
  <2>2. /\ \A g \in Fetches : sFetch'[g].rows = sFetch[g].rows /\ (sFetch[g].at # "idle" => sFetch'[g].at # "idle")
        /\ sFetch' \in [Fetches -> [at : {"idle", "sent", "read"}, rows : [ShareLinks -> RowStates]]]
        /\ sDelete[d].at = "revoked" \/ sFetch'[d].at # "idle"
    <3>1. CASE sDelete[d].at = "revoked" /\ sFetch' = sFetch
      BY <1>2, <3>1
    <3>2. CASE sFetch' = [sFetch EXCEPT ![d].at = "sent"]
      <4>1. sFetch'[d].at = "sent" /\ sFetch'[d].rows = sFetch[d].rows
        BY <1>2, <3>2
      <4>2. \A g \in Fetches : g # d => sFetch'[g] = sFetch[g]
        BY <1>2, <3>2
      <4>3. sFetch' \in [Fetches -> [at : {"idle", "sent", "read"}, rows : [ShareLinks -> RowStates]]]
        BY <1>2, <3>2
      <4> QED
        BY <4>1, <4>2, <4>3
    <3> QED
      BY <2>1, <3>1, <3>2
  <2>3. SharingTypeOK'
    BY <1>1, <1>2, <2>1, <2>2 DEF SharingInv, SharingTypeOK, dialogVars
  <2>4. LinkInv' /\ DeleteInv'
    BY <1>1, <1>2, <2>1, <2>2 DEF SharingInv, LinkInv, DeleteInv, dialogVars
  <2>5. RevokedShownIsShut'
    BY <1>1, <1>2, <2>1, <2>2 DEF SharingInv, RevokedShownIsShut, DeleteInv, Fetches
  <2> QED
    BY <1>1, <2>3, <2>4, <2>5, DialogUntouched DEF SharingInv
<1> QED
  BY <1>3, <1>4, <1>5

\* Expiry and the replay page read the links only.
LEMMA ReplayKeeps ==
    ASSUME SharingInv,
           \/ \E l \in ShareLinks : Expire(l)
           \/ \E v \in Viewers : \/ ReadEvents(v) \/ ShowReplay(v)
                                 \/ \E l \in ShareLinks : LookUp(v, l)
    PROVE  SharingInv'
<1>1. /\ UNCHANGED <<sRow, dialogVars, tableVars>> /\ sExpired' \subseteq ShareLinks
      /\ sView' \in [Viewers -> {"idle", "admitted", "answered"}]
  BY DEF Expire, ReadEvents, ShowReplay, LookUp, Views, SharingInv, SharingTypeOK
<1>2. SharingTypeOK'
  BY <1>1 DEF SharingInv, SharingTypeOK, dialogVars, tableVars
<1>3. sPost' = sPost
  BY <1>1 DEF dialogVars
<1>4. LinkInv' /\ DeleteInv' /\ RevokedShownIsShut'
  BY <1>1, <1>3, TableUntouched
<1> QED
  BY <1>1, <1>2, <1>4, DialogUntouched DEF SharingInv

LEMMA SharingInvariant == SharingSpec => []SharingInv
<1>1. SharingInit => SharingInv
  BY SharingStart
<1>2. SharingInv /\ [SharingNext]_shareVars => SharingInv'
  <2> SUFFICES ASSUME SharingInv, [SharingNext]_shareVars PROVE SharingInv'
    OBVIOUS
  <2>1. CASE OpenShare \/ CloseShare \/ OpenTable
    BY <2>1, OpenShareKeeps, CloseShareKeeps, OpenTableKeeps
  <2>2. ASSUME NEW l \in ShareLinks, CreateLink(l) \/ LinkArrives(l) \/ Expire(l) PROVE SharingInv'
    BY <2>2, CreateLinkKeeps, LinkArrivesKeeps, ReplayKeeps
  <2>3. ASSUME NEW f \in Fetches, ReadLinks(f) \/ LinksArrive(f) PROVE SharingInv'
    BY <2>3, ReadLinksKeeps, LinksArriveKeeps
  <2>4. ASSUME NEW d \in Deletes,
               \/ DeleteFinds(d) \/ DeleteRevokes(d) \/ DeleteSettles(d)
               \/ \E l \in ShareLinks : HandleRevoke(d, l)
        PROVE  SharingInv'
    BY <2>4, DeleteKeeps, HandleRevokeKeeps
  <2>5. ASSUME NEW v \in Viewers,
               ReadEvents(v) \/ ShowReplay(v) \/ \E l \in ShareLinks : LookUp(v, l)
        PROVE  SharingInv'
    BY <2>5, ReplayKeeps
  <2>6. CASE UNCHANGED shareVars
    <3>1. UNCHANGED <<sRow, sExpired, dialogVars, tableVars, sView>> /\ sPost' = sPost
      BY <2>6 DEF shareVars, dialogVars
    <3>2. LinkInv' /\ DeleteInv' /\ RevokedShownIsShut'
      BY <3>1, TableUntouched
    <3>3. SharingTypeOK'
      BY <3>1 DEF SharingInv, SharingTypeOK, dialogVars, tableVars
    <3> QED
      BY <3>1, <3>2, <3>3, DialogUntouched DEF SharingInv
  <2> QED
    BY <2>1, <2>2, <2>3, <2>4, <2>5, <2>6 DEF SharingNext
<1> QED
  BY <1>1, <1>2, PTL DEF SharingSpec

\* Type correctness of the dialog, the table and the routes.
THEOREM SharingTypeCorrect == SharingSpec => []SharingTypeOK
<1>1. SharingInv => SharingTypeOK
  BY DEF SharingInv
<1> QED
  BY <1>1, SharingInvariant, PTL

\* handleRevoke: a link shown as revoked is shut, unless its DELETE or the fetch
\* after a failed one is under way, or a fetch was lost.
THEOREM RevokedIsShut == SharingSpec => []RevokedShownIsShut
<1>1. SharingInv => RevokedShownIsShut
  BY DEF SharingInv
<1> QED
  BY <1>1, SharingInvariant, PTL

\* ShareDialog: however it is closed and reopened while requests are under way,
\* it makes at most one link per opening and never waits for two.
THEOREM OneLinkEachOpening == SharingSpec => []OneLinkPerOpening
<1>1. SharingInv => OneLinkPerOpening
  <2> SUFFICES ASSUME SharingInv PROVE OneLinkPerOpening
    OBVIOUS
  <2>1. Cardinality(WaitingLinks) <= 1
    <3>1. CASE WaitingLinks = {}
      BY <3>1, FS_EmptySet
    <3>2. ASSUME NEW l \in WaitingLinks PROVE Cardinality(WaitingLinks) = 1
      <4>1. WaitingLinks = {l}
        BY DEF SharingInv, DialogInv
      <4> QED
        BY <4>1, FS_Singleton
    <3> QED
      BY <3>1, <3>2
  <2> QED
    BY <2>1 DEF SharingInv, DialogInv, OneLinkPerOpening, AskedLinks, WaitingLinks
<1> QED
  BY <1>1, SharingInvariant, PTL

-----------------------------------------------------------------------------
(* History: offsets, and the places of runs in the list.                    *)

LEMMA HistoryConstants == MaxHistory \in Nat \ {0} /\ PAGE_SIZE \in Nat \ {0}
  BY HistoryAssumption

\* An offset is a number of pages.
LEMMA PagesSkipped ==
    ASSUME NEW o \in Offsets
    PROVE  \E k \in Nat : o = PAGE_SIZE * k
<1>1. /\ o \in Nat /\ o = PAGE_SIZE * (o \div PAGE_SIZE) + (o % PAGE_SIZE) /\ o % PAGE_SIZE = 0
      /\ o \div PAGE_SIZE \in Int
  BY HistoryConstants DEF Offsets
<1>2. o \div PAGE_SIZE \in Nat
  BY <1>1, HistoryConstants
<1>3. o = PAGE_SIZE * (o \div PAGE_SIZE)
  BY <1>1, HistoryConstants
<1> QED
  BY <1>2, <1>3

LEMMA PageBefore ==
    /\ Offsets \subseteq Nat /\ 0 \in Offsets
    /\ \A o \in Offsets : o # 0 => o - PAGE_SIZE \in Offsets
    /\ \A o, p \in Offsets : p < o => p <= o - PAGE_SIZE
<1>1. Offsets \subseteq Nat /\ 0 \in Offsets
  BY HistoryConstants DEF Offsets
<1>2. ASSUME NEW k \in Nat, NEW m \in Nat, PAGE_SIZE * k < PAGE_SIZE * m
      PROVE  PAGE_SIZE * k <= PAGE_SIZE * m - PAGE_SIZE
  <2>1. k < m
    BY <1>2, HistoryConstants
  <2>2. k + 1 <= m
    BY <2>1
  <2> QED
    BY <2>2, HistoryConstants
<1>3. ASSUME NEW o \in Offsets, NEW p \in Offsets, p < o PROVE p <= o - PAGE_SIZE
  <2>1. PICK k \in Nat : p = PAGE_SIZE * k
    BY PagesSkipped
  <2>2. PICK m \in Nat : o = PAGE_SIZE * m
    BY PagesSkipped
  <2> QED
    BY <1>2, <1>3, <2>1, <2>2
<1>4. ASSUME NEW o \in Offsets, o # 0 PROVE o - PAGE_SIZE \in Offsets
  <2>1. PICK m \in Nat : o = PAGE_SIZE * m
    BY PagesSkipped
  <2>2. m - 1 \in Nat
    BY <1>4, <2>1, HistoryConstants
  <2>3. PAGE_SIZE * (m - 1) = o - PAGE_SIZE /\ PAGE_SIZE * (m - 1) >= 0
    BY <2>1, <2>2, HistoryConstants
  <2>4. (PAGE_SIZE * (m - 1)) % PAGE_SIZE = 0
    BY <2>2, HistoryConstants
  <2>5. o - PAGE_SIZE \in 0..(MaxHistory - 1) /\ (o - PAGE_SIZE) % PAGE_SIZE = 0
    BY <1>1, <2>2, <2>3, <2>4, HistoryConstants DEF Offsets
  <2> QED
    BY <2>5 DEF Offsets
<1> QED
  BY <1>1, <1>3, <1>4

\* The place of r among the numbers in S: how many are greater.
Above(S, r) == Cardinality({t \in S : t > r})

LEMMA Bounded ==
    ASSUME NEW n \in Nat, NEW S, S \subseteq 1..n
    PROVE  IsFiniteSet(S) /\ Cardinality(S) \in 0..n
<1>1. IsFiniteSet(1..n) /\ Cardinality(1..n) = n
  BY FS_Interval
<1>2. IsFiniteSet(S) /\ Cardinality(S) <= n
  BY <1>1, FS_Subset
<1> QED
  BY <1>2, FS_CardinalityType

LEMMA AboveType ==
    ASSUME NEW n \in Nat, NEW S, S \subseteq 1..n, NEW r
    PROVE  IsFiniteSet({t \in S : t > r}) /\ Above(S, r) \in Nat
<1>2. IsFiniteSet(S)
  BY Bounded
<1>3. {t \in S : t > r} \in SUBSET S
  OBVIOUS
<1>4. IsFiniteSet({t \in S : t > r})
  BY <1>2, <1>3, FS_Subset
<1> QED
  BY <1>4, FS_CardinalityType DEF Above

LEMMA AboveGrows ==
    ASSUME NEW n \in Nat, NEW S, S \subseteq 1..n, NEW T, T \subseteq S, NEW r
    PROVE  Above(T, r) <= Above(S, r)
<1> DEFINE A == {t \in T : t > r}
           B == {t \in S : t > r}
<1>1. IsFiniteSet(B) /\ A \in SUBSET B
  BY AboveType
<1> HIDE DEF A, B
<1>2. Cardinality(A) <= Cardinality(B)
  BY <1>1, FS_Subset
<1> QED
  BY <1>2 DEF A, B, Above

LEMMA AboveFalls ==
    ASSUME NEW n \in Nat, NEW S, S \subseteq 1..n, NEW q \in S
    PROVE  /\ Above(S, q) < Cardinality(S)
           /\ \A r \in 1..n : r < q => Above(S, q) < Above(S, r)
<1> DEFINE A == {t \in S : t > q}
<1>1. IsFiniteSet(S) /\ IsFiniteSet(A) /\ q \notin A /\ Cardinality(A) \in Nat
  <2>1. q \in 1..n /\ q \notin A
    OBVIOUS
  <2>2. IsFiniteSet(S) /\ IsFiniteSet(A)
    BY Bounded, AboveType
  <2> HIDE DEF A
  <2> QED
    BY <2>1, <2>2, FS_CardinalityType
<1>2. ASSUME NEW B, IsFiniteSet(B), A \subseteq B, q \in B PROVE Cardinality(A) < Cardinality(B)
  <2>1. Cardinality(A) <= Cardinality(B) /\ (Cardinality(A) = Cardinality(B) => A = B)
    BY <1>2, FS_Subset
  <2>2. Cardinality(B) \in Nat
    BY <1>2, FS_CardinalityType
  <2> QED
    BY <1>1, <1>2, <2>1, <2>2
<1>3. Cardinality(A) < Cardinality(S)
  BY <1>1, <1>2
<1>4. ASSUME NEW r \in 1..n, r < q PROVE Cardinality(A) < Cardinality({t \in S : t > r})
  <2> DEFINE B == {t \in S : t > r}
  <2>1. IsFiniteSet(B) /\ q \in B
    BY <1>4, AboveType
  <2>2. A \subseteq B
    <3>1. \A t \in S : t > q => t > r
      BY <1>4
    <3> QED
      BY <3>1
  <2> HIDE DEF A, B
  <2>3. Cardinality(A) < Cardinality(B)
    BY <1>2, <2>1, <2>2
  <2> QED
    BY <2>3 DEF B
<1> QED
  BY <1>3, <1>4 DEF Above

\* A page has at most PAGE_SIZE rows: no two runs have the same place.
LEMMA PageFits ==
    ASSUME NEW n \in Nat, Matching \subseteq 1..n, NEW o \in Nat
    PROVE  Cardinality(RowsAt(o)) <= PAGE_SIZE
<1> DEFINE f == [r \in RowsAt(o) |-> Newer(r)]
           places == o..(o + PAGE_SIZE - 1)
<1>1. \A r : Newer(r) = Above(Matching, r)
  BY DEF Newer, Above
<1>2. f \in [RowsAt(o) -> places]
  BY DEF RowsAt
<1>3. ASSUME NEW r \in RowsAt(o), NEW q \in RowsAt(o), f[r] = f[q] PROVE r = q
  <2>1. r \in Matching /\ q \in Matching /\ r \in 1..n /\ q \in 1..n /\ Above(Matching, r) = Above(Matching, q)
    BY <1>1, <1>3 DEF RowsAt
  <2>2. Above(Matching, r) \in Nat /\ Above(Matching, q) \in Nat
    BY AboveType
  <2>3. r < q => Above(Matching, q) < Above(Matching, r)
    BY <2>1, AboveFalls
  <2>4. q < r => Above(Matching, r) < Above(Matching, q)
    BY <2>1, AboveFalls
  <2> QED
    BY <2>1, <2>2, <2>3, <2>4
<1>4. IsFiniteSet(places) /\ Cardinality(places) = PAGE_SIZE
  BY HistoryConstants, FS_Interval
<1>5. IsFiniteSet(RowsAt(o))
  <2>1. RowsAt(o) \subseteq 1..n
    BY DEF RowsAt
  <2> QED
    BY <2>1, Bounded
<1> HIDE DEF f, places
<1>6. ~(PAGE_SIZE < Cardinality(RowsAt(o)))
  BY <1>2, <1>3, <1>4, <1>5, FS_PigeonHole
<1> QED
  BY <1>5, <1>6, FS_CardinalityType, HistoryConstants

-----------------------------------------------------------------------------
(* History: the inductive invariant.                                        *)

\* All pages up to this one were read in order since the first was; the rows of
\* a page, as last read, and those of the pages up to this one.
Covered(o) == \A p \in Offsets : p <= o => p \in hFresh
RowsRead(p) == IF hQuery[p].at = "rows" THEN hQuery[p].rows ELSE hCache[p].rows
RunsRead(o) == UNION {RowsRead(p) : p \in {q \in Offsets : q <= o}}

\* A run that matched when the first page was read, and is on none of these
\* pages, has its place behind them, and the last page's total counts it.
Reached(o) ==
    \A r \in hBegan :
        \/ r \in RunsRead(o)
        \/ /\ Newer(r) >= o + PAGE_SIZE
           /\ hQuery[o].at # "rows" => hCache[o].total > o + PAGE_SIZE

BeganInv == hBegan \subseteq Matching
PageInv == \A o \in Offsets : /\ Cardinality(hCache[o].rows) <= PAGE_SIZE
                              /\ Cardinality(hQuery[o].rows) <= PAGE_SIZE
ReachInv == \A o \in Offsets : Covered(o) => Reached(o)

HistoryInv == HistoryTypeOK /\ BeganInv /\ PageInv /\ ReachInv

LEMMA HistoryTyped ==
    ASSUME HistoryTypeOK
    PROVE  /\ hRuns \in Seq(RunStatuses) /\ Len(hRuns) \in Nat /\ Len(hRuns) <= MaxHistory
           /\ DOMAIN hRuns = 1..Len(hRuns) /\ Matching \subseteq 1..Len(hRuns)
           /\ IsFiniteSet(Matching) /\ Cardinality(Matching) \in 0..MaxHistory
           /\ \A r : Newer(r) = Above(Matching, r) /\ Newer(r) \in Nat
           /\ \A o \in Offsets :
                /\ hQuery[o].at \in {"idle", "sent", "rows"} /\ hQuery[o].rows \subseteq DOMAIN hRuns
                /\ hQuery[o] = [at |-> hQuery[o].at, rows |-> hQuery[o].rows]
                /\ hCache[o] = [known |-> hCache[o].known, rows |-> hCache[o].rows, total |-> hCache[o].total]
                /\ hCache[o].known \in BOOLEAN /\ hCache[o].rows \subseteq DOMAIN hRuns
                /\ hCache[o].total \in 0..MaxHistory
<1>1. /\ hRuns \in Seq(RunStatuses) /\ Len(hRuns) \in Nat /\ Len(hRuns) <= MaxHistory
      /\ DOMAIN hRuns = 1..Len(hRuns)
  BY DEF HistoryTypeOK
<1>2. Matching \subseteq 1..Len(hRuns)
  BY <1>1 DEF Matching
<1>3. /\ IsFiniteSet(Matching) /\ Cardinality(Matching) \in 0..Len(hRuns)
      /\ \A r : Above(Matching, r) \in Nat
  BY <1>1, <1>2, Bounded, AboveType
<1>4. Cardinality(Matching) \in 0..MaxHistory
  BY <1>1, <1>3, HistoryConstants
<1>5. \A r : Newer(r) = Above(Matching, r)
  BY DEF Newer, Above
<1>6. /\ hCache \in [Offsets -> [known : BOOLEAN, rows : SUBSET (DOMAIN hRuns), total : 0..MaxHistory]]
      /\ hQuery \in [Offsets -> [at : {"idle", "sent", "rows"}, rows : SUBSET (DOMAIN hRuns)]]
  BY DEF HistoryTypeOK
<1> QED
  BY <1>1, <1>2, <1>3, <1>4, <1>5, <1>6

LEMMA HistoryStart == HistoryInit => HistoryInv
<1> SUFFICES ASSUME HistoryInit PROVE HistoryInv
  OBVIOUS
<1>1. /\ hRuns \in Seq(RunStatuses) /\ Len(hRuns) = MaxHistory - 1 /\ Len(hRuns) <= MaxHistory
  <2>1. hRuns = [r \in 1..(MaxHistory - 1) |-> "executing"] /\ MaxHistory - 1 \in Nat
    BY HistoryConstants DEF HistoryInit
  <2>2. hRuns \in [1..(MaxHistory - 1) -> RunStatuses] /\ DOMAIN hRuns = 1..(MaxHistory - 1)
    BY <2>1 DEF RunStatuses
  <2>3. hRuns \in Seq(RunStatuses)
    BY <2>1, <2>2
  <2>4. Len(hRuns) = MaxHistory - 1
    BY <2>1, <2>2, <2>3
  <2> QED
    BY <2>1, <2>3, <2>4, HistoryConstants
<1>2. 0 \in Offsets /\ 0 \in 0..MaxHistory
  BY PageBefore, HistoryConstants
<1>3. /\ hCache \in [Offsets -> [known : BOOLEAN, rows : SUBSET (DOMAIN hRuns), total : 0..MaxHistory]]
      /\ hQuery \in [Offsets -> [at : {"idle", "sent", "rows"}, rows : SUBSET (DOMAIN hRuns)]]
  BY <1>2 DEF HistoryInit, NoAnswer, NoQuery
<1>4. hFilter \in [statuses : SUBSET STATUSES, search : BOOLEAN, agent : BOOLEAN]
  BY DEF HistoryInit
<1>5. HistoryTypeOK
  BY <1>1, <1>2, <1>3, <1>4 DEF HistoryInit, HistoryTypeOK
<1>6. BeganInv /\ ReachInv
  BY DEF HistoryInit, BeganInv, ReachInv, Reached
<1>7. PageInv
  <2>1. \A o \in Offsets : hCache[o].rows = {} /\ hQuery[o].rows = {}
    BY DEF HistoryInit, NoAnswer, NoQuery
  <2> QED
    BY <2>1, FS_EmptySet, HistoryConstants DEF PageInv
<1> QED
  BY <1>5, <1>6, <1>7 DEF HistoryInv

\* Steps that read no page up to o: the list may only grow at its head.
LEMMA ReachedKept ==
    ASSUME HistoryInv, HistoryTypeOK', NEW o \in Offsets, Covered(o),
           hBegan' \subseteq hBegan, Matching \subseteq Matching',
           \A p \in Offsets : p <= o => RowsRead(p)' = RowsRead(p),
           hQuery'[o].at # "rows" => hQuery[o].at # "rows" /\ hCache'[o].total = hCache[o].total
    PROVE  Reached(o)'
<1>1. Reached(o) /\ HistoryTypeOK
  BY DEF HistoryInv, ReachInv
<1>2. RunsRead(o)' = RunsRead(o)
  BY DEF RunsRead
<1>3. ASSUME NEW r PROVE Newer(r)' >= Newer(r)
  <2>1. Newer(r) = Above(Matching, r) /\ Newer(r) \in Nat
    BY <1>1, HistoryTyped
  <2>2. Newer(r)' = Above(Matching', r)
    BY DEF Newer, Above
  <2>3. Len(hRuns') \in Nat /\ Matching' \subseteq 1..Len(hRuns')
    BY DEF HistoryTypeOK, Matching
  <2>4. Above(Matching, r) <= Above(Matching', r) /\ Above(Matching', r) \in Nat
    BY <2>3, AboveGrows, AboveType
  <2> QED
    BY <2>1, <2>2, <2>4
<1>4. \A r : Newer(r) \in Nat /\ Newer(r)' \in Nat
  <2>1. ASSUME NEW r PROVE Newer(r)' \in Nat
    <3>1. Newer(r)' = Above(Matching', r)
      BY DEF Newer, Above
    <3>2. Len(hRuns') \in Nat /\ Matching' \subseteq 1..Len(hRuns')
      BY DEF HistoryTypeOK, Matching
    <3> QED
      BY <3>1, <3>2, AboveType
  <2> QED
    BY <1>1, <2>1, HistoryTyped
<1>5. o \in Nat /\ PAGE_SIZE \in Nat
  BY PageBefore, HistoryConstants
<1>6. ASSUME NEW r \in hBegan' PROVE
        \/ r \in RunsRead(o)'
        \/ /\ Newer(r)' >= o + PAGE_SIZE
           /\ hQuery'[o].at # "rows" => hCache'[o].total > o + PAGE_SIZE
  <2>1. \/ r \in RunsRead(o)
        \/ /\ Newer(r) >= o + PAGE_SIZE
           /\ hQuery[o].at # "rows" => hCache[o].total > o + PAGE_SIZE
    BY <1>1 DEF Reached
  <2>2. Newer(r) >= o + PAGE_SIZE => Newer(r)' >= o + PAGE_SIZE
    BY <1>3, <1>4, <1>5
  <2> QED
    BY <1>2, <2>1, <2>2
<1> QED
  BY <1>6 DEF Reached

-----------------------------------------------------------------------------
(* History: every step keeps the invariant.                                 *)

\* Neither runs nor the filter change: the same runs match.
LEMMA SameMatches == hRuns' = hRuns /\ hFilter' = hFilter => Matching' = Matching /\ \A r : Newer(r)' = Newer(r)
  BY DEF Matching, Matches, Newer

LEMMA ReadRowsKeeps ==
    ASSUME HistoryInv, NEW o \in Offsets, ReadRows(o) PROVE HistoryInv'
<1>1. /\ hQuery[o].at = "sent"
      /\ hQuery' = [hQuery EXCEPT ![o] = [at |-> "rows", rows |-> RowsAt(o)]]
      /\ hFresh' = {p \in hFresh : p < o} \cup {o}
      /\ hBegan' = IF o = 0 THEN Matching ELSE hBegan
      /\ UNCHANGED <<hRuns, hFilter, hTyped, hTimer, hOffset, hCache, hStale>>
  BY DEF ReadRows, pageVars
<1>2. HistoryTypeOK /\ BeganInv /\ PageInv /\ ReachInv
  BY DEF HistoryInv
<1>3. /\ Matching' = Matching /\ \A r : Newer(r)' = Newer(r) /\ Newer(r) \in Nat
      /\ Matching \subseteq DOMAIN hRuns /\ RowsAt(o) \subseteq Matching
      /\ hQuery \in [Offsets -> [at : {"idle", "sent", "rows"}, rows : SUBSET (DOMAIN hRuns)]]
      /\ Offsets \subseteq Nat /\ PAGE_SIZE \in Nat \ {0}
  BY <1>1, <1>2, HistoryTyped, SameMatches, PageBefore, HistoryConstants DEF Matching, RowsAt, HistoryTypeOK
<1>4. HistoryTypeOK'
  <2>1. hQuery' \in [Offsets -> [at : {"idle", "sent", "rows"}, rows : SUBSET (DOMAIN hRuns)]]
    BY <1>1, <1>3
  <2>2. hFresh' \subseteq Offsets /\ hBegan' \subseteq DOMAIN hRuns
    BY <1>1, <1>2, <1>3 DEF HistoryTypeOK
  <2> QED
    BY <1>1, <1>2, <2>1, <2>2 DEF HistoryTypeOK
<1>5. BeganInv'
  BY <1>1, <1>2, <1>3 DEF BeganInv
<1>6. PageInv'
  <2>1. Cardinality(RowsAt(o)) <= PAGE_SIZE
    BY <1>2, <1>3, HistoryTyped, PageFits
  <2>2. \A p \in Offsets : hQuery'[p].rows \in {hQuery[p].rows, RowsAt(o)}
    BY <1>1, <1>3
  <2> QED
    BY <1>1, <1>2, <2>1, <2>2 DEF PageInv
<1>7. ASSUME NEW p \in Offsets, Covered(p)' PROVE Reached(p)'
  <2>1. /\ p <= o /\ p \in Nat /\ o \in Nat
        /\ \A q \in Offsets : q <= p => q = o \/ (q < o /\ q \in hFresh)
    <3>1. \A q \in Offsets : q <= p => q \in hFresh'
      BY <1>7 DEF Covered
    <3>2. p \in hFresh'
      BY <1>3, <1>7 DEF Covered
    <3> QED
      BY <1>1, <1>3, <3>1, <3>2
  <2>2. \A q \in Offsets : q # o => RowsRead(q)' = RowsRead(q) /\ hQuery'[q] = hQuery[q]
    BY <1>1, <1>3 DEF RowsRead
  <2>3. RowsRead(o)' = RowsAt(o) /\ hQuery'[o].at = "rows"
    BY <1>1, <1>3 DEF RowsRead
  <2>4. CASE p < o
    <3>1. /\ Covered(p) /\ \A q \in Offsets : q <= p => RowsRead(q)' = RowsRead(q)
          /\ hBegan' = hBegan /\ hQuery'[p] = hQuery[p] /\ hCache' = hCache
      BY <1>1, <1>3, <2>1, <2>2, <2>4 DEF Covered
    <3> QED
      BY <1>3, <1>4, <3>1, ReachedKept
  <2>5. CASE p = o
    <3> SUFFICES ASSUME NEW r \in hBegan' PROVE r \in RunsRead(o)' \/ Newer(r) >= o + PAGE_SIZE
      BY <1>3, <2>3, <2>5 DEF Reached
    <3>1. r \in Matching
      BY <1>1, <1>2 DEF BeganInv
    <3>2. RowsRead(o)' \subseteq RunsRead(o)'
      BY <2>1 DEF RunsRead
    <3>3. ASSUME Newer(r) >= o PROVE r \in RunsRead(o)' \/ Newer(r) >= o + PAGE_SIZE
      <4>1. CASE Newer(r) <= o + PAGE_SIZE - 1
        <5>1. Newer(r) \in o..(o + PAGE_SIZE - 1)
          BY <1>3, <2>1, <3>3, <4>1
        <5>2. r \in RowsAt(o)
          BY <3>1, <5>1 DEF RowsAt
        <5> QED
          BY <2>3, <3>2, <5>2
      <4>2. CASE ~(Newer(r) <= o + PAGE_SIZE - 1)
        BY <1>3, <2>1, <4>2
      <4> QED
        BY <4>1, <4>2
    <3>4. CASE o = 0
      BY <1>3, <3>3, <3>4
    <3>5. CASE o # 0
      <4> DEFINE b == o - PAGE_SIZE
      <4>1. b \in Offsets /\ b < o /\ b + PAGE_SIZE = o /\ \A q \in Offsets : q < o => q <= b
        BY <1>3, <2>1, <3>5, PageBefore
      <4> HIDE DEF b
      <4>2. Covered(b) /\ r \in hBegan
        BY <1>1, <1>3, <2>1, <2>5, <3>5, <4>1 DEF Covered
      <4>3. r \in RunsRead(b) \/ Newer(r) >= o
        BY <1>2, <4>1, <4>2 DEF ReachInv, Reached
      <4>4. RunsRead(b) \subseteq RunsRead(o)'
        <5>1. \A q \in Offsets : q <= b => q # o /\ q <= o
          BY <1>3, <2>1, <4>1
        <5>2. \A q \in Offsets : q <= b => RowsRead(q)' = RowsRead(q)
          BY <2>2, <5>1
        <5> QED
          BY <5>1, <5>2 DEF RunsRead
      <4> QED
        BY <3>3, <4>3, <4>4
    <3> QED
      BY <3>4, <3>5
  <2> QED
    BY <2>1, <2>4, <2>5
<1> QED
  BY <1>4, <1>5, <1>6, <1>7 DEF HistoryInv, ReachInv

\* The total counts every run that is behind the page.
LEMMA CountRowsKeeps ==
    ASSUME HistoryInv, NEW o \in Offsets, CountRows(o) PROVE HistoryInv'
<1>1. /\ hQuery[o].at = "rows" /\ hQuery' = [hQuery EXCEPT ![o] = NoQuery]
      /\ hCache' = [hCache EXCEPT ![o] =
            [known |-> TRUE, rows |-> hQuery[o].rows, total |-> Cardinality(Matching)]]
      /\ hStale' = hStale \ {o}
      /\ UNCHANGED <<hRuns, hFilter, hTyped, hTimer, hOffset, hBegan, hFresh>>
  BY DEF CountRows, pageVars
<1>2. HistoryTypeOK /\ BeganInv /\ PageInv /\ ReachInv
  BY DEF HistoryInv
<1>3. /\ Matching' = Matching /\ \A r : Newer(r)' = Newer(r)
      /\ hQuery \in [Offsets -> [at : {"idle", "sent", "rows"}, rows : SUBSET (DOMAIN hRuns)]]
      /\ hCache \in [Offsets -> [known : BOOLEAN, rows : SUBSET (DOMAIN hRuns), total : 0..MaxHistory]]
      /\ Cardinality(Matching) \in 0..MaxHistory /\ hQuery[o].rows \subseteq DOMAIN hRuns
  BY <1>1, <1>2, HistoryTyped, SameMatches DEF HistoryTypeOK
<1>4. HistoryTypeOK'
  <2>1. hQuery' \in [Offsets -> [at : {"idle", "sent", "rows"}, rows : SUBSET (DOMAIN hRuns)]]
    BY <1>1, <1>3 DEF NoQuery
  <2>2. hCache' \in [Offsets -> [known : BOOLEAN, rows : SUBSET (DOMAIN hRuns), total : 0..MaxHistory]]
    BY <1>1, <1>3
  <2> QED
    BY <1>1, <1>2, <2>1, <2>2 DEF HistoryTypeOK
<1>5. BeganInv'
  BY <1>1, <1>2, <1>3 DEF BeganInv
<1>6. PageInv'
  <2>1. \A p \in Offsets : hQuery'[p].rows \in {hQuery[p].rows, {}} /\ hCache'[p].rows \in {hCache[p].rows, hQuery[p].rows}
    BY <1>1, <1>3 DEF NoQuery
  <2>2. Cardinality({}) <= PAGE_SIZE
    BY FS_EmptySet, HistoryConstants
  <2> QED
    BY <1>2, <2>1, <2>2 DEF PageInv
<1>7. \A p \in Offsets : /\ RowsRead(p)' = RowsRead(p)
                         /\ p # o => hQuery'[p] = hQuery[p] /\ hCache'[p] = hCache[p]
  BY <1>1, <1>3 DEF RowsRead, NoQuery
<1>8. ASSUME NEW p \in Offsets, Covered(p)' PROVE Reached(p)'
  <2>1. Covered(p)
    BY <1>1, <1>8 DEF Covered
  <2>2. CASE p # o
    BY <1>1, <1>3, <1>4, <1>7, <2>1, <2>2, ReachedKept
  <2>3. CASE p = o
    <3> SUFFICES ASSUME NEW r \in hBegan
                 PROVE  \/ r \in RunsRead(o)
                        \/ Newer(r) >= o + PAGE_SIZE /\ Cardinality(Matching) > o + PAGE_SIZE
      <4>1. RunsRead(o)' = RunsRead(o)
        BY <1>7 DEF RunsRead
      <4>2. hCache'[o].total = Cardinality(Matching)
        BY <1>1, <1>3
      <4> QED
        BY <1>1, <1>3, <2>3, <4>1, <4>2 DEF Reached
    <3>1. r \in RunsRead(o) \/ Newer(r) >= o + PAGE_SIZE
      BY <1>2, <2>1, <2>3 DEF ReachInv, Reached
    <3>2. r \in Matching /\ Len(hRuns) \in Nat /\ Matching \subseteq 1..Len(hRuns)
      BY <1>2, HistoryTyped DEF BeganInv
    <3>3. Newer(r) \in Nat /\ Newer(r) < Cardinality(Matching)
      <4>1. Newer(r) = Above(Matching, r) /\ Newer(r) \in Nat
        BY <1>2, HistoryTyped
      <4> QED
        BY <3>2, <4>1, AboveFalls
    <3> QED
      BY <1>3, <3>1, <3>3, PageBefore, HistoryConstants
  <2> QED
    BY <2>2, <2>3
<1> QED
  BY <1>4, <1>5, <1>6, <1>8 DEF HistoryInv, ReachInv

LEMMA HistoryFailsKeeps ==
    ASSUME HistoryInv, NEW o \in Offsets, HistoryFails(o) PROVE HistoryInv'
<1>1. /\ hQuery' = [hQuery EXCEPT ![o] = NoQuery] /\ hFresh' = {p \in hFresh : p < o}
      /\ UNCHANGED <<hRuns, hFilter, hTyped, hTimer, hOffset, hCache, hStale, hBegan>>
  BY DEF HistoryFails, pageVars
<1>2. HistoryTypeOK /\ BeganInv /\ PageInv /\ ReachInv
  BY DEF HistoryInv
<1>3. /\ Matching' = Matching
      /\ hQuery \in [Offsets -> [at : {"idle", "sent", "rows"}, rows : SUBSET (DOMAIN hRuns)]]
      /\ Offsets \subseteq Nat
  BY <1>1, <1>2, SameMatches, PageBefore DEF HistoryTypeOK
<1>4. HistoryTypeOK'
  <2>1. hQuery' \in [Offsets -> [at : {"idle", "sent", "rows"}, rows : SUBSET (DOMAIN hRuns)]]
    BY <1>1, <1>3 DEF NoQuery
  <2> QED
    BY <1>1, <1>2, <2>1 DEF HistoryTypeOK
<1>5. BeganInv'
  BY <1>1, <1>2, <1>3 DEF BeganInv
<1>6. PageInv'
  <2>1. \A p \in Offsets : hQuery'[p].rows \in {hQuery[p].rows, {}}
    BY <1>1, <1>3 DEF NoQuery
  <2>2. Cardinality({}) <= PAGE_SIZE
    BY FS_EmptySet, HistoryConstants
  <2> QED
    BY <1>1, <1>2, <2>1, <2>2 DEF PageInv
<1>7. ASSUME NEW p \in Offsets, Covered(p)' PROVE Reached(p)'
  <2>1. Covered(p) /\ p < o
    BY <1>1, <1>3, <1>7 DEF Covered
  <2>2. \A q \in Offsets : q # o => RowsRead(q)' = RowsRead(q) /\ hQuery'[q] = hQuery[q]
    BY <1>1, <1>3 DEF RowsRead
  <2>3. \A q \in Offsets : q <= p => q # o
    BY <1>3, <2>1
  <2> QED
    BY <1>1, <1>3, <1>4, <2>1, <2>2, <2>3, ReachedKept
<1> QED
  BY <1>4, <1>5, <1>6, <1>7 DEF HistoryInv, ReachInv

\* A new filter begins anew; the same filter may send a request.
LEMMA ShowsKeeps ==
    ASSUME HistoryInv, NEW o \in Offsets,
           NEW filter \in [statuses : SUBSET STATUSES, search : BOOLEAN, agent : BOOLEAN],
           Shows(filter, o), hRuns' = hRuns, hTyped' \in BOOLEAN, hTimer' \in BOOLEAN
    PROVE  HistoryInv'
<1>1. /\ HistoryTypeOK /\ BeganInv /\ PageInv /\ ReachInv
      /\ hQuery \in [Offsets -> [at : {"idle", "sent", "rows"}, rows : SUBSET (DOMAIN hRuns)]]
      /\ hCache \in [Offsets -> [known : BOOLEAN, rows : SUBSET (DOMAIN hRuns), total : 0..MaxHistory]]
  BY DEF HistoryInv, HistoryTypeOK
<1>2. hFilter' = filter /\ hOffset' = o
  BY DEF Shows
<1>3. CASE filter = hFilter
  <2>1. /\ hCache' = hCache /\ UNCHANGED <<hStale, hBegan, hFresh>>
        /\ hQuery' = hQuery \/ (hQuery[o].at = "idle" /\ hQuery' = [hQuery EXCEPT ![o].at = "sent"])
    BY <1>3 DEF Shows
  <2>2. Matching' = Matching
    BY <1>2, <1>3, SameMatches
  <2>3. /\ hQuery' \in [Offsets -> [at : {"idle", "sent", "rows"}, rows : SUBSET (DOMAIN hRuns)]]
        /\ \A p \in Offsets : /\ hQuery'[p].rows = hQuery[p].rows
                              /\ hQuery'[p].at = "rows" <=> hQuery[p].at = "rows"
    <3>1. CASE hQuery' = hQuery
      BY <1>1, <3>1
    <3>2. CASE hQuery[o].at = "idle" /\ hQuery' = [hQuery EXCEPT ![o].at = "sent"]
      <4>1. /\ hQuery' \in [Offsets -> [at : {"idle", "sent", "rows"}, rows : SUBSET (DOMAIN hRuns)]]
            /\ hQuery'[o].at = "sent" /\ hQuery'[o].rows = hQuery[o].rows
            /\ \A p \in Offsets : p # o => hQuery'[p] = hQuery[p]
        BY <1>1, <3>2
      <4> QED
        BY <3>2, <4>1
    <3> QED
      BY <2>1, <3>1, <3>2
  <2>4. HistoryTypeOK'
    BY <1>1, <1>2, <2>1, <2>3 DEF HistoryTypeOK
  <2>5. BeganInv' /\ PageInv'
    BY <1>1, <2>1, <2>2, <2>3 DEF BeganInv, PageInv
  <2>6. ASSUME NEW p \in Offsets, Covered(p)' PROVE Reached(p)'
    <3>1. Covered(p)
      BY <2>1, <2>6 DEF Covered
    <3>2. \A q \in Offsets : RowsRead(q)' = RowsRead(q)
      BY <2>1, <2>3 DEF RowsRead
    <3> QED
      BY <2>1, <2>2, <2>3, <2>4, <3>1, <3>2, ReachedKept
  <2> QED
    BY <2>4, <2>5, <2>6 DEF HistoryInv, ReachInv
<1>4. CASE filter # hFilter
  <2>1. /\ hCache' = [p \in Offsets |-> NoAnswer] /\ hStale' = {} /\ hBegan' = {} /\ hFresh' = {}
        /\ LET asked == [p \in Offsets |-> NoQuery]
           IN  hQuery' \in {asked, [asked EXCEPT ![o].at = "sent"]}
    BY <1>4 DEF Shows
  <2>2. 0 \in 0..MaxHistory
    BY HistoryConstants
  <2>3. hCache' \in [Offsets -> [known : BOOLEAN, rows : SUBSET (DOMAIN hRuns), total : 0..MaxHistory]]
    BY <2>1, <2>2 DEF NoAnswer
  <2>4. /\ hQuery' \in [Offsets -> [at : {"idle", "sent", "rows"}, rows : SUBSET (DOMAIN hRuns)]]
        /\ \A p \in Offsets : hQuery'[p].rows = {}
    BY <2>1 DEF NoQuery
  <2>5. HistoryTypeOK'
    BY <1>1, <1>2, <2>1, <2>3, <2>4 DEF HistoryTypeOK
  <2>6. PageInv'
    <3>1. \A p \in Offsets : hCache'[p].rows = {}
      BY <2>1 DEF NoAnswer
    <3>2. Cardinality({}) <= PAGE_SIZE
      BY FS_EmptySet, HistoryConstants
    <3> QED
      BY <2>4, <3>1, <3>2 DEF PageInv
  <2>7. BeganInv' /\ ReachInv'
    BY <2>1 DEF BeganInv, ReachInv, Reached
  <2> QED
    BY <2>5, <2>6, <2>7 DEF HistoryInv
<1> QED
  BY <1>3, <1>4

LEMMA PageActionsKeep ==
    ASSUME HistoryInv,
           \/ Debounce \/ ClearFilters \/ SetAgent \/ LoadMore
           \/ \E s \in STATUSES : ToggleStatus(s)
    PROVE  HistoryInv'
<1>1. /\ hFilter \in [statuses : SUBSET STATUSES, search : BOOLEAN, agent : BOOLEAN]
      /\ hTyped \in BOOLEAN /\ hTimer \in BOOLEAN /\ hOffset \in Offsets /\ 0 \in Offsets
  BY PageBefore DEF HistoryInv, HistoryTypeOK
<1>2. /\ \E filter \in [statuses : SUBSET STATUSES, search : BOOLEAN, agent : BOOLEAN], o \in Offsets :
            Shows(filter, o)
      /\ hRuns' = hRuns /\ hTyped' \in BOOLEAN /\ hTimer' \in BOOLEAN
  <2>1. CASE Debounce
    BY <1>1, <2>1 DEF Debounce
  <2>2. CASE ClearFilters
    BY <1>1, <2>2 DEF ClearFilters
  <2>3. CASE SetAgent
    BY <1>1, <2>3 DEF SetAgent
  <2>4. CASE LoadMore
    BY <1>1, <2>4 DEF LoadMore
  <2>5. ASSUME NEW s \in STATUSES, ToggleStatus(s)
        PROVE  /\ \E filter \in [statuses : SUBSET STATUSES, search : BOOLEAN, agent : BOOLEAN],
                     o \in Offsets : Shows(filter, o)
               /\ hRuns' = hRuns /\ hTyped' \in BOOLEAN /\ hTimer' \in BOOLEAN
    BY <1>1, <2>5 DEF ToggleStatus
  <2> QED
    BY <2>1, <2>2, <2>3, <2>4, <2>5
<1> QED
  BY <1>2, ShowsKeeps

\* What happens to the runs and to the clocks.
LEMMA RunsKeep ==
    ASSUME HistoryInv, Type \/ GoStale \/ NewRun \/ (\E r \in DOMAIN hRuns : FinishRun(r))
    PROVE  HistoryInv'
<1>1. UNCHANGED <<hFilter, hOffset, hCache, hQuery, hFresh>>
  BY DEF Type, GoStale, NewRun, FinishRun, pageVars
<1>2. HistoryTypeOK /\ BeganInv /\ PageInv /\ ReachInv
  BY DEF HistoryInv
<1>3. Len(hRuns) \in Nat /\ DOMAIN hRuns = 1..Len(hRuns) /\ MaxHistory \in Nat
  BY <1>2, HistoryTyped, HistoryConstants
<1>4. /\ hRuns' \in Seq(RunStatuses) /\ Len(hRuns') <= MaxHistory /\ DOMAIN hRuns \subseteq DOMAIN hRuns'
      /\ hBegan' = {} \/ (hBegan' = hBegan /\ Matching \subseteq Matching')
  <2>1. CASE Type \/ GoStale
    BY <1>1, <1>2, <2>1, SameMatches DEF Type, GoStale, HistoryTypeOK
  <2>2. CASE NewRun
    <3>1. /\ Len(hRuns) < MaxHistory /\ hRuns' = Append(hRuns, "executing") /\ hBegan' = hBegan
          /\ hFilter' = hFilter
      BY <1>1, <2>2 DEF NewRun
    <3>2. /\ hRuns' \in Seq(RunStatuses) /\ Len(hRuns') = Len(hRuns) + 1
          /\ DOMAIN hRuns' = 1..(Len(hRuns) + 1)
          /\ \A r \in 1..Len(hRuns) : hRuns'[r] = hRuns[r]
      BY <1>2, <1>3, <3>1 DEF HistoryTypeOK, RunStatuses
    <3>3. Matching \subseteq Matching'
      BY <1>3, <3>1, <3>2 DEF Matching, Matches
    <3> QED
      BY <1>3, <3>1, <3>2, <3>3
  <2>3. ASSUME NEW r \in DOMAIN hRuns, FinishRun(r)
        PROVE  /\ hRuns' \in Seq(RunStatuses) /\ Len(hRuns') <= MaxHistory /\ DOMAIN hRuns \subseteq DOMAIN hRuns'
               /\ hBegan' = {} \/ (hBegan' = hBegan /\ Matching \subseteq Matching')
    <3>1. /\ hRuns' = [hRuns EXCEPT ![r] = "completed"]
          /\ hBegan' = IF hFilter.statuses \in {{}, RunStatuses} THEN hBegan ELSE {}
      BY <2>3 DEF FinishRun
    <3>2. /\ hRuns' \in Seq(RunStatuses) /\ Len(hRuns') = Len(hRuns) /\ DOMAIN hRuns' = DOMAIN hRuns
          /\ \A t \in DOMAIN hRuns : hRuns'[t] \in RunStatuses
      BY <1>2, <1>3, <3>1 DEF HistoryTypeOK, RunStatuses
    <3>3. hFilter.statuses \in {{}, RunStatuses} => Matching \subseteq Matching'
      BY <1>1, <3>2 DEF Matching, Matches
    <3> QED
      BY <1>2, <3>1, <3>2, <3>3 DEF HistoryTypeOK
  <2> QED
    BY <2>1, <2>2, <2>3
<1>5. hTyped' \in BOOLEAN /\ hTimer' \in BOOLEAN /\ hStale' \subseteq Offsets
  BY <1>2 DEF Type, GoStale, NewRun, FinishRun, pageVars, HistoryTypeOK
<1>6. HistoryTypeOK'
  <2>1. \A o \in Offsets : /\ hQuery[o].rows \subseteq DOMAIN hRuns'
                           /\ hCache[o].rows \subseteq DOMAIN hRuns'
    BY <1>2, <1>4, HistoryTyped
  <2>2. /\ hCache \in [Offsets -> [known : BOOLEAN, rows : SUBSET (DOMAIN hRuns'), total : 0..MaxHistory]]
        /\ hQuery \in [Offsets -> [at : {"idle", "sent", "rows"}, rows : SUBSET (DOMAIN hRuns')]]
    BY <1>2, <1>4 DEF HistoryTypeOK
  <2>3. hBegan' \subseteq DOMAIN hRuns'
    BY <1>2, <1>4 DEF HistoryTypeOK
  <2> QED
    BY <1>1, <1>2, <1>4, <1>5, <2>2, <2>3 DEF HistoryTypeOK
<1>7. BeganInv' /\ PageInv'
  BY <1>1, <1>2, <1>4 DEF BeganInv, PageInv
<1>8. ASSUME NEW o \in Offsets, Covered(o)' PROVE Reached(o)'
  <2>1. Covered(o) /\ \A p \in Offsets : RowsRead(p)' = RowsRead(p)
    BY <1>1, <1>8 DEF Covered, RowsRead
  <2>2. CASE hBegan' = {}
    BY <2>2 DEF Reached
  <2>3. CASE hBegan' = hBegan /\ Matching \subseteq Matching'
    BY <1>1, <1>6, <2>1, <2>3, ReachedKept
  <2> QED
    BY <1>4, <2>2, <2>3
<1> QED
  BY <1>6, <1>7, <1>8 DEF HistoryInv, ReachInv

LEMMA HistoryStep == HistoryInv /\ [HistoryNext]_historyVars => HistoryInv'
<1> SUFFICES ASSUME HistoryInv, [HistoryNext]_historyVars PROVE HistoryInv'
  OBVIOUS
<1>1. CASE Debounce \/ ClearFilters \/ SetAgent \/ LoadMore \/ (\E s \in STATUSES : ToggleStatus(s))
  BY <1>1, PageActionsKeep
<1>2. CASE Type \/ GoStale \/ NewRun \/ (\E r \in DOMAIN hRuns : FinishRun(r))
  BY <1>2, RunsKeep
<1>3. ASSUME NEW o \in Offsets, ReadRows(o) \/ CountRows(o) \/ HistoryFails(o) PROVE HistoryInv'
  BY <1>3, ReadRowsKeeps, CountRowsKeeps, HistoryFailsKeeps
<1>4. CASE UNCHANGED historyVars
  <2>1. UNCHANGED <<hRuns, hFilter, hTyped, hTimer, hOffset, hCache, hStale, hQuery, hBegan, hFresh>>
    BY <1>4 DEF historyVars, pageVars
  <2>2. Matching' = Matching
    BY <2>1, SameMatches
  <2>3. HistoryTypeOK' /\ BeganInv' /\ PageInv'
    BY <2>1, <2>2 DEF HistoryInv, HistoryTypeOK, BeganInv, PageInv
  <2>4. ASSUME NEW o \in Offsets, Covered(o)' PROVE Reached(o)'
    <3>1. Covered(o) /\ \A p \in Offsets : RowsRead(p)' = RowsRead(p)
      BY <2>1, <2>4 DEF Covered, RowsRead
    <3> QED
      BY <2>1, <2>2, <2>3, <3>1, ReachedKept
  <2> QED
    BY <2>3, <2>4 DEF HistoryInv, ReachInv
<1> QED
  BY <1>1, <1>2, <1>3, <1>4 DEF HistoryNext

LEMMA HistoryInvariant == HistorySpec => []HistoryInv
  BY HistoryStart, HistoryStep, PTL DEF HistorySpec

\* Type correctness of the page's and the cache's state.
THEOREM HistoryTypeCorrect == HistorySpec => []HistoryTypeOK
<1>1. HistoryInv => HistoryTypeOK
  BY DEF HistoryInv
<1> QED
  BY <1>1, HistoryInvariant, PTL

\* "Load more" until it is gone shows every run that matched when the first
\* page was read, for pages of any size, however many runs come meanwhile.
THEOREM LoadingMoreIsComplete == HistorySpec => []LoadMoreShowsAll
<1>1. HistoryInv => LoadMoreShowsAll
  <2> SUFFICES ASSUME HistoryInv, ~hasMore,
                      \A o \in {p \in Offsets : p <= hOffset} : o \in hFresh /\ hQuery[o].at = "idle",
                      NEW r \in hBegan
               PROVE  r \in UNION {hCache[o].rows : o \in {p \in Offsets : p <= hOffset}}
    BY DEF LoadMoreShowsAll
  <2>1. HistoryTypeOK /\ PageInv /\ ReachInv /\ hOffset \in Offsets /\ hOffset \in Nat
    BY PageBefore DEF HistoryInv, HistoryTypeOK
  <2>2. Covered(hOffset) /\ hQuery[hOffset].at = "idle"
    BY <2>1 DEF Covered
  <2>3. r \in RunsRead(hOffset) \/ hCache[hOffset].total > hOffset + PAGE_SIZE
    BY <2>1, <2>2 DEF ReachInv, Reached
  <2>4. hCache[hOffset].total <= hOffset + PAGE_SIZE
    <3>1. Cardinality(page.rows) <= PAGE_SIZE /\ Cardinality(page.rows) \in Nat
      <4>1. hCache[hOffset].rows \subseteq 1..Len(hRuns) /\ Len(hRuns) \in Nat
        BY <2>1, HistoryTyped
      <4>2. Cardinality(hCache[hOffset].rows) \in Nat
        BY <4>1, Bounded
      <4> QED
        BY <2>1, <4>2 DEF PageInv, page
    <3>2. hCache[hOffset].total \in Nat /\ page.total = hCache[hOffset].total
      <4>1. hCache[hOffset].total \in 0..MaxHistory
        BY <2>1, HistoryTyped
      <4> QED
        BY <4>1, HistoryConstants DEF page
    <3>3. ~(hOffset + Cardinality(page.rows) < page.total)
      BY DEF hasMore
    <3> QED
      BY <2>1, <3>1, <3>2, <3>3, HistoryConstants
  <2>5. r \in RunsRead(hOffset)
    <3>1. hCache[hOffset].total \in 0..MaxHistory
      BY <2>1, HistoryTyped
    <3> QED
      BY <2>1, <2>3, <2>4, <3>1, HistoryConstants
  <2>6. \A p \in Offsets : p <= hOffset => RowsRead(p) = hCache[p].rows
    BY DEF RowsRead
  <2> QED
    BY <2>5, <2>6 DEF RunsRead
<1> QED
  BY <1>1, HistoryInvariant, PTL
-----------------------------------------------------------------------------
(* Panels: the inductive invariant.                                         *)

\* As long as no two of its requests overlapped, the preview has asked for what
\* is chosen only, and shows that or nothing.
PreviewInv == ~pOverlap => pAsked \subseteq {pChosen} /\ pPreview \in {pChosen, NoItem}

\* The same of the viewer, which shows nothing while it asks.
ViewerInv ==
    ~bOverlap =>
        /\ \A i \in Items : bAsked[i] # "idle" => bSelected = i /\ bDetail = NoItem
        /\ bDetail # NoItem => bSelected = bDetail

\* As long as no two requests were between check and insert together, the one
\* that is found no session, and none has come since.
GrantInv ==
    ~bRaced =>
        /\ \A g, h \in Grants : bPost[g] = "checked" /\ bPost[h] = "checked" => g = h
        /\ \A g \in Grants : bPost[g] = "checked" => bActive = {}
        /\ \A g, h \in bActive : g = h

PanelsInv == PanelsTypeOK /\ PreviewInv /\ ViewerInv /\ GrantInv

LEMMA PanelsStart == PanelsInit => PanelsInv
<1> SUFFICES ASSUME PanelsInit PROVE PanelsInv
  OBVIOUS
<1>1. PanelsTypeOK
  BY DEF PanelsInit, PanelsTypeOK, Loads
<1>2. PreviewInv /\ ViewerInv /\ GrantInv
  BY DEF PanelsInit, PreviewInv, ViewerInv, GrantInv
<1> QED
  BY <1>1, <1>2 DEF PanelsInv

\* A viewer that is mounted afresh.
LEMMA FreshViewerKeeps ==
    ASSUME PanelsInv, FreshViewer
    PROVE  /\ ViewerInv' /\ {bSelected', bDetail'} \subseteq Items \cup {NoItem}
           /\ bRuns' \in {"loading", "shown", "error"} /\ bAsked' \in [Items -> Loads] /\ bOverlap' \in BOOLEAN
  BY DEF FreshViewer, ViewerInv, Loads

LEMMA PreviewKeeps ==
    ASSUME PanelsInv, NEW i \in Items, ChooseItem(i) \/ PreviewArrives(i) PROVE PanelsInv'
<1>1. UNCHANGED <<audit, bSessions, bLists, bViewing, viewer>>
  BY DEF ChooseItem, PreviewArrives
<1>2. PanelsTypeOK' /\ PreviewInv'
  <2>1. CASE ChooseItem(i)
    BY <1>1, <2>1 DEF ChooseItem, PanelsInv, PanelsTypeOK, PreviewInv, audit, viewer
  <2>2. CASE PreviewArrives(i)
    <3>1. PreviewInv'
      BY <2>2 DEF PreviewArrives, PanelsInv, PreviewInv
    <3>2. PanelsTypeOK'
      BY <1>1, <2>2 DEF PreviewArrives, PanelsInv, PanelsTypeOK, audit, viewer
    <3> QED
      BY <3>1, <3>2
  <2> QED
    BY <2>1, <2>2
<1>3. ViewerInv' /\ GrantInv'
  BY <1>1 DEF PanelsInv, ViewerInv, GrantInv, audit, viewer
<1> QED
  BY <1>2, <1>3 DEF PanelsInv

\* Of the requests for a session: one at a time is between check and insert.
LEMMA GrantKeeps ==
    ASSUME PanelsInv, NEW g \in Grants,
           SubmitGrant(g) \/ CheckGrant(g) \/ InsertGrant(g) \/ ExpireGrant(g)
    PROVE  PanelsInv'
<1>1. UNCHANGED <<preview, bSessions, bLists, bViewing, viewer>>
  BY DEF SubmitGrant, CheckGrant, InsertGrant, ExpireGrant
<1>2. bPost \in [Grants -> {"idle", "sent", "checked", "over"}] /\ bActive \subseteq Grants /\ bRaced \in BOOLEAN
  BY DEF PanelsInv, PanelsTypeOK
<1>3. /\ bPost' \in [Grants -> {"idle", "sent", "checked", "over"}]
      /\ bActive' \subseteq Grants /\ bRaced' \in BOOLEAN
  BY <1>2 DEF SubmitGrant, CheckGrant, InsertGrant, ExpireGrant
<1>4. GrantInv'
  <2>1. GrantInv
    BY DEF PanelsInv
  <2>2. CASE SubmitGrant(g)
    BY <1>2, <2>1, <2>2 DEF SubmitGrant, GrantInv
  <2>3. CASE CheckGrant(g)
    BY <1>2, <2>1, <2>3 DEF CheckGrant, GrantInv
  <2>4. CASE InsertGrant(g)
    BY <1>2, <2>1, <2>4 DEF InsertGrant, GrantInv
  <2>5. CASE ExpireGrant(g)
    BY <1>2, <2>1, <2>5 DEF ExpireGrant, GrantInv
  <2> QED
    BY <2>2, <2>3, <2>4, <2>5
<1>5. PanelsTypeOK'
  BY <1>1, <1>3 DEF PanelsInv, PanelsTypeOK, preview, viewer
<1>6. PreviewInv' /\ ViewerInv'
  BY <1>1 DEF PanelsInv, PreviewInv, ViewerInv, preview, viewer
<1> QED
  BY <1>4, <1>5, <1>6 DEF PanelsInv

\* The page around the viewer.
LEMMA SessionsKeep ==
    ASSUME PanelsInv, LoadSessions \/ ReadSessions \/ SessionsArrive \/ ViewRuns
    PROVE  PanelsInv'
<1>1. UNCHANGED <<preview, audit>>
  BY DEF LoadSessions, ReadSessions, SessionsArrive, ViewRuns
<1>2. bSessions' \in BOOLEAN /\ bViewing' \in BOOLEAN /\ bLists' \in {"idle", "sent", "none", "some"}
  BY DEF LoadSessions, ReadSessions, SessionsArrive, ViewRuns, PanelsInv, PanelsTypeOK
<1>3. FreshViewer \/ UNCHANGED viewer
  BY DEF LoadSessions, ReadSessions, SessionsArrive, ViewRuns
<1>4. /\ ViewerInv' /\ {bSelected', bDetail'} \subseteq Items \cup {NoItem}
      /\ bRuns' \in {"loading", "shown", "error"} /\ bAsked' \in [Items -> Loads] /\ bOverlap' \in BOOLEAN
  BY <1>3, FreshViewerKeeps DEF viewer, PanelsInv, PanelsTypeOK, ViewerInv
<1>5. PanelsTypeOK'
  BY <1>1, <1>2, <1>4 DEF PanelsInv, PanelsTypeOK, preview, audit
<1>6. PreviewInv' /\ GrantInv'
  BY <1>1 DEF PanelsInv, PreviewInv, GrantInv, preview, audit
<1> QED
  BY <1>4, <1>5, <1>6 DEF PanelsInv

\* The viewer.
LEMMA ViewerKeeps ==
    ASSUME PanelsInv,
           ListRuns \/ BackToRuns \/ \E i \in Items : SelectRun(i) \/ ReadRun(i) \/ RunArrives(i)
    PROVE  PanelsInv'
<1>1. UNCHANGED <<preview, audit, bSessions, bLists, bViewing>>
  BY DEF ListRuns, BackToRuns, SelectRun, ReadRun, RunArrives
<1>2. /\ {bSelected, bDetail} \subseteq Items \cup {NoItem} /\ bRuns \in {"loading", "shown", "error"}
      /\ bAsked \in [Items -> Loads] /\ bOverlap \in BOOLEAN /\ ViewerInv
  BY DEF PanelsInv, PanelsTypeOK
<1>3. /\ {bSelected', bDetail'} \subseteq Items \cup {NoItem} /\ bRuns' \in {"loading", "shown", "error"}
      /\ bAsked' \in [Items -> Loads] /\ bOverlap' \in BOOLEAN /\ ViewerInv'
  <2>1. CASE ListRuns
    BY <1>2, <2>1 DEF ListRuns, ViewerInv
  <2>2. CASE BackToRuns
    BY <1>2, <2>2 DEF BackToRuns, ViewerInv
  <2>3. ASSUME NEW i \in Items, SelectRun(i)
        PROVE  /\ {bSelected', bDetail'} \subseteq Items \cup {NoItem} /\ bRuns' = bRuns
               /\ bAsked' \in [Items -> Loads] /\ bOverlap' \in BOOLEAN /\ ViewerInv'
    BY <1>2, <2>3 DEF SelectRun, ViewerInv, Loads
  <2>4. ASSUME NEW i \in Items, ReadRun(i)
        PROVE  /\ {bSelected', bDetail'} \subseteq Items \cup {NoItem} /\ bRuns' = bRuns
               /\ bAsked' \in [Items -> Loads] /\ bOverlap' \in BOOLEAN /\ ViewerInv'
    BY <1>2, <2>4 DEF ReadRun, ViewerInv, Loads
  <2>5. ASSUME NEW i \in Items, RunArrives(i)
        PROVE  /\ {bSelected', bDetail'} \subseteq Items \cup {NoItem} /\ bRuns' \in {bRuns, "error"}
               /\ bAsked' \in [Items -> Loads] /\ bOverlap' \in BOOLEAN /\ ViewerInv'
    BY <1>2, <2>5 DEF RunArrives, ViewerInv, Loads
  <2> QED
    BY <1>2, <2>1, <2>2, <2>3, <2>4, <2>5
<1>4. PanelsTypeOK'
  BY <1>1, <1>3 DEF PanelsInv, PanelsTypeOK, preview, audit
<1>5. PreviewInv' /\ GrantInv'
  BY <1>1 DEF PanelsInv, PreviewInv, GrantInv, preview, audit
<1> QED
  BY <1>3, <1>4, <1>5 DEF PanelsInv

LEMMA PanelsInvariant == PanelsSpec => []PanelsInv
<1>1. PanelsInit => PanelsInv
  BY PanelsStart
<1>2. PanelsInv /\ [PanelsNext]_panelVars => PanelsInv'
  <2> SUFFICES ASSUME PanelsInv, [PanelsNext]_panelVars PROVE PanelsInv'
    OBVIOUS
  <2>1. CASE UNCHANGED panelVars
    BY <2>1 DEF panelVars, preview, audit, viewer, PanelsInv, PanelsTypeOK, PreviewInv, ViewerInv, GrantInv
  <2> QED
    BY <2>1, PreviewKeeps, GrantKeeps, SessionsKeep, ViewerKeeps DEF PanelsNext
<1> QED
  BY <1>1, <1>2, PTL DEF PanelsSpec

\* Type correctness of the two panels and of the break-glass routes.
THEOREM PanelsTypeCorrect == PanelsSpec => []PanelsTypeOK
<1>1. PanelsInv => PanelsTypeOK
  BY DEF PanelsInv
<1> QED
  BY <1>1, PanelsInvariant, PTL

\* ArtifactPreviewInline and the run viewer: unless two of its requests were
\* under way together, a panel shows what was chosen last.
THEOREM PanelsShowTheChosen == PanelsSpec => []PanelsShowWhatIsChosen
<1>1. PanelsInv => PanelsShowWhatIsChosen
  BY DEF PanelsInv, PreviewInv, ViewerInv, PanelsShowWhatIsChosen
<1> QED
  BY <1>1, PanelsInvariant, PTL

\* POST /api/operator/break-glass: unless two requests had both passed the check
\* before either inserted, an operator has one session with a tenant at a time.
THEOREM OneSession == PanelsSpec => []OneSessionAtATime
<1>1. PanelsInv => OneSessionAtATime
  <2> SUFFICES ASSUME PanelsInv, ~bRaced PROVE Cardinality(bActive) <= 1
    BY DEF OneSessionAtATime
  <2>1. \A g, h \in bActive : g = h
    BY DEF PanelsInv, GrantInv
  <2>2. CASE bActive = {}
    BY <2>2, FS_EmptySet
  <2>3. ASSUME NEW g \in bActive PROVE Cardinality(bActive) = 1
    <3>1. bActive = {g}
      BY <2>1
    <3> QED
      BY <3>1, FS_Singleton
  <2> QED
    BY <2>2, <2>3
<1> QED
  BY <1>1, PanelsInvariant, PTL


-----------------------------------------------------------------------------
(* The console: each part behaves as it does by itself.                     *)

LEMMA PartsUnchanged ==
    /\ UNCHANGED early <=> UNCHANGED governVars /\ UNCHANGED viewVars /\ UNCHANGED shareVars
    /\ UNCHANGED middle <=> UNCHANGED historyVars /\ UNCHANGED panelVars /\ UNCHANGED settingsVars
    /\ UNCHANGED late <=> UNCHANGED pushVars /\ UNCHANGED limitVars /\ UNCHANGED onboardingVars
  BY DEF early, middle, late

\* A step of the console is a step of the part in focus, and of no other.
LEMMA ConsoleMoves ==
    ASSUME [ConsoleNext]_consoleVars
    PROVE  /\ [GovernNext]_governVars /\ [ViewsNext]_viewVars /\ [SharingNext]_shareVars
           /\ [HistoryNext]_historyVars /\ [PanelsNext]_panelVars /\ [SettingsNext]_settingsVars
           /\ [PushNext]_pushVars /\ [LimitsNext]_limitVars /\ [OnboardingNext]_onboardingVars
<1>1. CASE UNCHANGED consoleVars
  <2>1. UNCHANGED early /\ UNCHANGED middle /\ UNCHANGED late
    BY <1>1 DEF consoleVars
  <2> QED
    BY <2>1, PartsUnchanged
<1>2. CASE UNCHANGED <<viewVars, shareVars, middle, late>> /\ GovernNext
  <2>1. UNCHANGED viewVars /\ UNCHANGED shareVars /\ UNCHANGED middle /\ UNCHANGED late
    BY <1>2
  <2> QED
    BY <1>2, <2>1, PartsUnchanged
<1>3. CASE UNCHANGED <<governVars, shareVars, middle, late>> /\ ViewsNext
  <2>1. UNCHANGED governVars /\ UNCHANGED shareVars /\ UNCHANGED middle /\ UNCHANGED late
    BY <1>3
  <2> QED
    BY <1>3, <2>1, PartsUnchanged
<1>4. CASE UNCHANGED <<governVars, viewVars, middle, late>> /\ SharingNext
  <2>1. UNCHANGED governVars /\ UNCHANGED viewVars /\ UNCHANGED middle /\ UNCHANGED late
    BY <1>4
  <2> QED
    BY <1>4, <2>1, PartsUnchanged
<1>5. CASE UNCHANGED <<early, panelVars, settingsVars, late>> /\ HistoryNext
  <2>1. UNCHANGED early /\ UNCHANGED panelVars /\ UNCHANGED settingsVars /\ UNCHANGED late
    BY <1>5
  <2> QED
    BY <1>5, <2>1, PartsUnchanged
<1>6. CASE UNCHANGED <<early, historyVars, settingsVars, late>> /\ PanelsNext
  <2>1. UNCHANGED early /\ UNCHANGED historyVars /\ UNCHANGED settingsVars /\ UNCHANGED late
    BY <1>6
  <2> QED
    BY <1>6, <2>1, PartsUnchanged
<1>7. CASE UNCHANGED <<early, historyVars, panelVars, late>> /\ SettingsNext
  <2>1. UNCHANGED early /\ UNCHANGED historyVars /\ UNCHANGED panelVars /\ UNCHANGED late
    BY <1>7
  <2> QED
    BY <1>7, <2>1, PartsUnchanged
<1>8. CASE UNCHANGED <<early, middle, limitVars, onboardingVars>> /\ PushNext
  <2>1. UNCHANGED early /\ UNCHANGED middle /\ UNCHANGED limitVars /\ UNCHANGED onboardingVars
    BY <1>8
  <2> QED
    BY <1>8, <2>1, PartsUnchanged
<1>9. CASE UNCHANGED <<early, middle, pushVars, onboardingVars>> /\ LimitsNext
  <2>1. UNCHANGED early /\ UNCHANGED middle /\ UNCHANGED pushVars /\ UNCHANGED onboardingVars
    BY <1>9
  <2> QED
    BY <1>9, <2>1, PartsUnchanged
<1>10. CASE UNCHANGED <<early, middle, pushVars, limitVars>> /\ OnboardingNext
  <2>1. UNCHANGED early /\ UNCHANGED middle /\ UNCHANGED pushVars /\ UNCHANGED limitVars
    BY <1>10
  <2> QED
    BY <1>10, <2>1, PartsUnchanged
<1> QED
  BY <1>1, <1>2, <1>3, <1>4, <1>5, <1>6, <1>7, <1>8, <1>9, <1>10, Zenon DEF ConsoleNext

\* A behaviour of the console is one of each of its parts: that one part moves
\* at a time adds nothing to what a part does, and takes nothing from it.
THEOREM PartsBehave ==
    ConsoleSpec => /\ GovernSpec /\ ViewsSpec /\ SharingSpec /\ HistorySpec /\ PanelsSpec
                   /\ SettingsSpec /\ PushSpec /\ LimitsSpec /\ OnboardingSpec
<1>1. ConsoleInit => /\ GovernInit /\ ViewsInit /\ SharingInit /\ HistoryInit /\ PanelsInit
                     /\ SettingsInit /\ PushInit /\ LimitsInit /\ OnboardingInit
  BY DEF ConsoleInit
<1>2. [ConsoleNext]_consoleVars =>
          /\ [GovernNext]_governVars /\ [ViewsNext]_viewVars /\ [SharingNext]_shareVars
          /\ [HistoryNext]_historyVars /\ [PanelsNext]_panelVars /\ [SettingsNext]_settingsVars
          /\ [PushNext]_pushVars /\ [LimitsNext]_limitVars /\ [OnboardingNext]_onboardingVars
  BY ConsoleMoves
<1> QED
  BY <1>1, <1>2, PTL DEF ConsoleSpec, GovernSpec, ViewsSpec, SharingSpec, HistorySpec, PanelsSpec,
                         SettingsSpec, PushSpec, LimitsSpec, OnboardingSpec

\* The type invariants of the nine parts hold throughout.
THEOREM ConsoleTypeCorrect == ConsoleSpec => []TypesOK
<1>1. GovernTypeOK /\ ViewsTypeOK /\ SharingTypeOK /\ HistoryTypeOK /\ PanelsTypeOK
        /\ SettingsTypeOK /\ PushTypeOK /\ LimitsTypeOK /\ OnboardingTypeOK => TypesOK
  BY DEF TypesOK
<1> QED
  BY <1>1, PartsBehave, GovernTypeCorrect, ViewsTypeCorrect, SharingTypeCorrect, HistoryTypeCorrect,
     PanelsTypeCorrect, SettingsTypeCorrect, PushTypeCorrect, LimitsTypeCorrect,
     OnboardingTypeCorrect, PTL

\* Every safety property that is checked of the console's parts holds of the
\* console, for all parameters.
THEOREM ConsoleIsSafe ==
    ConsoleSpec =>
      /\ [](ToldAfterApproval /\ OrphanBehindFailure /\ ShownAnswersAreOwed)
      /\ [](EveryMessageHasItsPlace /\ RevokedShownIsShut /\ OneLinkPerOpening /\ LoadMoreShowsAll)
      /\ [](PanelsShowWhatIsChosen /\ OneSessionAtATime /\ SequentialChangesKept /\ SubscribedIsStored)
      /\ [](LimitIsExact /\ NewUsersAreServed /\ GoodTenantsAreMigrated)
      /\ CancelledIsLeftByARace /\ PlaybackShowsAll
  BY PartsBehave, ApprovalOrdered, OrphansExplained, AnswersOwed, EveryMessageIsPlaced, RevokedIsShut,
     OneLinkEachOpening, LoadingMoreIsComplete, PanelsShowTheChosen, OneSession, ChangesKept,
     SubscriptionIsStored, LimitHolds, EveryNewUserIsServed, MigrationsReachGoodTenants,
     CancelledLeftByARace, PlaybackIsComplete, PTL
=============================================================================
