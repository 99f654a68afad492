---------------------------- MODULE TriageProofs ----------------------------
(***************************************************************************)
(* Proofs about Triage: what the numbers decide holds for every set of     *)
(* events, every window and every order of processing.                     *)
(*                                                                         *)
(* First what the operators compute: sums over finite sets, scores,        *)
(* buckets and detectors.  Then the invariants: types, buckets drawn from  *)
(* the log, the velocity window, and what the last task decided.           *)
(***************************************************************************)
EXTENDS Triage, FiniteSetTheorems, TLAPS

(***************************************************************************)
(* Sums over finite sets.  The recursion of the folds has a solution on    *)
(* every finite set, and the sum does not depend on the order of picking.  *)
(* Each proof takes a minimal subset for which the claim fails.            *)
(***************************************************************************)
Pick(S) == CHOOSE x \in S : TRUE

\* h sums g over every subset of S, one picked element at a time.
Sums(g, S, h) ==
  h = [T \in SUBSET S |-> IF T = {} THEN 0 ELSE g[Pick(T)] + h[T \ {Pick(T)}]]

LEMMA SumUnfolds ==
  ASSUME NEW g, NEW S
  PROVE  SumFunctionOnSet(g, S) = (CHOOSE h : Sums(g, S, h))[S]
  BY DEF SumFunctionOnSet, FoldFunctionOnSet, MapThenFoldSet, Sums, Pick

\* Every nonempty collection of subsets of a finite set has a minimal member.
LEMMA MinimalSubset ==
  ASSUME NEW S, IsFiniteSet(S), NEW B \in SUBSET SUBSET S, B # {}
  PROVE  \E T \in B : \A U \in B : ~(U \subseteq T /\ U # T)
  <1>1. B \subseteq FiniteSubsetsOf(S)
    BY FS_Subset DEF FiniteSubsetsOf
  <1>2. PICK T \in B : \A U \in B : <<U, T>> \notin StrictSubsetOrdering(S)
    BY <1>1, FS_StrictSubsetOrderingWellFounded, WFMin
  <1> QED
    BY <1>2 DEF StrictSubsetOrdering

LEMMA SumsAgree ==
  ASSUME NEW g, NEW A, NEW C \in SUBSET A, IsFiniteSet(C), NEW h, NEW k,
         Sums(g, A, h), Sums(g, C, k)
  PROVE  h[C] = k[C]
  <1> DEFINE B == {T \in SUBSET C : h[T] # k[T]}
  <1> SUFFICES ASSUME B # {} PROVE FALSE
    OBVIOUS
  <1>1. PICK T \in B : \A U \in B : ~(U \subseteq T /\ U # T)
    <2>1. B \in SUBSET SUBSET C
      OBVIOUS
    <2> HIDE DEF B
    <2> QED
      BY <2>1, MinimalSubset
  <1>2. /\ h[T] = IF T = {} THEN 0 ELSE g[Pick(T)] + h[T \ {Pick(T)}]
        /\ k[T] = IF T = {} THEN 0 ELSE g[Pick(T)] + k[T \ {Pick(T)}]
    BY DEF Sums
  <1>3. T # {} => Pick(T) \in T
    BY DEF Pick
  <1>4. T # {} => h[T \ {Pick(T)}] = k[T \ {Pick(T)}]
    BY <1>1, <1>3
  <1> QED
    BY <1>2, <1>4

LEMMA SumStep ==
  ASSUME NEW g, NEW S, IsFiniteSet(S), \E h : Sums(g, S, h),
         S # {} => \E h : Sums(g, S \ {Pick(S)}, h)
  PROVE  SumFunctionOnSet(g, S) =
           IF S = {} THEN 0 ELSE g[Pick(S)] + SumFunctionOnSet(g, S \ {Pick(S)})
  <1> DEFINE h == CHOOSE h : Sums(g, S, h)
             R == S \ {Pick(S)}
             k == CHOOSE k : Sums(g, R, k)
  <1>1. Sums(g, S, h)
    OBVIOUS
  <1>2. SumFunctionOnSet(g, S) = h[S] /\ SumFunctionOnSet(g, R) = k[R]
    BY SumUnfolds
  <1>3. h[S] = IF S = {} THEN 0 ELSE g[Pick(S)] + h[R]
    <2> HIDE DEF h
    <2> QED
      BY <1>1 DEF Sums
  <1>4. S # {} => h[R] = k[R]
    <2> SUFFICES ASSUME S # {} PROVE h[R] = k[R]
      OBVIOUS
    <2>1. Sums(g, R, k)
      OBVIOUS
    <2>2. IsFiniteSet(R) /\ R \in SUBSET S
      BY FS_Subset
    <2> HIDE DEF h, k, R
    <2> QED
      BY <1>1, <2>1, <2>2, SumsAgree
  <1> QED
    BY <1>2, <1>3, <1>4

LEMMA SumsExist ==
  ASSUME NEW g, NEW S, IsFiniteSet(S)
  PROVE  \E h : Sums(g, S, h)
  <1> DEFINE B == {T \in SUBSET S : ~\E h : Sums(g, T, h)}
  <1> SUFFICES ASSUME B # {} PROVE FALSE
    OBVIOUS
  <1>1. PICK T \in B : \A U \in B : ~(U \subseteq T /\ U # T)
    <2>1. B \in SUBSET SUBSET S
      OBVIOUS
    <2> HIDE DEF B
    <2> QED
      BY <2>1, MinimalSubset
  <1>2. \A U \in SUBSET T : U # T => \E h : Sums(g, U, h)
    BY <1>1
  <1> DEFINE k == [U \in SUBSET T |->
                     IF U = {} THEN 0
                     ELSE g[Pick(U)] + SumFunctionOnSet(g, U \ {Pick(U)})]
  <1>3. ASSUME NEW U \in SUBSET T, U # {}
        PROVE  k[U \ {Pick(U)}] = SumFunctionOnSet(g, U \ {Pick(U)})
    <2> DEFINE R == U \ {Pick(U)}
    <2>1. Pick(U) \in U
      BY <1>3 DEF Pick
    <2>2. R \in SUBSET T /\ R # T /\ R \ {Pick(R)} \in SUBSET T /\ R \ {Pick(R)} # T
      BY <2>1
    <2>3. IsFiniteSet(R)
      BY <2>2, FS_Subset
    <2>4. /\ \E h : Sums(g, R, h)
          /\ \E h : Sums(g, R \ {Pick(R)}, h)
      BY <1>2, <2>2
    <2>5. k[R] = IF R = {} THEN 0 ELSE g[Pick(R)] + SumFunctionOnSet(g, R \ {Pick(R)})
      BY <2>2
    <2> HIDE DEF R, k
    <2>6. k[R] = SumFunctionOnSet(g, R)
      BY <2>3, <2>4, <2>5, SumStep
    <2> QED
      BY <2>6 DEF R
  <1>4. Sums(g, T, k)
    BY <1>3 DEF Sums
  <1> QED
    BY <1>4

LEMMA SumPick ==
  ASSUME NEW g, NEW S, IsFiniteSet(S)
  PROVE  SumFunctionOnSet(g, S) =
           IF S = {} THEN 0 ELSE g[Pick(S)] + SumFunctionOnSet(g, S \ {Pick(S)})
  <1>1. IsFiniteSet(S \ {Pick(S)})
    BY FS_Subset
  <1> QED
    BY <1>1, SumsExist, SumStep

LEMMA SumInt ==
  ASSUME NEW S, IsFiniteSet(S), NEW N \in {Nat, Int}, NEW g, \A x \in S : g[x] \in N
  PROVE  SumFunctionOnSet(g, S) \in N
  <1> DEFINE B == {T \in SUBSET S : SumFunctionOnSet(g, T) \notin N}
  <1> SUFFICES ASSUME B # {} PROVE FALSE
    OBVIOUS
  <1>1. PICK T \in B : \A U \in B : ~(U \subseteq T /\ U # T)
    <2>1. B \in SUBSET SUBSET S
      OBVIOUS
    <2> HIDE DEF B
    <2> QED
      BY <2>1, MinimalSubset
  <1>2. IsFiniteSet(T) /\ (T # {} => Pick(T) \in T)
    BY FS_Subset DEF Pick
  <1>3. SumFunctionOnSet(g, T) =
           IF T = {} THEN 0 ELSE g[Pick(T)] + SumFunctionOnSet(g, T \ {Pick(T)})
    BY <1>2, SumPick
  <1>4. T # {} => SumFunctionOnSet(g, T \ {Pick(T)}) \in N /\ g[Pick(T)] \in N
    BY <1>1, <1>2
  <1>5. SumFunctionOnSet(g, T) \in N
    BY <1>3, <1>4
  <1> QED
    BY <1>5

LEMMA SumSame ==
  ASSUME NEW S, IsFiniteSet(S), NEW g, NEW h, \A x \in S : g[x] = h[x]
  PROVE  SumFunctionOnSet(g, S) = SumFunctionOnSet(h, S)
  <1> DEFINE B == {T \in SUBSET S : SumFunctionOnSet(g, T) # SumFunctionOnSet(h, T)}
  <1> SUFFICES ASSUME B # {} PROVE FALSE
    OBVIOUS
  <1>1. PICK T \in B : \A U \in B : ~(U \subseteq T /\ U # T)
    <2>1. B \in SUBSET SUBSET S
      OBVIOUS
    <2> HIDE DEF B
    <2> QED
      BY <2>1, MinimalSubset
  <1>2. IsFiniteSet(T) /\ (T # {} => Pick(T) \in T)
    BY FS_Subset DEF Pick
  <1>3. /\ SumFunctionOnSet(g, T) =
             IF T = {} THEN 0 ELSE g[Pick(T)] + SumFunctionOnSet(g, T \ {Pick(T)})
        /\ SumFunctionOnSet(h, T) =
             IF T = {} THEN 0 ELSE h[Pick(T)] + SumFunctionOnSet(h, T \ {Pick(T)})
    BY <1>2, SumPick
  <1>4. T # {} => /\ SumFunctionOnSet(g, T \ {Pick(T)}) = SumFunctionOnSet(h, T \ {Pick(T)})
                  /\ g[Pick(T)] = h[Pick(T)]
    BY <1>1, <1>2
  <1>5. SumFunctionOnSet(g, T) = SumFunctionOnSet(h, T)
    BY <1>3, <1>4
  <1> QED
    BY <1>5

LEMMA SumRemove ==
  ASSUME NEW S, IsFiniteSet(S), NEW g, \A x \in S : g[x] \in Int, NEW x \in S
  PROVE  SumFunctionOnSet(g, S) = g[x] + SumFunctionOnSet(g, S \ {x})
  <1> DEFINE Splits(T, y) == SumFunctionOnSet(g, T) = g[y] + SumFunctionOnSet(g, T \ {y})
             B == {T \in SUBSET S : ~\A y \in T : Splits(T, y)}
  <1> SUFFICES ASSUME B # {} PROVE FALSE
    OBVIOUS
  <1>1. PICK T \in B : \A U \in B : ~(U \subseteq T /\ U # T)
    <2>1. B \in SUBSET SUBSET S
      OBVIOUS
    <2> HIDE DEF B
    <2> QED
      BY <2>1, MinimalSubset
  <1>2. PICK y \in T : ~Splits(T, y)
    BY <1>1
  <1> DEFINE p == Pick(T)
             D == T \ {p, y}
  <1>3. p \in T /\ IsFiniteSet(T) /\ IsFiniteSet(D)
    BY FS_Subset DEF Pick
  <1>4. Splits(T, p)
    BY <1>3, SumPick
  <1>5. p # y
    BY <1>2, <1>4
  <1>6. /\ T \ {p} \in SUBSET S /\ T \ {p} \subseteq T /\ T \ {p} # T /\ y \in T \ {p}
        /\ T \ {y} \in SUBSET S /\ T \ {y} \subseteq T /\ T \ {y} # T /\ p \in T \ {y}
    BY <1>3, <1>5
  <1>7. Splits(T \ {p}, y) /\ Splits(T \ {y}, p)
    BY <1>1, <1>6
  <1>8. (T \ {p}) \ {y} = D /\ (T \ {y}) \ {p} = D
    OBVIOUS
  <1>9. /\ SumFunctionOnSet(g, T) = g[p] + (g[y] + SumFunctionOnSet(g, D))
        /\ SumFunctionOnSet(g, T \ {y}) = g[p] + SumFunctionOnSet(g, D)
    BY <1>4, <1>7, <1>8
  <1>10. SumFunctionOnSet(g, D) \in Int /\ g[p] \in Int /\ g[y] \in Int
    BY <1>3, SumInt
  <1>11. Splits(T, y)
    BY <1>9, <1>10
  <1> QED
    BY <1>2, <1>11

LEMMA SumEmpty == ASSUME NEW g PROVE SumFunctionOnSet(g, {}) = 0
  BY SumPick, FS_EmptySet

\* One element more.
LEMMA SumAdd ==
  ASSUME NEW S, IsFiniteSet(S), NEW x, x \notin S, NEW g, g[x] \in Int,
         \A y \in S : g[y] \in Int
  PROVE  SumFunctionOnSet(g, S \cup {x}) = SumFunctionOnSet(g, S) + g[x]
  <1>1. IsFiniteSet(S \cup {x}) /\ (S \cup {x}) \ {x} = S
    BY FS_AddElement
  <1>2. SumFunctionOnSet(g, S \cup {x}) = g[x] + SumFunctionOnSet(g, S)
    <2> DEFINE T == S \cup {x}
    <2>1. IsFiniteSet(T) /\ x \in T /\ T \ {x} = S /\ \A y \in T : g[y] \in Int
      BY <1>1
    <2> HIDE DEF T
    <2>2. SumFunctionOnSet(g, T) = g[x] + SumFunctionOnSet(g, T \ {x})
      BY <2>1, SumRemove
    <2> QED
      BY <2>1, <2>2 DEF T
  <1>3. SumFunctionOnSet(g, S) \in Int
    BY SumInt
  <1> QED
    BY <1>1, <1>2, <1>3

(***************************************************************************)
(* Extremes of finite sets of integers.                                    *)
(***************************************************************************)
HasGreatest(T) == \E x \in T : \A y \in T : x >= y

LEMMA MaxIs ==
  ASSUME NEW S, S \subseteq Int, IsFiniteSet(S), S # {}
  PROVE  Max(S) \in S /\ \A y \in S : Max(S) >= y
  <1> DEFINE B == {T \in SUBSET S : T # {} /\ ~HasGreatest(T)}
  <1> SUFFICES ASSUME B # {} PROVE FALSE
    <2>1. S \notin B => HasGreatest(S)
      OBVIOUS
    <2> QED
      BY <2>1 DEF Max, HasGreatest
  <1>1. PICK T \in B : \A U \in B : ~(U \subseteq T /\ U # T)
    <2>1. B \in SUBSET SUBSET S
      OBVIOUS
    <2> HIDE DEF B
    <2> QED
      BY ONLY <2>1, IsFiniteSet(S), B # {}, MinimalSubset
  <1>2. PICK x \in T : TRUE
    OBVIOUS
  <1>3. T \ {x} # {}
    <2>1. x \in Int /\ T # {} /\ ~HasGreatest(T)
      BY <1>1, <1>2
    <2>2. T \ {x} = {} => \A y \in T : x >= y
      BY <2>1
    <2> QED
      BY <1>2, <2>1, <2>2 DEF HasGreatest
  <1>4. PICK m \in T \ {x} : \A y \in T \ {x} : m >= y
    <2>1. T \ {x} \notin B
      BY <1>1, <1>2
    <2> QED
      BY <1>1, <1>3, <2>1 DEF HasGreatest
  <1>5. HasGreatest(T)
    <2>1. x \in Int /\ m \in Int
      BY <1>2, <1>4
    <2>2. CASE x >= m
      <3>1. \A y \in T : x >= y
        BY <1>4, <2>1, <2>2
      <3> QED
        BY <1>2, <3>1 DEF HasGreatest
    <2>3. CASE m >= x
      <3>1. \A y \in T : m >= y
        BY <1>4, <2>3
      <3> QED
        BY <1>4, <3>1 DEF HasGreatest
    <2> QED
      BY <2>1, <2>2, <2>3
  <1> QED
    BY <1>5

LEMMA MinutesAre == \A m \in Minutes : m \in Int
  <1>1. Minutes \subseteq Nat
    BY SeriesAssumption, Zenon
  <1> QED
    BY ONLY <1>1

LEMMA FirstMinute == Min(Minutes) \in Minutes
  <1> DEFINE S == {-m : m \in Minutes}
  <1>1. S \subseteq Int /\ S # {} /\ IsFiniteSet(S)
    <2> DEFINE g == [m \in Minutes |-> -m]
    <2>1. g \in Surjection(Minutes, S)
      BY SeriesAssumption DEF Surjection
    <2>2. IsFiniteSet(S)
      BY <2>1, FS_Surjection, SeriesAssumption
    <2>3. \A m \in Minutes : m \in Int
      BY MinutesAre
    <2>4. S \subseteq Int
      BY ONLY <2>3
    <2>5. S # {}
      <3>1. PICK m \in Minutes : TRUE
        BY SeriesAssumption
      <3>2. -m \in S
        OBVIOUS
      <3> QED
        BY <3>2
    <2> QED
      BY <2>2, <2>4, <2>5
  <1> HIDE DEF S
  <1>2. PICK x \in S : \A y \in S : x >= y
    BY <1>1, MaxIs
  <1>3. PICK m \in Minutes : x = -m
    BY <1>2 DEF S
  <1>4. \A y \in Minutes : m <= y
    <2> SUFFICES ASSUME NEW y \in Minutes PROVE m <= y
      OBVIOUS
    <2>1. -y \in S
      BY DEF S
    <2> QED
      BY <1>2, <1>3, <2>1, SeriesAssumption
  <1> QED
    BY <1>3, <1>4 DEF Min

(***************************************************************************)
(* Scores.  Only the sum matters, and what a critical log line adds to it. *)
(***************************************************************************)
LEMMA EventTypes ==
  ASSUME NEW e \in Kinds
  PROVE  /\ e.fp \in Fingerprints /\ e.country \in Countries \cup {NoCountry}
         /\ e.action \in Actions \cup {NoAction} /\ e.action \in DOMAIN ActionScore
         /\ e.endpoint \in DOMAIN EndpointScore
         /\ e.status \in Int /\ e.attempts \in Int /\ e.latency \in Int
         /\ e.exception \in BOOLEAN /\ e.wedged \in BOOLEAN
         /\ e.signal \in {"success", "pending", "failure", "none"}
         /\ e.counted \in {"none", "parts", "total"}
         /\ e.metrics \in [DOMAIN NoMetrics -> Int]
  BY TriageAssumption

LEMMA PathScoreType ==
  ASSUME NEW e \in Kinds
  PROVE  PathScore(e) \in Nat
  <1>1. EndpointScore[e.endpoint] \in Nat /\ ActionScore[e.action] \in Nat
    BY EventTypes, ScoringAssumption
  <1> QED
    BY <1>1 DEF PathScore

LEMMA PointTypes ==
  /\ \A n \in Nat : ScoreAffectedUsers(n) \in Nat /\ ScoreErrorVelocity(n) \in Nat
  /\ \A s : ScoreHttpStatus(s) \in Nat
  /\ \A C : ScoreCountryConcentration(C) \in Nat
  /\ \A a \in Int : AttemptScore(a) \in Nat
  <1>1. \A n \in Nat : ScoreAffectedUsers(n) \in Nat
    BY DEF ScoreAffectedUsers
  <1>2. \A n \in Nat : ScoreErrorVelocity(n) \in Nat
    BY DEF ScoreErrorVelocity
  <1>3. ASSUME NEW s PROVE ScoreHttpStatus(s) \in Nat
    <2>1. CASE s \notin 400..599
      BY <2>1 DEF ScoreHttpStatus
    <2>2. CASE s \in 400..599
      BY <2>2 DEF ScoreHttpStatus
    <2> QED
      BY <2>1, <2>2
  <1>4. \A C : ScoreCountryConcentration(C) \in Nat
    BY DEF ScoreCountryConcentration
  <1>5. \A a \in Int : AttemptScore(a) \in Nat
    BY DEF AttemptScore
  <1> QED
    BY <1>1, <1>2, <1>3, <1>4, <1>5

\* The points of a critical log line and of Freshdesk awareness make sixty.
LEMMA CriticalityIs ==
  ASSUME NEW e \in Kinds, NEW users \in Nat, NEW window \in Nat, NEW countries
  PROVE  LET score == Criticality(e, users, window, countries)
         IN  /\ score \in Nat
             /\ e.level \in {"critical", "fatal"} => score >= 60
  <1>1. /\ PathScore(e) \in Nat /\ ScoreAffectedUsers(users) \in Nat
        /\ ScoreErrorVelocity(window) \in Nat /\ ScoreHttpStatus(e.status) \in Nat
        /\ ScoreCountryConcentration(countries) \in Nat
    BY PathScoreType, PointTypes
  <1>2. ScoreFreshdeskAwareness(FALSE) = 20
    BY DEF ScoreFreshdeskAwareness
  <1>3. /\ ScoreLogLevel(e.level) \in Nat
        /\ e.level \in {"critical", "fatal"} => ScoreLogLevel(e.level) = 40
    BY DEF ScoreLogLevel
  <1>4. ScoreRetryStorm(e.attempts, e.wedged) \in Nat
    <2>1. AttemptScore(e.attempts) \in Nat
      BY EventTypes, PointTypes
    <2> QED
      BY <2>1 DEF ScoreRetryStorm
  <1> DEFINE own    == PathScore(e) + ScoreAffectedUsers(users) + ScoreErrorVelocity(window)
             status == ScoreHttpStatus(e.status)
             market == ScoreCountryConcentration(countries)
             level  == ScoreLogLevel(e.level)
             storm  == ScoreRetryStorm(e.attempts, e.wedged)
  <1>5. /\ own \in Nat /\ status \in Nat /\ market \in Nat /\ level \in Nat /\ storm \in Nat
        /\ e.level \in {"critical", "fatal"} => level = 40
    BY <1>1, <1>3, <1>4
  <1>6. Criticality(e, users, window, countries) = own + status + market + 20 + level + storm
    BY <1>2 DEF Criticality
  <1> HIDE DEF own, status, market, level, storm
  <1> QED
    BY <1>5, <1>6

LEMMA SeverityIs ==
  ASSUME NEW score \in Nat
  PROVE  /\ ScoreToSeverity(score) \in {"critical", "high", "medium", "low", "observe"}
         /\ ScoreToSeverity(score) \in Urgent <=> score >= 80
  <1>1. CASE score >= 100
    BY <1>1 DEF ScoreToSeverity, Urgent
  <1>2. CASE score \in 80..99
    BY <1>2 DEF ScoreToSeverity, Urgent
  <1>3. CASE score \in 60..79
    BY <1>3 DEF ScoreToSeverity, Urgent
  <1>4. CASE score \in 40..59
    BY <1>4 DEF ScoreToSeverity, Urgent
  <1>5. CASE score < 40
    BY <1>5 DEF ScoreToSeverity, Urgent
  <1> QED
    BY <1>1, <1>2, <1>3, <1>4, <1>5

LEMMA ThresholdIs == \A e : Threshold(e) \in {40, 60}
  BY DEF Threshold

(***************************************************************************)
(* Buckets.                                                                *)
(***************************************************************************)
Fields == {"rows", "total", "success", "failure", "pending", "latencyCount", "latencySum"}

CountFields == {"total", "success", "failure", "pending"}

BucketsOf(N) == [rows : N, total : N, success : N, failure : N, pending : N,
                 latencyCount : N, latencySum : N]

LEMMA BucketFields ==
  /\ DOMAIN NoBucket = Fields
  /\ \A N : \A b \in BucketsOf(N) : \A field \in Fields : b[field] \in N
  BY DEF NoBucket, Fields, BucketsOf

LEMMA CountsType ==
  ASSUME NEW e \in Kinds
  PROVE  \A field \in CountFields : Counts(e)[field] \in Int
  <1>1. CASE e.counted # "none"
    <2>1. e.metrics \in [DOMAIN NoMetrics -> Int]
      BY EventTypes
    <2> QED
      BY <1>1, <2>1 DEF Counts, NoMetrics, CountFields
  <1>2. CASE e.counted = "none"
    <2>1. ClassifyEventOutcome(e) \in {"success", "pending", "failure"}
      BY EventTypes DEF ClassifyEventOutcome
    <2> HIDE DEF ClassifyEventOutcome
    <2> QED
      BY <1>2, <2>1 DEF Counts, NoMetrics, CountFields
  <1> QED
    BY <1>1, <1>2

LEMMA AddedIs ==
  ASSUME NEW e \in Kinds, NEW b \in BucketsOf(Int)
  PROVE  /\ Added(b, e) \in BucketsOf(Int) /\ Added(b, e).rows = 1
         /\ \A field \in CountFields : Added(b, e)[field] = b[field] + Counts(e)[field]
  <1> DEFINE n == Counts(e)
             timed == IF e.latency = NoLatency THEN 0 ELSE 1
             late == timed * e.latency
  <1>1. /\ n.total \in Int /\ n.success \in Int /\ n.failure \in Int /\ n.pending \in Int
        /\ timed \in Int /\ late \in Int
    BY CountsType, EventTypes DEF CountFields
  <1>2. Added(b, e) = [rows |-> 1,
          total |-> b.total + n.total, success |-> b.success + n.success,
          failure |-> b.failure + n.failure, pending |-> b.pending + n.pending,
          latencyCount |-> b.latencyCount + timed, latencySum |-> b.latencySum + late]
    BY DEF Added
  <1> HIDE DEF n, timed, late
  <1>3. Added(b, e) \in BucketsOf(Int) /\ Added(b, e).rows = 1
    BY <1>1, <1>2 DEF BucketsOf
  <1>4. \A field \in CountFields : Added(b, e)[field] = b[field] + n[field]
    BY <1>2 DEF CountFields
  <1> QED
    BY <1>3, <1>4 DEF n

\* The bucket that an update adds to: for the global cell, the session's copy.
Loaded(bs, seen0, k) == IF k[2] = "global" THEN seen0 ELSE bs[k]

LEMMA RecordIs ==
  ASSUME NEW bs, NEW seen0, NEW e, NEW now, NEW k \in Keys
  PROVE  RecordEventMetrics(bs, seen0, e, now)[k] =
           IF k[1] = e.action /\ k[2] \in DimensionCells(e) /\ k[3] = now
           THEN Added(Loaded(bs, seen0, k), e) ELSE bs[k]
  <1>1. k = <<k[1], k[2], k[3]>>
    BY DEF Keys
  <1>2. "global" \in DimensionCells(e)
    BY DEF DimensionCells
  <1>3. CASE k = <<e.action, "global", now>>
    BY <1>1, <1>2, <1>3 DEF RecordEventMetrics, Loaded
  <1>4. CASE /\ k # <<e.action, "global", now>>
             /\ k[1] = e.action /\ k[2] \in DimensionCells(e) /\ k[3] = now
    <2>1. k[2] # "global" /\ k \in {<<e.action, c, now>> : c \in DimensionCells(e) \ {"global"}}
      BY <1>1, <1>4
    <2> QED
      BY <1>4, <2>1 DEF RecordEventMetrics, Loaded
  <1>5. CASE ~(k[1] = e.action /\ k[2] \in DimensionCells(e) /\ k[3] = now)
    <2>1. /\ k # <<e.action, "global", now>>
          /\ k \notin {<<e.action, c, now>> : c \in DimensionCells(e) \ {"global"}}
      BY <1>2, <1>5
    <2> QED
      BY <1>5, <2>1 DEF RecordEventMetrics, Loaded
  <1> QED
    BY <1>3, <1>4, <1>5

LEMMA RecordTyped ==
  ASSUME NEW N, NEW bs \in [Keys -> N], NEW seen0 \in N, NEW e, NEW now,
         \A b \in N : Added(b, e) \in N
  PROVE  /\ RecordEventMetrics(bs, seen0, e, now) \in [Keys -> N]
         /\ \A k \in Keys : Loaded(bs, seen0, k) \in N
  <1>1. \A k \in Keys : Loaded(bs, seen0, k) \in N
    BY DEF Loaded
  <1>2. \A k \in Keys : RecordEventMetrics(bs, seen0, e, now)[k] \in N
    BY <1>1, RecordIs
  <1>3. RecordEventMetrics(bs, seen0, e, now)
          = [k \in Keys |-> RecordEventMetrics(bs, seen0, e, now)[k]]
    BY DEF RecordEventMetrics
  <1> QED
    BY <1>1, <1>2, <1>3

LEMMA RecordInt ==
  ASSUME NEW bs \in [Keys -> BucketsOf(Int)], NEW seen0 \in BucketsOf(Int),
         NEW e \in Kinds, NEW now
  PROVE  /\ RecordEventMetrics(bs, seen0, e, now) \in [Keys -> BucketsOf(Int)]
         /\ \A k \in Keys : Loaded(bs, seen0, k) \in BucketsOf(Int)
  <1> DEFINE N == BucketsOf(Int)
  <1>1. \A b \in N : Added(b, e) \in N
    BY AddedIs
  <1>2. bs \in [Keys -> N] /\ seen0 \in N
    OBVIOUS
  <1> HIDE DEF N
  <1>3. /\ RecordEventMetrics(bs, seen0, e, now) \in [Keys -> N]
        /\ \A k \in Keys : Loaded(bs, seen0, k) \in N
    BY <1>1, <1>2, RecordTyped
  <1> QED
    BY <1>3 DEF N

\* A window's counts are integers.
LEMMA FoldIs ==
  ASSUME NEW bs \in [Keys -> BucketsOf(Int)], NEW a \in Actions, NEW c \in Cells,
         NEW M \in SUBSET Minutes
  PROVE  LET w == Fold(bs, a, c, M)
         IN  /\ w.total \in Int /\ w.success \in Int /\ w.failure \in Int
             /\ w.pending \in Int /\ w.latencyCount \in Int /\ w.latencySum \in Int
  <1>1. ASSUME NEW field \in Fields PROVE Fold(bs, a, c, M)[field] \in Int
    <2> DEFINE g == [m \in M |-> bs[a, c, m][field]]
    <2>1. \A m \in M : g[m] \in Int
      <3>1. ASSUME NEW m \in M PROVE bs[a, c, m] \in BucketsOf(Int)
        <4>1. m \in Minutes
          OBVIOUS
        <4>2. <<a, c, m>> \in Keys
          BY <4>1 DEF Keys
        <4> QED
          BY <4>2
      <3> QED
        BY <3>1, BucketFields
    <2>2. IsFiniteSet(M)
      BY FS_Subset, SeriesAssumption
    <2>3. Fold(bs, a, c, M)[field] = SumFunctionOnSet(g, M)
      BY BucketFields DEF Fold
    <2> HIDE DEF g
    <2>4. SumFunctionOnSet(g, M) \in Int
      BY <2>1, <2>2, SumInt
    <2> QED
      BY <2>3, <2>4
  <1> QED
    BY <1>1 DEF Fields

(***************************************************************************)
(* Detectors.  A boost is nothing, or between twenty and sixty.            *)
(***************************************************************************)
Anomalies == {0} \cup 20..60

LEMMA Worst ==
  ASSUME NEW S, S \subseteq 0..60, S # {}
  PROVE  Max(S) \in S /\ \A y \in S : Max(S) >= y
  <1>1. S \subseteq Int
    <2>1. 0..60 \subseteq Int
      OBVIOUS
    <2> QED
      BY ONLY <2>1, S \subseteq 0..60
  <1>2. IsFiniteSet(S)
    <2>1. S \in SUBSET Nat /\ \A x \in S : x <= 60
      OBVIOUS
    <2> QED
      BY ONLY <2>1, FS_BoundedSetOfNaturals, 60 \in Nat
  <1> QED
    BY ONLY <1>1, <1>2, S # {}, MaxIs

LEMMA DetectorsAre ==
  /\ \A x, y, z : DetectFailureRate(x, y, z) \in {0, 50}
  /\ \A x, y : DetectPendingRate(x, y) \in {0, 40}
  /\ \A x, y : DetectLatencyRegression(x, y) \in {0, 30}
  BY DEF DetectFailureRate, DetectPendingRate, DetectLatencyRegression

LEMMA SpikeIs ==
  ASSUME NEW M, IsFiniteSet(M), NEW series, \A m \in M : series[m] \in Int,
         NEW current \in Int
  PROVE  DetectVolumeSpike(current, series, M) \in Anomalies
  <1> DEFINE n == Cardinality(M)
             sum == SumFunctionOnSet(series, M)
             product == [m \in M |-> series[m] * series[m]]
             squares == SumFunctionOnSet(product, M)
             v == n * squares - sum * sum
             d == n * current - sum
             Z == {z \in 0..60 : z * z * v <= 100 * d * d}
  <1>1. n \in Nat
    BY FS_CardinalityType
  <1>2. sum \in Int
    BY SumInt
  <1>3. squares \in Int
    <2>1. \A m \in M : product[m] \in Int
      OBVIOUS
    <2> HIDE DEF product
    <2> QED
      BY <2>1, SumInt
  <1>4. v \in Int /\ d \in Int
    <2> HIDE DEF n, sum, squares
    <2> QED
      BY <1>1, <1>2, <1>3
  <1>5. DetectVolumeSpike(current, series, M) =
          CASE n < MinSampleSize -> 0
            [] n >= MinSampleSize /\ v = 0 -> IF d > 0 THEN 40 ELSE 0
            [] n >= MinSampleSize /\ v # 0 ->
                 IF d > 0 /\ d * d >= 9 * v THEN Max(Z) ELSE 0
    BY DEF DetectVolumeSpike
  <1>6. ASSUME d * d >= 9 * v PROVE Max(Z) \in 20..60
    <2> HIDE DEF v, d
    <2>1. 30 * 30 * v <= 100 * d * d
      BY <1>4, <1>6
    <2>2. Z \subseteq 0..60 /\ 30 \in Z
      BY <2>1
    <2> HIDE DEF Z
    <2>3. Max(Z) \in Z /\ Max(Z) >= 30
      BY <2>2, Worst
    <2>4. Max(Z) \in 0..60
      BY ONLY <2>2, <2>3
    <2> HIDE DEF Z
    <2> QED
      BY ONLY <2>3, <2>4
  <1>7. MinSampleSize \in Nat
    BY SeriesAssumption
  <1> HIDE DEF n, v, d, Z
  <1> QED
    BY <1>1, <1>5, <1>6, <1>7 DEF Anomalies

LEMMA DropIs ==
  ASSUME NEW cur, NEW base, NEW critical \in BOOLEAN,
         cur.total \in Int, cur.success \in Int, base.total \in Int, base.success \in Int
  PROVE  DetectSuccessRateDrop(cur, base, critical) \in Anomalies
  <1> DEFINE drop == 100 * (base.success * cur.total - cur.success * base.total)
             scale == base.total * cur.total
             least == IF critical THEN BaselineCriticalMinTotal ELSE BaselineMinTotal
             x == drop \div scale
  <1>1. DetectSuccessRateDrop(cur, base, critical) =
          IF cur.total > 0 /\ base.total >= least /\ drop >= 20 * scale
          THEN Min({60, x}) ELSE 0
    BY DEF DetectSuccessRateDrop
  <1>2. least \in Nat /\ least > 0
    BY SeriesAssumption
  <1>3. drop \in Int /\ scale \in Int
    OBVIOUS
  <1>4. ASSUME cur.total > 0, base.total >= least PROVE scale > 0
    <2>1. base.total > 0
      BY <1>2, <1>4
    <2> QED
      BY <1>4, <2>1
  <1>5. ASSUME scale > 0, drop >= 20 * scale PROVE x \in Int /\ x >= 20
    <2> HIDE DEF drop, scale
    <2> QED
      BY <1>3, <1>5
  <1>6. ASSUME x \in Int, x >= 20 PROVE Min({60, x}) \in 20..60
    <2> HIDE DEF x
    <2> QED
      BY <1>6 DEF Min
  <1> HIDE DEF drop, scale, least, x
  <1> QED
    BY <1>1, <1>4, <1>5, <1>6 DEF Anomalies

\* A cell's anomaly, and its failure rate is among the detectors.
LEMMA SeriesIs ==
  ASSUME NEW bs \in [Keys -> BucketsOf(Int)], NEW a \in Actions, NEW c \in Cells,
         NEW M \in SUBSET Minutes, NEW P \in SUBSET Minutes
  PROVE  LET w == Fold(bs, a, c, M)
         IN  /\ AnalyzeSeries(bs, a, c, M, P) \in Anomalies
             /\ AnalyzeSeries(bs, a, c, M, P)
                  >= DetectFailureRate(w.failure, w.total, a \in CriticalActions)
  <1> DEFINE current == Fold(bs, a, c, M)
             baseline == Fold(bs, a, c, P)
             critical == a \in CriticalActions
             series == [m \in P |-> bs[a, c, m].total]
             failing == DetectFailureRate(current.failure, current.total, critical)
             S == {DetectSuccessRateDrop(current, baseline, critical), failing,
                   DetectPendingRate(current.pending, current.total),
                   DetectLatencyRegression(current, baseline),
                   DetectVolumeSpike(current.total, series, P)}
  <1>1. DetectSuccessRateDrop(current, baseline, critical) \in Anomalies
    <2>1. /\ current.total \in Int /\ current.success \in Int
          /\ baseline.total \in Int /\ baseline.success \in Int /\ critical \in BOOLEAN
      BY FoldIs
    <2> HIDE DEF current, baseline, critical
    <2> QED
      BY <2>1, DropIs
  <1>2. DetectVolumeSpike(current.total, series, P) \in Anomalies
    <2>1. IsFiniteSet(P)
      BY FS_Subset, SeriesAssumption
    <2>2. ASSUME NEW m \in P PROVE series[m] \in Int
      <3>1. m \in Minutes
        OBVIOUS
      <3>2. <<a, c, m>> \in Keys
        BY <3>1 DEF Keys
      <3>3. bs[a, c, m] \in BucketsOf(Int)
        BY <3>2
      <3> QED
        BY <3>3 DEF BucketsOf
    <2>3. current.total \in Int
      BY FoldIs
    <2> HIDE DEF current, series
    <2> QED
      BY <2>1, <2>2, <2>3, SpikeIs
  <1>3. S \subseteq Anomalies
    <2>1. /\ failing \in {0, 50}
          /\ DetectPendingRate(current.pending, current.total) \in {0, 40}
          /\ DetectLatencyRegression(current, baseline) \in {0, 30}
      BY DetectorsAre
    <2> HIDE DEF current, baseline, critical, series, failing
    <2> QED
      BY <1>1, <1>2, <2>1 DEF Anomalies
  <1>4. AnalyzeSeries(bs, a, c, M, P) = Max(S)
    BY DEF AnalyzeSeries
  <1>5. failing \in S
    OBVIOUS
  <1> HIDE DEF S
  <1>6. S \subseteq 0..60 /\ S # {}
    BY <1>3, <1>5 DEF Anomalies
  <1>7. Max(S) \in S /\ Max(S) >= failing
    BY ONLY <1>5, <1>6, Worst
  <1> QED
    BY <1>3, <1>4, <1>7

LEMMA AnomalyIs ==
  ASSUME NEW e \in Kinds
  PROVE  DetectAnomaly(e) \in Anomalies
  <1> DEFINE failing == DetectFailureRate(e.metrics.failure, e.metrics.total, FALSE)
             waiting == DetectPendingRate(e.metrics.pending, e.metrics.total)
  <1>1. failing \in {0, 50} /\ waiting \in {0, 40}
    BY DetectorsAre
  <1>2. DetectAnomaly(e) = CASE e.counted # "total" -> 0
                             [] e.counted = "total" /\ failing > 0 -> failing
                             [] e.counted = "total" /\ failing = 0 -> waiting
    BY DEF DetectAnomaly
  <1> HIDE DEF failing, waiting
  <1> QED
    BY <1>1, <1>2 DEF Anomalies

LEMMA CellsOf ==
  ASSUME NEW e \in Kinds
  PROVE  DimensionCells(e) \subseteq Cells /\ "global" \in DimensionCells(e)
  BY EventTypes DEF DimensionCells, Cells

LEMMA WindowsIn ==
  ASSUME NEW bs, NEW a, NEW c, NEW now
  PROVE  /\ Current(bs, a, c, now) \in SUBSET Minutes
         /\ Baseline(bs, a, c, now) \in SUBSET Minutes
  BY DEF Current, Baseline, Rows

LEMMA CellIs ==
  ASSUME NEW bs \in [Keys -> BucketsOf(Int)], NEW a \in Actions, NEW c \in Cells, NEW now
  PROVE  LET w == Fold(bs, a, c, Current(bs, a, c, now))
         IN  /\ AnalyzeCell(bs, a, c, now) \in Anomalies
             /\ AnalyzeCell(bs, a, c, now)
                  >= DetectFailureRate(w.failure, w.total, a \in CriticalActions)
  BY WindowsIn, SeriesIs DEF AnalyzeCell

LEMMA BaselineAnomalyIs ==
  ASSUME NEW bs \in [Keys -> BucketsOf(Int)], NEW e \in Kinds, NEW now
  PROVE  /\ DetectBaselineAnomaly(bs, e, now) \in Anomalies
         /\ e.action \in Actions =>
              \A c \in DimensionCells(e) :
                DetectBaselineAnomaly(bs, e, now) >= AnalyzeCell(bs, e.action, c, now)
  <1>1. CASE e.action = NoAction
    BY <1>1, SeriesAssumption DEF DetectBaselineAnomaly, Anomalies
  <1>2. CASE e.action # NoAction
    <2> DEFINE S == {AnalyzeCell(bs, e.action, c, now) : c \in DimensionCells(e)}
    <2>1. e.action \in Actions
      BY <1>2, EventTypes
    <2>2. ASSUME NEW c \in DimensionCells(e)
          PROVE  AnalyzeCell(bs, e.action, c, now) \in Anomalies
      <3>1. c \in Cells
        BY CellsOf
      <3> QED
        BY <2>1, <3>1, CellIs
    <2>3. S \subseteq Anomalies /\ S # {}
      BY <2>2, CellsOf
    <2>4. \A c \in DimensionCells(e) : AnalyzeCell(bs, e.action, c, now) \in S
      OBVIOUS
    <2>5. DetectBaselineAnomaly(bs, e, now) = Max(S)
      BY <1>2 DEF DetectBaselineAnomaly
    <2> HIDE DEF S
    <2>6. Max(S) \in S /\ \A y \in S : Max(S) >= y
      <3>1. S \subseteq 0..60
        BY <2>3 DEF Anomalies
      <3> QED
        BY ONLY <2>3, <3>1, Worst
    <2> QED
      BY <2>3, <2>4, <2>5, <2>6
  <1> QED
    BY <1>1, <1>2

LEMMA KeyIs ==
  /\ \A a \in Actions, c \in Cells, m \in Minutes : <<a, c, m>> \in Keys
  /\ \A k \in Keys : /\ k[1] \in Actions /\ k[2] \in Cells /\ k[3] \in Minutes
                     /\ k = <<k[1], k[2], k[3]>>
  BY DEF Keys

LEMMA RowsIs ==
  ASSUME NEW bs, NEW a, NEW c
  PROVE  Rows(bs, a, c) = {m \in Minutes : bs[<<a, c, m>>].rows > 0}
  BY DEF Rows

\* The dashboard cuts the same windows.
LEMMA CellsShown ==
  ASSUME NEW bs \in [Keys -> BucketsOf(Int)], NEW a \in Actions, NEW c \in Cells,
         NEW now \in Minutes, bs[<<a, c, now>>].rows > 0
  PROVE  /\ <<a, c>> \in DOMAIN MetricCells(bs, now)
         /\ MetricCells(bs, now)[<<a, c>>] = AnalyzeCell(bs, a, c, now)
  <1> DEFINE start == BoardStart(now)
             rows == {k \in Keys : bs[k].rows > 0 /\ k[3] >= start - BaselineMinutes}
             of(x, y) == {k[3] : k \in {r \in rows : r[1] = x /\ r[2] = y}}
             current(x, y) == {m \in of(x, y) : m >= start}
             shown == {<<k[1], k[2]>> : k \in {r \in rows : r[3] >= start}}
  <1>1. MetricCells(bs, now) =
          [x \in shown |-> AnalyzeSeries(bs, x[1], x[2], current(x[1], x[2]),
                                         of(x[1], x[2]) \ current(x[1], x[2]))]
    BY DEF MetricCells
  <1>2. /\ now \in Int /\ CurrentMinutes \in Int /\ BaselineMinutes \in Int
        /\ CurrentMinutes > 0 /\ BaselineMinutes > 0 /\ start = now - (CurrentMinutes - 1)
        /\ \A m \in Minutes : m \in Int
    BY SeriesAssumption DEF BoardStart
  <1> HIDE DEF start
  <1>3. <<a, c, now>> \in rows /\ now >= start
    <2>1. now >= start /\ now >= start - BaselineMinutes
      BY ONLY <1>2
    <2> QED
      BY <2>1, KeyIs
  <1>4. <<a, c>> \in shown
    BY <1>3
  <1>5. ASSUME NEW m
        PROVE  m \in of(a, c) <=> m \in Rows(bs, a, c) /\ m >= start - BaselineMinutes
    <2>1. m \in of(a, c) => m \in Rows(bs, a, c) /\ m >= start - BaselineMinutes
      BY KeyIs, RowsIs
    <2>2. ASSUME m \in Rows(bs, a, c), m >= start - BaselineMinutes
          PROVE  m \in of(a, c)
      <3>1. <<a, c, m>> \in rows
        BY <2>2, KeyIs, RowsIs
      <3> QED
        BY <3>1
    <2> QED
      BY <2>1, <2>2
  <1> HIDE DEF rows, shown, of
  <1>6. Rows(bs, a, c) \subseteq Minutes
    BY DEF Rows
  <1>7. current(a, c) = Current(bs, a, c, now)
    <2>1. \A m \in Minutes : /\ m >= start <=> m > now - CurrentMinutes
                             /\ m >= start => m >= start - BaselineMinutes
      BY <1>2
    <2> QED
      BY ONLY <1>5, <1>6, <2>1 DEF Current
  <1>8. of(a, c) \ current(a, c) = Baseline(bs, a, c, now)
    <2>1. \A m \in Minutes :
            /\ ~(m >= start) <=> m <= now - CurrentMinutes
            /\ m >= start - BaselineMinutes <=> m > now - CurrentMinutes - BaselineMinutes
      BY ONLY <1>2
    <2> QED
      BY ONLY <1>5, <1>6, <2>1 DEF Baseline
  <1> HIDE DEF current
  <1> QED
    BY <1>1, <1>4, <1>7, <1>8 DEF AnalyzeCell

(***************************************************************************)
(* Invariants.                                                             *)
(***************************************************************************)
Severities == {"critical", "high", "medium", "low", "observe"}

Entries == [kind : Kinds, minute : Minutes]

IncidentRows == [count : Nat, users : SUBSET Users, countries : SUBSET Countries,
                 score : Nat, severity : Severities, alerted : BOOLEAN]

\* The types of TypeOK, for payloads of either sign, and finitely many users.
TriageTypes ==
  /\ clock \in Minutes
  /\ log \in Seq(Entries) /\ Len(log) <= MaxEvents
  /\ tries \in [Ids -> 0..MaxRetries + 1]
  /\ done \subseteq DOMAIN log
  /\ stage \in [Ids -> {"idle", "loaded", "rowless"}]
  /\ seen \in [Ids -> BucketsOf(Int)]
  /\ buckets \in [Keys -> BucketsOf(Int)]
  /\ velocity \in [Fingerprints -> [members : SUBSET Members, touched : Minutes]]
  /\ pushed \in [Fingerprints -> SUBSET Members]
  /\ incident \in [Fingerprints -> IncidentRows]
  /\ \A f \in Fingerprints : IsFiniteSet(incident[f].users)
  /\ faults \in 0..MaxFaults
  /\ last \in [id : 0..MaxEvents, window : Nat, base : Nat, anomaly : Anomalies]

\* Events are received in the past.
LogIsPast == \A i \in DOMAIN log : log[i].minute <= clock

\* Redis holds attempts that were made, and lost only what left the window:
\* the key lives as long as any of its members.
WindowKept ==
  \A f \in Fingerprints :
    /\ velocity[f].members \subseteq pushed[f]
    /\ velocity[f].touched <= clock
    /\ \A m \in pushed[f] : m[1] \in DOMAIN log
    /\ \A m \in velocity[f].members : log[m[1]].minute <= velocity[f].touched
    /\ \A m \in pushed[f] \ velocity[f].members :
         log[m[1]].minute <= clock - VelocityMinutes

\* What the last task decided still follows from its event and the buckets.
LastFollows ==
  last.id # 0 =>
    LET e == log[last.id].kind
        now == log[last.id].minute
    IN  /\ last.id \in done
        /\ last.anomaly = Max({DetectAnomaly(e), DetectBaselineAnomaly(buckets, e, now)})
        /\ e.action \in Actions =>
             \A c \in DimensionCells(e) : buckets[<<e.action, c, now>>].rows > 0
        /\ last.anomaly > 0 => incident[e.fp].alerted
        /\ e.level \in {"critical", "fatal"} => incident[e.fp].severity \in Urgent

\* The committed events of a cell in a log l of which d are done, the sum of a
\* count over some events, and a bucket drawn from the committed ones.
Mine(l, d, a, c, m) ==
  {i \in d : l[i].kind.action = a /\ c \in DimensionCells(l[i].kind) /\ l[i].minute = m}

Sum(l, S, field) == SumFunctionOnSet([i \in S |-> Counts(l[i].kind)[field]], S)

Drawn(l, d, bucket, a, c, m) ==
  \E S \in SUBSET Mine(l, d, a, c, m) :
    /\ \A field \in CountFields : bucket[field] = Sum(l, S, field)
    /\ c # "global" => S = Mine(l, d, a, c, m)

BucketsDrawn ==
  \A a \in Actions, c \in Cells, m \in Minutes :
    Drawn(log, done, buckets[<<a, c, m>>], a, c, m)

\* A task under way has not committed, and what it loaded was drawn from the
\* events committed then, not from its own.
TasksKept ==
  \A i \in Ids : stage[i] # "idle" =>
    /\ Pending(i)
    /\ log[i].kind.action \in Actions =>
         Drawn(log, done, seen[i], log[i].kind.action, "global", log[i].minute)

TriageInv ==
  /\ TriageTypes /\ LogIsPast /\ WindowKept /\ BucketsDrawn /\ TasksKept
  /\ LastFollows /\ UrgentIsAlerted

(***************************************************************************)
(* What a step does, in the terms of the invariants.                       *)
(***************************************************************************)
LEMMA EntryIs ==
  ASSUME TriageTypes, NEW i \in DOMAIN log
  PROVE  /\ log[i].kind \in Kinds /\ log[i].minute \in Minutes /\ log[i].minute \in Int
         /\ log[i].kind.fp \in Fingerprints /\ i \in 1..Len(log)
  <1>1. log \in Seq(Entries) /\ i \in 1..Len(log)
    BY DEF TriageTypes
  <1>2. log[i] \in Entries
    BY <1>1
  <1>3. log[i].kind \in Kinds /\ log[i].minute \in Minutes
    BY <1>2 DEF Entries
  <1>4. log[i].minute \in Int
    BY ONLY <1>3, MinutesAre
  <1> QED
    BY <1>1, <1>3, <1>4, EventTypes

LEMMA ReceiveIs ==
  ASSUME TriageTypes, NEW e \in Kinds, Receive(e)
  PROVE  /\ log' \in Seq(Entries) /\ Len(log') <= MaxEvents
         /\ DOMAIN log' = DOMAIN log \cup {Len(log) + 1}
         /\ \A i \in DOMAIN log : log'[i] = log[i]
         /\ log'[Len(log) + 1].minute = clock
  <1> DEFINE entry == [kind |-> e, minute |-> clock]
  <1>1. log \in Seq(Entries) /\ entry \in Entries /\ Len(log) < MaxEvents /\ MaxEvents \in Nat
    BY TriageAssumption DEF TriageTypes, Entries, Receive
  <1>2. log' = Append(log, entry)
    BY DEF Receive
  <1> HIDE DEF entry
  <1>3. /\ log' \in Seq(Entries) /\ Len(log') = Len(log) + 1
        /\ \A i \in 1..Len(log) : log'[i] = log[i]
        /\ log'[Len(log) + 1] = entry
    BY <1>1, <1>2
  <1>4. DOMAIN log = 1..Len(log) /\ DOMAIN log' = 1..Len(log') /\ Len(log) \in Nat
    BY <1>1, <1>3
  <1>5. 1..Len(log') = 1..Len(log) \cup {Len(log) + 1}
    BY <1>3, <1>4
  <1> QED
    BY <1>1, <1>3, <1>4, <1>5 DEF entry

LEMMA DecidedIs ==
  ASSUME NEW e \in Kinds, NEW inc \in IncidentRows, NEW base \in Nat, NEW anomaly \in Anomalies,
         e.level \in {"critical", "fatal"} => base >= 60
  PROVE  LET row == Decided(inc, e, base, anomaly)
         IN  /\ row \in IncidentRows /\ row.users = inc.users
             /\ row.severity \in Urgent => row.alerted
             /\ anomaly > 0 => row.alerted
             /\ e.level \in {"critical", "fatal"} => row.severity \in Urgent
  <1> DEFINE severity == IF anomaly > 0 THEN ScoreToSeverity(base + anomaly)
                                        ELSE Severity(e, base)
             alerted == inc.alerted \/ base + anomaly >= Threshold(e) \/ anomaly > 0
             row == Decided(inc, e, base, anomaly)
  <1>1. anomaly \in Nat /\ base + anomaly \in Nat /\ (anomaly > 0 => anomaly >= 20)
    BY DEF Anomalies
  <1>2. /\ severity \in Severities
        /\ anomaly = 0 /\ severity \in Urgent =>
             base >= 80 \/ e.level \in {"critical", "fatal"}
        /\ e.level \in {"critical", "fatal"} => severity \in Urgent
    <2>1. CASE anomaly > 0
      <3>1. /\ ScoreToSeverity(base + anomaly) \in Severities
            /\ base + anomaly >= 80 => ScoreToSeverity(base + anomaly) \in Urgent
        BY <1>1, SeverityIs DEF Severities
      <3>2. e.level \in {"critical", "fatal"} => base + anomaly >= 80
        BY <1>1, <2>1
      <3> QED
        BY <2>1, <3>1, <3>2, <1>1
    <2>2. CASE ~(anomaly > 0)
      <3>1. /\ ScoreToSeverity(base) \in Severities
            /\ ScoreToSeverity(base) \in Urgent <=> base >= 80
        BY SeverityIs DEF Severities
      <3> QED
        BY <2>2, <3>1 DEF Severity, Severities, Urgent
    <2> QED
      BY <2>1, <2>2
  <1>3. alerted \in BOOLEAN
    OBVIOUS
  <1>4. /\ severity \in Urgent => alerted
        /\ anomaly > 0 => alerted
    <2>1. Threshold(e) \in {40, 60}
      BY ThresholdIs
    <2>2. anomaly = 0 /\ severity \in Urgent => base + anomaly >= Threshold(e)
      <3> HIDE DEF severity
      <3> QED
        BY <1>1, <1>2, <2>1
    <2> HIDE DEF severity
    <2> QED
      BY <1>1, <2>2
  <1>5. row = [inc EXCEPT !.score = base + anomaly, !.severity = severity, !.alerted = alerted]
    BY DEF Decided
  <1> HIDE DEF severity, alerted, row
  <1>6. /\ row \in IncidentRows /\ row.users = inc.users
        /\ row.severity = severity /\ row.alerted = alerted
    BY <1>1, <1>2, <1>3, <1>5 DEF IncidentRows
  <1> QED
    BY <1>2, <1>4, <1>6 DEF row

LEMMA AbsorbIs ==
  ASSUME NEW e \in Kinds, NEW inc \in IncidentRows, IsFiniteSet(inc.users)
  PROVE  Absorb(inc, e) \in IncidentRows /\ IsFiniteSet(Absorb(inc, e).users)
  <1> DEFINE row == Absorb(inc, e)
             users == inc.users \cup ({e.user} \ {NoUser})
             countries == inc.countries \cup ({e.country} \ {NoCountry})
  <1>1. users \in SUBSET Users /\ countries \in SUBSET Countries
    BY EventTypes DEF IncidentRows, Users
  <1>2. IsFiniteSet(users)
    <2>1. IsFiniteSet({e.user})
      BY FS_Singleton
    <2>2. IsFiniteSet({e.user} \ {NoUser})
      BY <2>1, FS_Subset
    <2> QED
      BY <2>2, FS_Union
  <1>3. row = [inc EXCEPT !.count = inc.count + 1, !.users = users, !.countries = countries]
    BY DEF Absorb
  <1> HIDE DEF row, users, countries
  <1>4. row \in IncidentRows /\ row.users = users
    <2>1. inc.count + 1 \in Nat
      BY DEF IncidentRows
    <2> QED
      BY <1>1, <1>3, <2>1 DEF IncidentRows
  <1> QED
    BY <1>2, <1>4 DEF row

LEMMA MembersFinite == IsFiniteSet(Members)
  <1>1. MaxEvents \in Nat /\ MaxRetries \in Nat
    BY TriageAssumption
  <1>2. IsFiniteSet(1..MaxEvents) /\ IsFiniteSet(0..MaxRetries)
    <2>1. 1..MaxEvents \in SUBSET Nat /\ \A x \in 1..MaxEvents : x <= MaxEvents
      BY <1>1
    <2>2. 0..MaxRetries \in SUBSET Nat /\ \A x \in 0..MaxRetries : x <= MaxRetries
      BY <1>1
    <2> QED
      BY <1>1, <2>1, <2>2, FS_BoundedSetOfNaturals
  <1> QED
    BY <1>2, FS_Product DEF Members, Ids

\* An attempt is recorded: the window is trimmed at the event's own minute.
LEMMA RecordVelocityIs ==
  ASSUME TriageTypes, LogIsPast, WindowKept, NEW i \in DOMAIN log, i \in Ids,
         tries[i] <= MaxRetries, RecordVelocity(i)
  PROVE  LET f == log[i].kind.fp
             member == <<i, tries[i]>>
         IN  /\ velocity' \in [Fingerprints -> [members : SUBSET Members, touched : Minutes]]
             /\ pushed' \in [Fingerprints -> SUBSET Members]
             /\ pushed'[f] = pushed[f] \cup {member}
             /\ velocity'[f].members = Trim(velocity[f].members \cup {member}, log[i].minute)
             /\ velocity'[f].touched = clock
             /\ \A g \in Fingerprints \ {f} :
                  velocity'[g] = velocity[g] /\ pushed'[g] = pushed[g]
  <1> DEFINE f == log[i].kind.fp
             member == <<i, tries[i]>>
             row == [members |-> Trim(velocity[f].members \cup {member}, log[i].minute),
                     touched |-> clock]
  <1>1. f \in Fingerprints
    BY EntryIs
  <1>2. member \in Members
    <2>1. tries[i] \in 0..MaxRetries
      BY TriageAssumption DEF TriageTypes
    <2> QED
      BY <2>1 DEF Members
  <1>3. row \in [members : SUBSET Members, touched : Minutes]
    <2>1. velocity[f].members \subseteq Members
      BY <1>1 DEF TriageTypes
    <2>2. Trim(velocity[f].members \cup {member}, log[i].minute) \subseteq Members
      BY <1>2, <2>1 DEF Trim
    <2> QED
      BY <2>2 DEF TriageTypes
  <1>4. /\ velocity' = [velocity EXCEPT ![f] = row]
        /\ pushed' = [pushed EXCEPT ![f] = @ \cup {member}]
    BY DEF RecordVelocity
  <1>5. pushed[f] \cup {member} \in SUBSET Members
    BY <1>1, <1>2 DEF TriageTypes
  <1>6. row.members = Trim(velocity[f].members \cup {member}, log[i].minute)
        /\ row.touched = clock
    OBVIOUS
  <1>7. /\ velocity \in [Fingerprints -> [members : SUBSET Members, touched : Minutes]]
        /\ pushed \in [Fingerprints -> SUBSET Members]
    BY DEF TriageTypes
  <1> HIDE DEF f, member, row
  <1>8. /\ velocity' \in [Fingerprints -> [members : SUBSET Members, touched : Minutes]]
        /\ velocity'[f] = row
        /\ \A g \in Fingerprints \ {f} : velocity'[g] = velocity[g]
    BY <1>1, <1>3, <1>4, <1>7
  <1>9. /\ pushed' \in [Fingerprints -> SUBSET Members]
        /\ pushed'[f] = pushed[f] \cup {member}
        /\ \A g \in Fingerprints \ {f} : pushed'[g] = pushed[g]
    BY <1>1, <1>4, <1>5, <1>7
  <1> QED
    BY <1>6, <1>8, <1>9 DEF f, member

LEMMA WindowStep ==
  ASSUME TriageTypes, LogIsPast, WindowKept, NEW i \in DOMAIN log, i \in Ids,
         tries[i] <= MaxRetries, RecordVelocity(i), UNCHANGED <<clock, log>>
  PROVE  WindowKept'
  <1> DEFINE f == log[i].kind.fp
             member == <<i, tries[i]>>
             now == log[i].minute
  <1>1. /\ now <= clock /\ now \in Int /\ clock \in Int /\ VelocityMinutes \in Int
        /\ f \in Fingerprints
    BY EntryIs, MinutesAre, TriageAssumption DEF LogIsPast, TriageTypes
  <1>2. /\ pushed'[f] = pushed[f] \cup {member}
        /\ velocity'[f].members =
             {m \in velocity[f].members \cup {member} :
                log[m[1]].minute > now - VelocityMinutes}
        /\ velocity'[f].touched = clock
        /\ \A g \in Fingerprints \ {f} : velocity'[g] = velocity[g] /\ pushed'[g] = pushed[g]
    BY RecordVelocityIs DEF Trim
  <1>3. \A g \in Fingerprints :
          /\ velocity[g].members \subseteq pushed[g]
          /\ velocity[g].touched <= clock
          /\ \A m \in pushed[g] : m[1] \in DOMAIN log
          /\ \A m \in velocity[g].members : log[m[1]].minute <= velocity[g].touched
          /\ \A m \in pushed[g] \ velocity[g].members :
               log[m[1]].minute <= clock - VelocityMinutes
    BY DEF WindowKept
  <1>4. /\ member[1] = i
        /\ \A m \in pushed'[f] :
             m[1] \in DOMAIN log /\ log[m[1]].minute \in Int /\ log[m[1]].minute <= clock
    <2>1. \A m \in pushed'[f] : m[1] \in DOMAIN log
      BY <1>1, <1>2, <1>3
    <2> QED
      BY <2>1, EntryIs DEF LogIsPast
  <1> HIDE DEF f, member, now
  <1>5. /\ velocity'[f].members \subseteq pushed'[f]
        /\ velocity'[f].touched <= clock
        /\ \A m \in pushed'[f] : m[1] \in DOMAIN log
        /\ \A m \in velocity'[f].members : log[m[1]].minute <= velocity'[f].touched
    <2>1. velocity'[f].members \subseteq pushed'[f]
      BY <1>1, <1>2, <1>3
    <2> QED
      BY <1>1, <1>2, <1>4, <2>1
  <1>6. ASSUME NEW m \in pushed'[f] \ velocity'[f].members
        PROVE  log[m[1]].minute <= clock - VelocityMinutes
    <2>1. CASE m \in velocity[f].members \cup {member}
      <3>1. ~(log[m[1]].minute > now - VelocityMinutes)
        BY <1>2, <2>1
      <3>2. log[m[1]].minute \in Int
        BY <1>4
      <3> QED
        BY <1>1, <3>1, <3>2
    <2>2. CASE m \notin velocity[f].members \cup {member}
      BY <1>1, <1>2, <1>3, <2>2
    <2> QED
      BY <2>1, <2>2
  <1>7. \A g \in Fingerprints :
          /\ velocity'[g].members \subseteq pushed'[g]
          /\ velocity'[g].touched <= clock
          /\ \A m \in pushed'[g] : m[1] \in DOMAIN log
          /\ \A m \in velocity'[g].members : log[m[1]].minute <= velocity'[g].touched
          /\ \A m \in pushed'[g] \ velocity'[g].members :
               log[m[1]].minute <= clock - VelocityMinutes
    <2> SUFFICES ASSUME NEW g \in Fingerprints
        PROVE /\ velocity'[g].members \subseteq pushed'[g]
              /\ velocity'[g].touched <= clock
              /\ \A m \in pushed'[g] : m[1] \in DOMAIN log
              /\ \A m \in velocity'[g].members : log[m[1]].minute <= velocity'[g].touched
              /\ \A m \in pushed'[g] \ velocity'[g].members :
                   log[m[1]].minute <= clock - VelocityMinutes
      OBVIOUS
    <2>1. CASE g = f
      BY <1>5, <1>6, <2>1
    <2>2. CASE g # f
      <3>1. velocity'[g] = velocity[g] /\ pushed'[g] = pushed[g]
        BY <1>2, <2>2
      <3> QED
        BY <1>3, <3>1
    <2> QED
      BY <2>1, <2>2
  <1> QED
    BY <1>7 DEF WindowKept

LEMMA PendingIs ==
  ASSUME TriageTypes, NEW i \in Ids, Pending(i)
  PROVE  i \in DOMAIN log /\ i \notin done /\ tries[i] <= MaxRetries
         /\ [tries EXCEPT ![i] = @ + 1] \in [Ids -> 0..MaxRetries + 1]
  <1>1. tries[i] \in 0..MaxRetries + 1 /\ tries[i] <= MaxRetries /\ MaxRetries \in Nat
    BY TriageAssumption DEF TriageTypes, Pending
  <1>2. tries[i] + 1 \in 0..MaxRetries + 1
    BY <1>1
  <1> QED
    BY <1>1, <1>2 DEF TriageTypes, Pending

\* The velocity window and its history, for a task that reaches Redis or not.
LEMMA RedisIs ==
  ASSUME TriageTypes, LogIsPast, WindowKept, NEW i \in Ids, Pending(i),
         RecordVelocity(i) \/ UNCHANGED <<velocity, pushed>>, UNCHANGED <<clock, log>>
  PROVE  /\ velocity' \in [Fingerprints -> [members : SUBSET Members, touched : Minutes]]
         /\ pushed' \in [Fingerprints -> SUBSET Members]
         /\ WindowKept'
         /\ CountVelocity(i) \in Nat
  <1>1. i \in DOMAIN log /\ tries[i] <= MaxRetries
    BY PendingIs
  <1>2. /\ velocity' \in [Fingerprints -> [members : SUBSET Members, touched : Minutes]]
        /\ pushed' \in [Fingerprints -> SUBSET Members]
        /\ WindowKept'
    <2>1. CASE RecordVelocity(i)
      BY <1>1, <2>1, RecordVelocityIs, WindowStep
    <2>2. CASE UNCHANGED <<velocity, pushed>>
      BY <2>2 DEF TriageTypes, WindowKept
    <2> QED
      BY <2>1, <2>2
  <1>3. velocity'[log[i].kind.fp].members \in SUBSET Members /\ log' = log
    <2>1. log[i].kind.fp \in Fingerprints
      BY <1>1, EntryIs
    <2> QED
      BY <1>2, <2>1
  <1>4. CountVelocity(i) \in Nat
    <2>1. IsFiniteSet(velocity'[log[i].kind.fp].members)
      BY <1>3, MembersFinite, FS_Subset
    <2> QED
      BY <2>1, FS_CardinalityType DEF CountVelocity
  <1> QED
    BY <1>2, <1>4

\* What the task that commits writes: some window count, from it a base score,
\* and the worse of the two anomalies; nothing of it for an incident whose row
\* was rolled back.
Absorbed(i) ==
  Absorb(IF stage[i] = "rowless" THEN NewIncident ELSE incident[log[i].kind.fp], log[i].kind)

Verdict(i, inc, window, base, anomaly) ==
  LET e == log[i].kind
      rowless == stage[i] = "rowless"
  IN  /\ window = IF <<i, tries[i]>> \in pushed'[e.fp] THEN CountVelocity(i) ELSE inc.count
      /\ base = Criticality(e, Cardinality(inc.users), window, inc.countries)
      /\ anomaly = Max({DetectAnomaly(e), DetectBaselineAnomaly(buckets', e, log[i].minute)})
      /\ incident' = IF rowless THEN incident
                     ELSE [incident EXCEPT ![e.fp] = Decided(inc, e, base, anomaly)]
      /\ last' = [id |-> IF rowless THEN 0 ELSE i, window |-> window, base |-> base,
                  anomaly |-> anomaly]

LEMMA WorseOf ==
  ASSUME NEW x \in Anomalies, NEW y \in Anomalies
  PROVE  Max({x, y}) \in Anomalies /\ Max({x, y}) >= x /\ Max({x, y}) >= y
  <1>1. {x, y} \subseteq 0..60 /\ {x, y} # {}
    BY DEF Anomalies
  <1>2. Max({x, y}) \in {x, y} /\ \A z \in {x, y} : Max({x, y}) >= z
    BY ONLY <1>1, Worst
  <1> QED
    BY <1>2

LEMMA NewIncidentIs == NewIncident \in IncidentRows /\ IsFiniteSet(NewIncident.users)
  BY FS_EmptySet DEF NewIncident, IncidentRows, Severities

LEMMA ProcessIs ==
  ASSUME TriageTypes, LogIsPast, WindowKept, TasksKept, NEW i \in Ids, Process(i)
  PROVE  LET e == log[i].kind
             inc == Absorbed(i)
         IN  /\ Pending(i)
             /\ buckets' = RecordEventMetrics(buckets, seen[i], e, log[i].minute)
             /\ buckets' \in [Keys -> BucketsOf(Int)]
             /\ inc \in IncidentRows /\ IsFiniteSet(inc.users)
             /\ \E window \in Nat, base \in Nat, anomaly \in Anomalies :
                  /\ Verdict(i, inc, window, base, anomaly)
                  /\ e.level \in {"critical", "fatal"} => base >= 60
  <1> DEFINE e == log[i].kind
             now == log[i].minute
             inc == Absorbed(i)
             window == IF <<i, tries[i]>> \in pushed'[e.fp] THEN CountVelocity(i) ELSE inc.count
             base == Criticality(e, Cardinality(inc.users), window, inc.countries)
             own == DetectAnomaly(e)
             worst == DetectBaselineAnomaly(buckets', e, now)
             anomaly == Max({own, worst})
  <1>1. Pending(i) /\ i \in DOMAIN log /\ UNCHANGED <<clock, log>>
    BY PendingIs DEF Process, TasksKept
  <1>2. e \in Kinds /\ now \in Minutes /\ e.fp \in Fingerprints
    BY <1>1, EntryIs
  <1>3. buckets' = RecordEventMetrics(buckets, seen[i], e, now)
    BY DEF Process
  <1>4. buckets' \in [Keys -> BucketsOf(Int)]
    <2>1. buckets \in [Keys -> BucketsOf(Int)] /\ seen[i] \in BucketsOf(Int)
      BY DEF TriageTypes
    <2> HIDE DEF e, now
    <2> QED
      BY <1>2, <1>3, <2>1, RecordInt
  <1>5. inc \in IncidentRows /\ IsFiniteSet(inc.users)
    <2> DEFINE row == IF stage[i] = "rowless" THEN NewIncident ELSE incident[e.fp]
    <2>1. row \in IncidentRows /\ IsFiniteSet(row.users)
      BY <1>2, NewIncidentIs DEF TriageTypes
    <2>2. inc = Absorb(row, e)
      BY DEF Absorbed
    <2> HIDE DEF e, row, inc
    <2> QED
      BY <1>2, <2>1, <2>2, AbsorbIs
  <1>6. window \in Nat
    <2>1. RecordVelocity(i) \/ UNCHANGED <<velocity, pushed>>
      BY DEF Process
    <2>2. CountVelocity(i) \in Nat
      BY <1>1, <2>1, RedisIs
    <2>3. inc.count \in Nat
      BY <1>5 DEF IncidentRows
    <2> QED
      BY <2>2, <2>3
  <1>7. base \in Nat /\ (e.level \in {"critical", "fatal"} => base >= 60)
    <2>1. Cardinality(inc.users) \in Nat
      BY <1>5, FS_CardinalityType
    <2> HIDE DEF e, inc, window
    <2> QED
      BY <1>2, <1>6, <2>1, CriticalityIs
  <1>8. anomaly \in Anomalies
    <2>1. own \in Anomalies /\ worst \in Anomalies
      BY <1>2, <1>4, AnomalyIs, BaselineAnomalyIs
    <2> HIDE DEF own, worst
    <2> QED
      BY <2>1, WorseOf
  <1>9. Verdict(i, inc, window, base, anomaly)
    BY DEF Process, Verdict, Absorbed
  <1> HIDE DEF window, base, anomaly
  <1> QED
    BY <1>1, <1>3, <1>4, <1>5, <1>6, <1>7, <1>8, <1>9

(***************************************************************************)
(* The initial state and every step.                                       *)
(***************************************************************************)
LEMMA InitInv == Init => TriageInv
  <1> SUFFICES ASSUME Init PROVE TriageInv
    OBVIOUS
  <1>1. clock \in Minutes
    BY FirstMinute DEF Init
  <1>2. TriageTypes
    <2>1. log \in Seq(Entries) /\ Len(log) <= MaxEvents /\ MaxEvents \in Nat
      BY TriageAssumption DEF Init
    <2>2. tries \in [Ids -> 0..MaxRetries + 1] /\ done \subseteq DOMAIN log
      BY TriageAssumption DEF Init
    <2>3. /\ buckets \in [Keys -> BucketsOf(Int)] /\ seen \in [Ids -> BucketsOf(Int)]
          /\ stage \in [Ids -> {"idle", "loaded", "rowless"}]
      <3>1. NoBucket \in BucketsOf(Int)
        BY DEF NoBucket, BucketsOf
      <3> QED
        BY <3>1 DEF Init
    <2>4. /\ velocity \in [Fingerprints -> [members : SUBSET Members, touched : Minutes]]
          /\ pushed \in [Fingerprints -> SUBSET Members]
      BY <1>1 DEF Init
    <2>6. /\ incident \in [Fingerprints -> IncidentRows]
          /\ \A f \in Fingerprints : IsFiniteSet(incident[f].users)
      BY NewIncidentIs DEF Init
    <2>7. faults \in 0..MaxFaults
      BY TriageAssumption DEF Init
    <2>8. last \in [id : 0..MaxEvents, window : Nat, base : Nat, anomaly : Anomalies]
      BY <2>1 DEF Init, Nothing, Anomalies
    <2> QED
      BY <1>1, <2>1, <2>2, <2>3, <2>4, <2>6, <2>7, <2>8 DEF TriageTypes
  <1>3. LogIsPast
    BY DEF Init, LogIsPast
  <1>4. WindowKept
    <2>1. \A f \in Fingerprints : velocity[f] = [members |-> {}, touched |-> clock] /\ pushed[f] = {}
      BY DEF Init
    <2>2. clock <= clock
      BY <1>1, MinutesAre
    <2> QED
      BY <2>1, <2>2 DEF WindowKept
  <1>5. BucketsDrawn
    <2> SUFFICES ASSUME NEW a \in Actions, NEW c \in Cells, NEW m \in Minutes
                 PROVE  Drawn(log, done, buckets[<<a, c, m>>], a, c, m)
      BY DEF BucketsDrawn
    <2>1. Mine(log, done, a, c, m) = {}
      BY DEF Init, Mine
    <2>2. buckets[<<a, c, m>>] = NoBucket
      BY KeyIs DEF Init
    <2>3. ASSUME NEW field \in CountFields
          PROVE  NoBucket[field] = 0 /\ Sum(log, {}, field) = 0
      BY SumEmpty DEF NoBucket, CountFields, Sum
    <2> QED
      BY <2>1, <2>2, <2>3 DEF Drawn
  <1>8. TasksKept
    BY DEF Init, TasksKept
  <1>6. LastFollows
    BY DEF Init, Nothing, LastFollows
  <1>7. UrgentIsAlerted
    BY DEF Init, NewIncident, UrgentIsAlerted, Urgent
  <1> QED
    BY <1>2, <1>3, <1>4, <1>5, <1>6, <1>7, <1>8 DEF TriageInv

StageTypes == stage \in [Ids -> {"idle", "loaded", "rowless"}] /\ seen \in [Ids -> BucketsOf(Int)]

LEMMA LeaveIs ==
  ASSUME TriageTypes, NEW i \in Ids, Leave(i)
  PROVE  /\ StageTypes' /\ stage'[i] = "idle"
         /\ \A j \in Ids \ {i} : stage'[j] = stage[j] /\ seen'[j] = seen[j]
  <1>1. NoBucket \in BucketsOf(Int)
    BY DEF NoBucket, BucketsOf
  <1> HIDE DEF NoBucket
  <1> QED
    BY <1>1 DEF TriageTypes, Leave, Enter, StageTypes

LEMMA CommittedIs ==
  ASSUME TriageTypes, NEW i \in DOMAIN log
  PROVE  /\ Committed(i) \in BucketsOf(Int)
         /\ log[i].kind.action \in Actions =>
              Committed(i) = buckets[<<log[i].kind.action, "global", log[i].minute>>]
  <1>1. NoBucket \in BucketsOf(Int)
    BY DEF NoBucket, BucketsOf
  <1>2. log[i].kind \in Kinds /\ log[i].minute \in Minutes /\ "global" \in Cells
    BY EntryIs DEF Cells
  <1>3. CASE log[i].kind.action = NoAction
    BY <1>1, <1>3, SeriesAssumption DEF Committed
  <1>4. CASE log[i].kind.action # NoAction
    <2>1. log[i].kind.action \in Actions
      BY <1>2, <1>4, EventTypes
    <2>2. <<log[i].kind.action, "global", log[i].minute>> \in Keys
      BY <1>2, <2>1, KeyIs
    <2> QED
      BY <1>4, <2>2 DEF Committed, TriageTypes
  <1> QED
    BY <1>3, <1>4

LEMMA TypesStep == TriageInv /\ [Next]_vars => TriageTypes'
  <1> SUFFICES ASSUME TriageInv, [Next]_vars PROVE TriageTypes'
    OBVIOUS
  <1>i. TriageTypes /\ LogIsPast /\ WindowKept /\ TasksKept
    BY DEF TriageInv
  <1>1. ASSUME NEW e \in Kinds, Receive(e) PROVE TriageTypes'
    <2>1. log' \in Seq(Entries) /\ Len(log') <= MaxEvents /\ DOMAIN log \subseteq DOMAIN log'
      BY <1>i, <1>1, ReceiveIs
    <2> QED
      BY <1>i, <1>1, <2>1 DEF TriageTypes, Receive, task
  <1>2. ASSUME NEW i \in Ids, Process(i) PROVE TriageTypes'
    <2> DEFINE e == log[i].kind
               inc == Absorbed(i)
    <2>1. /\ Pending(i) /\ UNCHANGED <<clock, log>>
          /\ RecordVelocity(i) \/ UNCHANGED <<velocity, pushed>>
          /\ faults' \in 0..MaxFaults /\ Leave(i)
          /\ done' = done \cup {i} /\ tries' = [tries EXCEPT ![i] = @ + 1]
      <3>1. faults' \in 0..MaxFaults
        BY <1>i, <1>2, TriageAssumption DEF Process, Fault, TriageTypes
      <3>2. Pending(i)
        BY <1>i, <1>2, ProcessIs
      <3> QED
        BY <1>2, <3>1, <3>2 DEF Process
    <2>2. /\ velocity' \in [Fingerprints -> [members : SUBSET Members, touched : Minutes]]
          /\ pushed' \in [Fingerprints -> SUBSET Members]
      BY <1>i, <2>1, RedisIs
    <2>3. i \in DOMAIN log /\ tries' \in [Ids -> 0..MaxRetries + 1]
      BY <1>i, <2>1, PendingIs
    <2>4. e \in Kinds /\ e.fp \in Fingerprints
      BY <1>i, <2>3, EntryIs
    <2>5. /\ buckets' \in [Keys -> BucketsOf(Int)]
          /\ inc \in IncidentRows /\ IsFiniteSet(inc.users)
      BY <1>i, <1>2, ProcessIs
    <2>6. PICK window \in Nat, base \in Nat, anomaly \in Anomalies :
            /\ Verdict(i, inc, window, base, anomaly)
            /\ e.level \in {"critical", "fatal"} => base >= 60
      BY <1>i, <1>2, ProcessIs
    <2>7. /\ \/ incident' = incident
             \/ incident' = [incident EXCEPT ![e.fp] = Decided(inc, e, base, anomaly)]
          /\ last' = [id |-> IF stage[i] = "rowless" THEN 0 ELSE i, window |-> window,
                      base |-> base, anomaly |-> anomaly]
      BY <2>6 DEF Verdict
    <2>8. /\ incident' \in [Fingerprints -> IncidentRows]
          /\ \A f \in Fingerprints : IsFiniteSet(incident'[f].users)
      <3> DEFINE row == Decided(inc, e, base, anomaly)
      <3> HIDE DEF e, inc
      <3>1. row \in IncidentRows /\ row.users = inc.users
        BY <2>4, <2>5, <2>6, DecidedIs
      <3> HIDE DEF row
      <3>2. /\ incident \in [Fingerprints -> IncidentRows]
            /\ \A f \in Fingerprints : IsFiniteSet(incident[f].users)
        BY <1>i DEF TriageTypes
      <3>3. incident' = incident \/ incident' = [incident EXCEPT ![e.fp] = row]
        BY <2>7 DEF row
      <3> QED
        BY <2>4, <2>5, <3>1, <3>2, <3>3
    <2>9. last' \in [id : 0..MaxEvents, window : Nat, base : Nat, anomaly : Anomalies]
      <3>1. i \in 0..MaxEvents /\ 0 \in 0..MaxEvents
        BY TriageAssumption DEF Ids
      <3> QED
        BY <2>7, <3>1
    <2>10. done' \subseteq DOMAIN log'
      BY <1>i, <2>1, <2>3 DEF TriageTypes
    <2>11. StageTypes'
      BY <1>i, <2>1, LeaveIs
    <2> QED
      BY <1>i, <2>1, <2>2, <2>3, <2>5, <2>8, <2>9, <2>10, <2>11 DEF TriageTypes, StageTypes
  <1>3. ASSUME NEW i \in Ids, Fails(i) PROVE TriageTypes'
    <2>1. /\ Pending(i)
          /\ RecordVelocity(i) \/ UNCHANGED <<velocity, pushed>>
          /\ tries' = [tries EXCEPT ![i] = @ + 1] /\ Leave(i)
          /\ UNCHANGED <<clock, log, done, buckets, incident, last>>
      BY <1>3 DEF Fails
    <2>2. /\ velocity' \in [Fingerprints -> [members : SUBSET Members, touched : Minutes]]
          /\ pushed' \in [Fingerprints -> SUBSET Members]
      BY <1>i, <2>1, RedisIs
    <2>3. tries' \in [Ids -> 0..MaxRetries + 1]
      BY <1>i, <2>1, PendingIs
    <2>4. faults' \in 0..MaxFaults
      BY <1>i, <1>3, TriageAssumption DEF Fails, Fault, TriageTypes
    <2>5. StageTypes'
      BY <1>i, <2>1, LeaveIs
    <2> QED
      BY <1>i, <2>1, <2>2, <2>3, <2>4, <2>5 DEF TriageTypes, StageTypes
  <1>4. ASSUME NEW f \in Fingerprints, KeyExpires(f) PROVE TriageTypes'
    <2>1. velocity' \in [Fingerprints -> [members : SUBSET Members, touched : Minutes]]
      BY <1>i, <1>4 DEF KeyExpires, TriageTypes
    <2> QED
      BY <1>i, <1>4, <2>1 DEF KeyExpires, TriageTypes, task
  <1>5. ASSUME Tick PROVE TriageTypes'
    BY <1>i, <1>5 DEF Tick, TriageTypes, task
  <1>6. ASSUME UNCHANGED vars PROVE TriageTypes'
    BY <1>i, <1>6 DEF vars, task, TriageTypes
  <1>7. ASSUME NEW i \in Ids, SelectBucket(i) PROVE TriageTypes'
    <2>1. i \in DOMAIN log
      BY <1>7 DEF SelectBucket, Pending
    <2>2. Committed(i) \in BucketsOf(Int)
      BY <1>i, <2>1, CommittedIs
    <2>3. /\ stage' = [stage EXCEPT ![i] = "loaded"] /\ seen' = [seen EXCEPT ![i] = Committed(i)]
          /\ UNCHANGED <<clock, log, tries, done, buckets, velocity, pushed, incident, faults, last>>
      BY <1>7 DEF SelectBucket, Enter
    <2> QED
      BY <1>i, <2>2, <2>3 DEF TriageTypes
  <1>8. ASSUME NEW i \in Ids, LoseBucketRace(i) PROVE TriageTypes'
    <2>1. Pending(i)
      BY <1>i, <1>8 DEF LoseBucketRace, TasksKept
    <2>2. i \in DOMAIN log /\ [tries EXCEPT ![i] = @ + 1] \in [Ids -> 0..MaxRetries + 1]
      BY <1>i, <2>1, PendingIs
    <2>3. UNCHANGED <<clock, log, done, buckets, velocity, pushed, incident, faults, last>>
      BY <1>8 DEF LoseBucketRace
    <2>4. CASE tries' = [tries EXCEPT ![i] = @ + 1] /\ Leave(i)
      <3>1. StageTypes'
        BY <1>i, <2>4, LeaveIs
      <3> QED
        BY <1>i, <2>2, <2>3, <2>4, <3>1 DEF TriageTypes, StageTypes
    <2>5. CASE Enter(i, "rowless") /\ seen' = [seen EXCEPT ![i] = Committed(i)] /\ UNCHANGED tries
      <3>1. Committed(i) \in BucketsOf(Int)
        BY <1>i, <2>2, CommittedIs
      <3> QED
        BY <1>i, <2>3, <2>5, <3>1 DEF TriageTypes, Enter
    <2> QED
      BY <1>8, <2>4, <2>5 DEF LoseBucketRace
  <1> QED
    BY <1>1, <1>2, <1>3, <1>4, <1>5, <1>6, <1>7, <1>8 DEF Next

LEMMA PastStep == TriageInv /\ [Next]_vars => LogIsPast'
  <1> SUFFICES ASSUME TriageInv, [Next]_vars PROVE LogIsPast'
    OBVIOUS
  <1>i. TriageTypes /\ LogIsPast /\ clock \in Int
    BY MinutesAre DEF TriageInv, TriageTypes
  <1>1. ASSUME NEW e \in Kinds, Receive(e) PROVE LogIsPast'
    <2>1. /\ DOMAIN log' = DOMAIN log \cup {Len(log) + 1}
          /\ \A i \in DOMAIN log : log'[i] = log[i]
          /\ log'[Len(log) + 1].minute = clock
      BY <1>i, <1>1, ReceiveIs
    <2>2. clock' = clock /\ clock <= clock
      BY <1>i, <1>1 DEF Receive
    <2> QED
      BY <1>i, <2>1, <2>2 DEF LogIsPast
  <1>2. ASSUME UNCHANGED <<log, clock>> PROVE LogIsPast'
    BY <1>i, <1>2 DEF LogIsPast
  <1>3. ASSUME Tick PROVE LogIsPast'
    <2>1. clock' = clock + 1 /\ log' = log
      BY <1>3 DEF Tick
    <2>2. ASSUME NEW i \in DOMAIN log PROVE log[i].minute <= clock + 1
      <3>1. log[i].minute \in Int /\ log[i].minute <= clock
        BY <1>i, EntryIs DEF LogIsPast
      <3> QED
        BY <1>i, <3>1
    <2> QED
      BY <2>1, <2>2 DEF LogIsPast
  <1>4. \/ \E e \in Kinds : Receive(e)
        \/ UNCHANGED <<log, clock>>
        \/ Tick
    BY DEF Next, SelectBucket, LoseBucketRace, Process, Fails, KeyExpires, vars
  <1> QED
    BY <1>1, <1>2, <1>3, <1>4

LEMMA KeptStep == TriageInv /\ [Next]_vars => WindowKept'
  <1> SUFFICES ASSUME TriageInv, [Next]_vars PROVE WindowKept'
    OBVIOUS
  <1>i. TriageTypes /\ LogIsPast /\ WindowKept /\ TasksKept
    BY DEF TriageInv
  <1>v. clock \in Int /\ VelocityMinutes \in Int
    BY <1>i, MinutesAre, TriageAssumption DEF TriageTypes
  <1>k. \A f \in Fingerprints :
          /\ velocity[f].members \subseteq pushed[f]
          /\ velocity[f].touched <= clock
          /\ \A m \in pushed[f] : m[1] \in DOMAIN log
          /\ \A m \in velocity[f].members : log[m[1]].minute <= velocity[f].touched
          /\ \A m \in pushed[f] \ velocity[f].members :
               log[m[1]].minute <= clock - VelocityMinutes
    BY <1>i DEF WindowKept
  <1>m. ASSUME NEW f \in Fingerprints
        PROVE  /\ velocity[f].touched \in Int
               /\ \A m \in pushed[f] : log[m[1]].minute \in Int
    <2>1. velocity[f].touched \in Minutes
      BY <1>i DEF TriageTypes
    <2>2. \A m \in pushed[f] : m[1] \in DOMAIN log
      BY <1>k
    <2> QED
      BY <1>i, <2>1, <2>2, MinutesAre, EntryIs
  <1>1. ASSUME NEW e \in Kinds, Receive(e) PROVE WindowKept'
    <2>1. /\ DOMAIN log \subseteq DOMAIN log'
          /\ \A i \in DOMAIN log : log'[i] = log[i]
      BY <1>i, <1>1, ReceiveIs
    <2>2. UNCHANGED <<clock, velocity, pushed>>
      BY <1>1 DEF Receive
    <2>3. \A f \in Fingerprints :
            /\ velocity[f].members \subseteq pushed[f]
            /\ velocity[f].touched <= clock
            /\ \A m \in pushed[f] : m[1] \in DOMAIN log'
            /\ \A m \in velocity[f].members : log'[m[1]].minute <= velocity[f].touched
            /\ \A m \in pushed[f] \ velocity[f].members :
                 log'[m[1]].minute <= clock - VelocityMinutes
      <3> SUFFICES ASSUME NEW f \in Fingerprints
          PROVE /\ velocity[f].members \subseteq pushed[f]
                /\ velocity[f].touched <= clock
                /\ \A m \in pushed[f] : m[1] \in DOMAIN log'
                /\ \A m \in velocity[f].members : log'[m[1]].minute <= velocity[f].touched
                /\ \A m \in pushed[f] \ velocity[f].members :
                     log'[m[1]].minute <= clock - VelocityMinutes
        OBVIOUS
      <3>1. \A m \in pushed[f] : m[1] \in DOMAIN log /\ log'[m[1]] = log[m[1]]
        BY <1>k, <2>1
      <3> QED
        BY <1>k, <2>1, <3>1
    <2> QED
      BY <2>2, <2>3 DEF WindowKept
  <1>2. ASSUME NEW i \in Ids, Process(i) \/ Fails(i) PROVE WindowKept'
    <2>1. /\ Pending(i) /\ UNCHANGED <<clock, log>>
          /\ RecordVelocity(i) \/ UNCHANGED <<velocity, pushed>>
      BY <1>i, <1>2 DEF Process, Fails, TasksKept
    <2> QED
      BY <1>i, <2>1, RedisIs
  <1>3. ASSUME NEW f \in Fingerprints, KeyExpires(f) PROVE WindowKept'
    <2>1. /\ clock - velocity[f].touched >= VelocityMinutes
          /\ velocity' = [velocity EXCEPT ![f].members = {}]
          /\ UNCHANGED <<clock, log, pushed>>
      BY <1>3 DEF KeyExpires
    <2>2. /\ velocity'[f].members = {} /\ velocity'[f].touched = velocity[f].touched
          /\ \A g \in Fingerprints \ {f} : velocity'[g] = velocity[g]
      BY <1>i, <2>1 DEF TriageTypes
    <2>3. ASSUME NEW m \in pushed[f] PROVE log[m[1]].minute <= clock - VelocityMinutes
      <3>1. CASE m \in velocity[f].members
        <4>1. log[m[1]].minute <= velocity[f].touched /\ velocity[f].touched \in Int
              /\ log[m[1]].minute \in Int
          BY <1>k, <1>m, <3>1
        <4> QED
          BY <1>v, <2>1, <4>1
      <3>2. CASE m \notin velocity[f].members
        BY <1>k, <3>2
      <3> QED
        BY <3>1, <3>2
    <2>4. \A g \in Fingerprints :
            /\ velocity'[g].members \subseteq pushed[g]
            /\ velocity'[g].touched <= clock
            /\ \A m \in pushed[g] : m[1] \in DOMAIN log
            /\ \A m \in velocity'[g].members : log[m[1]].minute <= velocity'[g].touched
            /\ \A m \in pushed[g] \ velocity'[g].members :
                 log[m[1]].minute <= clock - VelocityMinutes
      BY <1>k, <2>2, <2>3
    <2> QED
      BY <2>1, <2>4 DEF WindowKept
  <1>4. ASSUME Tick PROVE WindowKept'
    <2> DEFINE next == clock + 1
    <2>1. /\ next \in Int /\ next > clock
          /\ clock' = next /\ log' = log /\ velocity' = velocity /\ pushed' = pushed
      BY <1>v, <1>4 DEF Tick
    <2> HIDE DEF next
    <2>2. ASSUME NEW f \in Fingerprints PROVE velocity[f].touched <= next
      BY <1>k, <1>m, <1>v, <2>1
    <2>3. ASSUME NEW f \in Fingerprints, NEW m \in pushed[f] \ velocity[f].members
          PROVE  log[m[1]].minute <= next - VelocityMinutes
      <3>1. log[m[1]].minute <= clock - VelocityMinutes /\ log[m[1]].minute \in Int
        BY <1>k, <1>m
      <3> QED
        BY <1>v, <2>1, <3>1
    <2>4. \A f \in Fingerprints :
            /\ velocity[f].members \subseteq pushed[f]
            /\ velocity[f].touched <= next
            /\ \A m \in pushed[f] : m[1] \in DOMAIN log
            /\ \A m \in velocity[f].members : log[m[1]].minute <= velocity[f].touched
            /\ \A m \in pushed[f] \ velocity[f].members :
                 log[m[1]].minute <= next - VelocityMinutes
      BY ONLY <1>k, <2>2, <2>3
    <2> QED
      BY ONLY <2>1, <2>4 DEF WindowKept
  <1>5. ASSUME UNCHANGED <<clock, log, velocity, pushed>> PROVE WindowKept'
    BY <1>i, <1>5 DEF WindowKept
  <1> QED
    BY <1>1, <1>2, <1>3, <1>4, <1>5 DEF Next, SelectBucket, LoseBucketRace, vars

LEMMA DrawnIs == BucketsAreOfTheLog <=> BucketsDrawn
  <1>1. ASSUME NEW a, NEW c, NEW m PROVE EventsOf(a, c, m) = Mine(log, done, a, c, m)
    BY DEF EventsOf, Mine
  <1>2. ASSUME NEW b, NEW S
        PROVE  IsSumOf(b, S) <=> \A field \in CountFields : b[field] = Sum(log, S, field)
    BY DEF IsSumOf, Sum, CountFields
  <1> QED
    BY <1>1, <1>2 DEF BucketsAreOfTheLog, BucketsDrawn, Drawn

\* Events are only added to the log.
LEMMA LogGrows ==
  ASSUME TriageTypes, [Next]_vars
  PROVE  DOMAIN log \subseteq DOMAIN log' /\ \A i \in DOMAIN log : log'[i] = log[i]
  <1>1. ASSUME NEW e \in Kinds, Receive(e)
        PROVE  DOMAIN log \subseteq DOMAIN log' /\ \A i \in DOMAIN log : log'[i] = log[i]
    BY <1>1, ReceiveIs
  <1>2. (\E e \in Kinds : Receive(e)) \/ log' = log
    BY DEF Next, SelectBucket, LoseBucketRace, Process, Fails, KeyExpires, Tick, vars
  <1> QED
    BY <1>1, <1>2

\* A bucket drawn from the committed events stays so when others commit, as
\* long as none of them belongs to it or it is a global one.
LEMMA DrawnStays ==
  ASSUME NEW k, NEW l, NEW d, NEW e, d \subseteq e, \A i \in d : l[i] = k[i],
         NEW b, NEW a, NEW c, NEW m, Drawn(k, d, b, a, c, m),
         c = "global" \/ Mine(l, e, a, c, m) = Mine(k, d, a, c, m)
  PROVE  Drawn(l, e, b, a, c, m)
  <1>1. PICK S \in SUBSET Mine(k, d, a, c, m) :
          /\ \A field \in CountFields : b[field] = Sum(k, S, field)
          /\ c # "global" => S = Mine(k, d, a, c, m)
    BY DEF Drawn
  <1>2. S \subseteq d /\ S \subseteq Mine(l, e, a, c, m)
    BY DEF Mine
  <1>3. ASSUME NEW field PROVE Sum(l, S, field) = Sum(k, S, field)
    <2>1. [i \in S |-> Counts(l[i].kind)[field]] = [i \in S |-> Counts(k[i].kind)[field]]
      BY <1>2
    <2> QED
      BY <2>1 DEF Sum
  <1> QED
    BY <1>1, <1>2, <1>3 DEF Drawn

\* Adding an event to a bucket drawn without it.
LEMMA DrawnAdds ==
  ASSUME NEW l, NEW d, IsFiniteSet(d), NEW i, i \notin d, \A j \in d \cup {i} : l[j].kind \in Kinds,
         NEW a, NEW c, NEW m,
         l[i].kind.action = a, c \in DimensionCells(l[i].kind), l[i].minute = m,
         NEW b \in BucketsOf(Int), Drawn(l, d, b, a, c, m)
  PROVE  Drawn(l, d \cup {i}, Added(b, l[i].kind), a, c, m)
  <1>1. PICK S \in SUBSET Mine(l, d, a, c, m) :
          /\ \A field \in CountFields : b[field] = Sum(l, S, field)
          /\ c # "global" => S = Mine(l, d, a, c, m)
    BY DEF Drawn
  <1>2. S \subseteq d /\ i \notin S /\ Mine(l, d \cup {i}, a, c, m) = Mine(l, d, a, c, m) \cup {i}
    BY DEF Mine
  <1>3. IsFiniteSet(S)
    BY <1>2, FS_Subset
  <1>4. ASSUME NEW field \in CountFields
        PROVE  Added(b, l[i].kind)[field] = Sum(l, S \cup {i}, field)
    <2> DEFINE g == [j \in S \cup {i} |-> Counts(l[j].kind)[field]]
               h == [j \in S |-> Counts(l[j].kind)[field]]
    <2>1. \A j \in S \cup {i} : Counts(l[j].kind)[field] \in Int
      <3>1. \A j \in S \cup {i} : l[j].kind \in Kinds
        BY <1>2
      <3> QED
        BY <3>1, CountsType
    <2>2. /\ \A j \in S : g[j] \in Int /\ g[j] = h[j]
          /\ g[i] \in Int /\ g[i] = Counts(l[i].kind)[field]
      BY <2>1
    <2>3. Sum(l, S, field) = SumFunctionOnSet(h, S)
          /\ Sum(l, S \cup {i}, field) = SumFunctionOnSet(g, S \cup {i})
      BY DEF Sum
    <2>4. Added(b, l[i].kind)[field] = b[field] + Counts(l[i].kind)[field]
      BY AddedIs
    <2> HIDE DEF g, h
    <2>5. SumFunctionOnSet(g, S \cup {i}) = SumFunctionOnSet(g, S) + g[i]
      BY <1>2, <1>3, <2>2, SumAdd
    <2>6. SumFunctionOnSet(g, S) = SumFunctionOnSet(h, S)
      BY <1>3, <2>2, SumSame
    <2> QED
      BY <1>1, <2>2, <2>3, <2>4, <2>5, <2>6
  <1> QED
    BY <1>1, <1>2, <1>4 DEF Drawn

LEMMA DoneFinite == TriageTypes => IsFiniteSet(done)
  <1> SUFFICES ASSUME TriageTypes PROVE IsFiniteSet(done)
    OBVIOUS
  <1>1. DOMAIN log = 1..Len(log) /\ Len(log) \in Nat /\ done \subseteq DOMAIN log
    BY DEF TriageTypes
  <1>2. done \in SUBSET Nat /\ \A i \in done : i <= Len(log)
    BY <1>1
  <1> QED
    BY ONLY <1>1, <1>2, FS_BoundedSetOfNaturals

LEMMA BucketsStep == TriageInv /\ [Next]_vars => BucketsDrawn'
  <1> SUFFICES ASSUME TriageInv, [Next]_vars PROVE BucketsDrawn'
    OBVIOUS
  <1>i. /\ TriageTypes /\ LogIsPast /\ WindowKept /\ BucketsDrawn /\ TasksKept
        /\ done \subseteq DOMAIN log
    BY DEF TriageInv, TriageTypes
  <1>1. ASSUME NEW i \in Ids, Process(i) PROVE BucketsDrawn'
    <2> DEFINE e == log[i].kind
               now == log[i].minute
    <2>1. i \in DOMAIN log /\ i \notin done /\ log' = log /\ done' = done \cup {i}
      BY <1>i, <1>1, ProcessIs, PendingIs DEF Process
    <2>2. /\ e \in Kinds /\ now \in Minutes
          /\ \A j \in done \cup {i} : log[j].kind \in Kinds
      BY <1>i, <2>1, EntryIs
    <2>3. /\ buckets \in [Keys -> BucketsOf(Int)] /\ seen[i] \in BucketsOf(Int)
          /\ buckets' = RecordEventMetrics(buckets, seen[i], e, now)
          /\ \A b \in BucketsOf(Int) : Added(b, e) \in BucketsOf(Int)
      BY <1>i, <1>1, <2>2, AddedIs DEF Process, TriageTypes
    <2>4. ASSUME NEW a \in Actions, NEW c \in Cells, NEW m \in Minutes
          PROVE  Drawn(log, done \cup {i}, buckets'[<<a, c, m>>], a, c, m)
      <3> DEFINE k == <<a, c, m>>
                 b == Loaded(buckets, seen[i], k)
      <3>1. k \in Keys /\ k[1] = a /\ k[2] = c /\ k[3] = m
        BY KeyIs
      <3>2. /\ b \in BucketsOf(Int)
            /\ buckets'[k] = IF a = e.action /\ c \in DimensionCells(e) /\ m = now
                             THEN Added(b, e) ELSE buckets[k]
        <4> HIDE DEF e, now, k
        <4> QED
          BY <2>2, <2>3, <3>1, RecordIs, RecordInt
      <3>3. Drawn(log, done, buckets[k], a, c, m)
        BY <1>i DEF BucketsDrawn
      <3>4. CASE a = e.action /\ c \in DimensionCells(e) /\ m = now
        <4>1. Drawn(log, done, b, a, c, m)
          <5>1. CASE c = "global"
            BY <1>i, <1>1, <3>4, <5>1 DEF Loaded, TasksKept, Process
          <5>2. CASE c # "global"
            BY <3>3, <5>2 DEF Loaded
          <5> QED
            BY <5>1, <5>2
        <4>2. IsFiniteSet(done)
          BY <1>i, DoneFinite
        <4> HIDE DEF b
        <4> QED
          BY <2>1, <2>2, <3>2, <3>4, <4>1, <4>2, DrawnAdds
      <3>5. CASE ~(a = e.action /\ c \in DimensionCells(e) /\ m = now)
        <4>1. Mine(log, done \cup {i}, a, c, m) = Mine(log, done, a, c, m)
          BY <3>5 DEF Mine
        <4>2. buckets'[k] = buckets[k]
          BY <3>2, <3>5
        <4> HIDE DEF k
        <4>3. Drawn(log, done \cup {i}, buckets[k], a, c, m)
          BY <3>3, <4>1, DrawnStays
        <4> QED
          BY <4>2, <4>3 DEF k
      <3> QED
        BY <3>4, <3>5
    <2> QED
      BY <2>1, <2>4 DEF BucketsDrawn
  <1>2. ASSUME UNCHANGED <<done, buckets>> PROVE BucketsDrawn'
    <2>1. \A i \in done : log'[i] = log[i]
      BY <1>i, LogGrows
    <2>2. ASSUME NEW a \in Actions, NEW c \in Cells, NEW m \in Minutes
          PROVE  Drawn(log', done, buckets[<<a, c, m>>], a, c, m)
      <3>1. Mine(log', done, a, c, m) = Mine(log, done, a, c, m)
        BY <2>1 DEF Mine
      <3>2. Drawn(log, done, buckets[<<a, c, m>>], a, c, m)
        BY <1>i DEF BucketsDrawn
      <3> QED
        BY <2>1, <3>1, <3>2, DrawnStays
    <2> QED
      BY <1>2, <2>2 DEF BucketsDrawn
  <1>3. (\E i \in Ids : Process(i)) \/ UNCHANGED <<done, buckets>>
    BY DEF Next, Receive, SelectBucket, LoseBucketRace, Fails, KeyExpires, Tick, vars
  <1> QED
    BY <1>1, <1>2, <1>3

LEMMA TasksStep == TriageInv /\ [Next]_vars => TasksKept'
  <1> SUFFICES ASSUME TriageInv, [Next]_vars, NEW j \in Ids, stage'[j] # "idle"
               PROVE  /\ Pending(j)'
                      /\ log'[j].kind.action \in Actions =>
                           Drawn(log', done', seen'[j], log'[j].kind.action, "global",
                                 log'[j].minute)
    BY DEF TasksKept
  <1>i. /\ TriageTypes /\ BucketsDrawn /\ TasksKept /\ done \subseteq DOMAIN log
        /\ DOMAIN log \subseteq DOMAIN log' /\ \A i \in DOMAIN log : log'[i] = log[i]
    BY LogGrows DEF TriageInv, TriageTypes
  <1> DEFINE a == log[j].kind.action
             m == log[j].minute
  <1>1. /\ Pending(j) /\ done \subseteq done' /\ j \notin done' /\ tries'[j] = tries[j]
        /\ seen'[j] = seen[j] \/ seen'[j] = Committed(j)
        /\ stage[j] = "idle" => seen'[j] = Committed(j)
    <2>1. CASE UNCHANGED <<tries, done, stage, seen>>
      BY <1>i, <2>1 DEF TasksKept, Pending
    <2>2. ASSUME NEW i \in Ids, SelectBucket(i)
          PROVE  /\ Pending(j) /\ done \subseteq done' /\ j \notin done' /\ tries'[j] = tries[j]
                 /\ seen'[j] = seen[j] \/ seen'[j] = Committed(j)
                 /\ stage[j] = "idle" => seen'[j] = Committed(j)
      <3>1. /\ Pending(i) /\ UNCHANGED <<tries, done>>
            /\ stage' = [stage EXCEPT ![i] = "loaded"]
            /\ seen' = [seen EXCEPT ![i] = Committed(i)]
        BY <2>2 DEF SelectBucket, Enter
      <3> QED
        BY <1>i, <3>1 DEF TriageTypes, TasksKept, Pending
    <2>3. ASSUME NEW i \in Ids, LoseBucketRace(i)
          PROVE  /\ Pending(j) /\ done \subseteq done' /\ j \notin done' /\ tries'[j] = tries[j]
                 /\ seen'[j] = seen[j] \/ seen'[j] = Committed(j)
                 /\ stage[j] = "idle" => seen'[j] = Committed(j)
      <3>1. CASE tries' = [tries EXCEPT ![i] = @ + 1] /\ Leave(i)
        <4>1. i # j /\ stage'[j] = stage[j] /\ seen'[j] = seen[j]
          BY <1>i, <3>1, LeaveIs
        <4> QED
          BY <1>i, <2>3, <3>1, <4>1 DEF LoseBucketRace, TriageTypes, TasksKept, Pending
      <3>2. CASE Enter(i, "rowless") /\ seen' = [seen EXCEPT ![i] = Committed(i)] /\ UNCHANGED tries
        BY <1>i, <2>3, <3>2 DEF LoseBucketRace, Enter, TriageTypes, TasksKept, Pending
      <3> QED
        BY <2>3, <3>1, <3>2 DEF LoseBucketRace
    <2>4. ASSUME NEW i \in Ids, Process(i) \/ Fails(i)
          PROVE  /\ Pending(j) /\ done \subseteq done' /\ j \notin done' /\ tries'[j] = tries[j]
                 /\ seen'[j] = seen[j] \/ seen'[j] = Committed(j)
                 /\ stage[j] = "idle" => seen'[j] = Committed(j)
      <3>1. /\ tries' = [tries EXCEPT ![i] = @ + 1] /\ Leave(i)
            /\ done' = done \/ done' = done \cup {i}
        BY <2>4 DEF Process, Fails
      <3>2. i # j /\ stage'[j] = stage[j] /\ seen'[j] = seen[j]
        BY <1>i, <3>1, LeaveIs
      <3> QED
        BY <1>i, <3>1, <3>2 DEF TriageTypes, TasksKept, Pending
    <2> QED
      BY <2>1, <2>2, <2>3, <2>4 DEF Next, Receive, KeyExpires, Tick, vars, task
  <1>2. j \in DOMAIN log /\ log'[j] = log[j] /\ tries[j] <= MaxRetries
    BY <1>i, <1>1 DEF Pending
  <1>3. Pending(j)'
    BY <1>i, <1>1, <1>2 DEF Pending
  <1>4. ASSUME a \in Actions PROVE Drawn(log', done', seen'[j], a, "global", m)
    <2>1. m \in Minutes /\ "global" \in Cells
      BY <1>i, <1>2, EntryIs DEF Cells
    <2>2. Drawn(log, done, seen'[j], a, "global", m)
      <3>1. CASE seen'[j] = Committed(j)
        <4>1. Committed(j) = buckets[<<a, "global", m>>]
          BY <1>i, <1>2, <1>4, CommittedIs
        <4> QED
          BY <1>i, <1>4, <2>1, <3>1, <4>1 DEF BucketsDrawn
      <3>2. CASE seen'[j] # Committed(j)
        BY <1>i, <1>1, <1>4, <3>2 DEF TasksKept
      <3> QED
        BY <3>1, <3>2
    <2>3. \A i \in done : log'[i] = log[i]
      BY <1>i
    <2> QED
      BY <1>1, <2>2, <2>3, DrawnStays
  <1> QED
    BY <1>2, <1>3, <1>4

LEMMA LastStep == TriageInv /\ [Next]_vars => LastFollows'
  <1> SUFFICES ASSUME TriageInv, [Next]_vars PROVE LastFollows'
    OBVIOUS
  <1>i. /\ TriageTypes /\ LogIsPast /\ WindowKept /\ TasksKept /\ LastFollows
        /\ done \subseteq DOMAIN log
    BY DEF TriageInv, TriageTypes
  <1>1. ASSUME NEW e \in Kinds, Receive(e) PROVE LastFollows'
    <2>1. \A i \in DOMAIN log : log'[i] = log[i]
      BY <1>i, <1>1, ReceiveIs
    <2>2. UNCHANGED <<done, buckets, incident, last>>
      BY <1>1 DEF Receive
    <2>3. last.id # 0 => log'[last.id] = log[last.id]
      BY <1>i, <2>1 DEF LastFollows
    <2> QED
      BY <1>i, <2>2, <2>3 DEF LastFollows
  <1>2. ASSUME NEW i \in Ids, Process(i), stage[i] # "rowless" PROVE LastFollows'
    <2> DEFINE e == log[i].kind
               now == log[i].minute
               inc == Absorbed(i)
    <2>1. i \in DOMAIN log /\ log' = log /\ done' = done \cup {i}
      BY <1>i, <1>2, ProcessIs, PendingIs DEF Process
    <2>2. e \in Kinds /\ now \in Minutes /\ e.fp \in Fingerprints
      BY <1>i, <2>1, EntryIs
    <2>3. /\ buckets' = RecordEventMetrics(buckets, seen[i], e, now)
          /\ buckets \in [Keys -> BucketsOf(Int)] /\ seen[i] \in BucketsOf(Int)
          /\ \A b \in BucketsOf(Int) : Added(b, e) \in BucketsOf(Int) /\ Added(b, e).rows = 1
          /\ inc \in IncidentRows
      BY <1>i, <1>2, <2>2, ProcessIs, AddedIs DEF TriageTypes
    <2>4. PICK window \in Nat, base \in Nat, anomaly \in Anomalies :
            /\ Verdict(i, inc, window, base, anomaly)
            /\ e.level \in {"critical", "fatal"} => base >= 60
      BY <1>i, <1>2, ProcessIs
    <2>5. /\ anomaly = Max({DetectAnomaly(e), DetectBaselineAnomaly(buckets', e, now)})
          /\ incident' = [incident EXCEPT ![e.fp] = Decided(inc, e, base, anomaly)]
          /\ last'.id = i /\ last'.anomaly = anomaly
      BY <1>2, <2>4 DEF Verdict
    <2>6. /\ anomaly > 0 => incident'[e.fp].alerted
          /\ e.level \in {"critical", "fatal"} => incident'[e.fp].severity \in Urgent
      <3> DEFINE row == Decided(inc, e, base, anomaly)
      <3> HIDE DEF e, inc
      <3>1. /\ anomaly > 0 => row.alerted
            /\ e.level \in {"critical", "fatal"} => row.severity \in Urgent
        BY <2>2, <2>3, <2>4, DecidedIs
      <3> HIDE DEF row
      <3>2. incident' = [incident EXCEPT ![e.fp] = row]
        BY <2>5 DEF row
      <3>3. incident'[e.fp] = row
        BY <1>i, <2>2, <3>2 DEF TriageTypes
      <3> QED
        BY <3>1, <3>3
    <2>7. ASSUME e.action \in Actions, NEW c \in DimensionCells(e)
          PROVE  buckets'[<<e.action, c, now>>].rows > 0
      <3> DEFINE k == <<e.action, c, now>>
      <3> HIDE DEF e, now
      <3>1. c \in Cells
        BY <2>2, CellsOf
      <3>2. k \in Keys /\ k[1] = e.action /\ k[2] = c /\ k[3] = now
        BY <2>2, <2>7, <3>1, KeyIs
      <3> HIDE DEF k
      <3>3. /\ buckets'[k] = Added(Loaded(buckets, seen[i], k), e)
            /\ Loaded(buckets, seen[i], k) \in BucketsOf(Int)
        BY <2>2, <2>3, <2>7, <3>2, RecordIs, RecordInt
      <3> QED
        BY <2>3, <3>3 DEF k
    <2> QED
      BY <2>1, <2>5, <2>6, <2>7 DEF LastFollows
  <1>3. ASSUME UNCHANGED <<log, done, buckets, incident, last>> PROVE LastFollows'
    BY <1>i, <1>3 DEF LastFollows
  <1>4. ASSUME NEW i \in Ids, Process(i), stage[i] = "rowless" PROVE LastFollows'
    <2>1. last'.id = 0
      BY <1>4 DEF Process
    <2> QED
      BY <2>1 DEF LastFollows
  <1>5. \/ \E e \in Kinds : Receive(e)
        \/ \E i \in Ids : Process(i)
        \/ UNCHANGED <<log, done, buckets, incident, last>>
    BY DEF Next, SelectBucket, LoseBucketRace, Fails, KeyExpires, Tick, vars
  <1> QED
    BY <1>1, <1>2, <1>3, <1>4, <1>5

LEMMA UrgentStep == TriageInv /\ [Next]_vars => UrgentIsAlerted'
  <1> SUFFICES ASSUME TriageInv, [Next]_vars PROVE UrgentIsAlerted'
    OBVIOUS
  <1>i. TriageTypes /\ LogIsPast /\ WindowKept /\ TasksKept /\ UrgentIsAlerted
    BY DEF TriageInv
  <1>1. ASSUME NEW i \in Ids, Process(i), stage[i] # "rowless" PROVE UrgentIsAlerted'
    <2> DEFINE e == log[i].kind
               inc == Absorbed(i)
    <2>1. e \in Kinds /\ e.fp \in Fingerprints
      BY <1>i, <1>1, ProcessIs, PendingIs, EntryIs
    <2>2. inc \in IncidentRows
      BY <1>i, <1>1, ProcessIs
    <2>3. PICK window \in Nat, base \in Nat, anomaly \in Anomalies :
            /\ Verdict(i, inc, window, base, anomaly)
            /\ e.level \in {"critical", "fatal"} => base >= 60
      BY <1>i, <1>1, ProcessIs
    <2> DEFINE row == Decided(inc, e, base, anomaly)
    <2>4. incident' = [incident EXCEPT ![e.fp] = row]
      BY <1>1, <2>3 DEF Verdict
    <2> HIDE DEF e, inc
    <2>5. row.severity \in Urgent => row.alerted
      BY <2>1, <2>2, <2>3, DecidedIs
    <2> HIDE DEF row
    <2>6. incident'[e.fp] = row /\ \A f \in Fingerprints \ {e.fp} : incident'[f] = incident[f]
      BY <1>i, <2>1, <2>4 DEF TriageTypes
    <2> QED
      BY <1>i, <2>5, <2>6 DEF UrgentIsAlerted
  <1>2. ASSUME UNCHANGED incident PROVE UrgentIsAlerted'
    BY <1>i, <1>2 DEF UrgentIsAlerted
  <1>3. (\E i \in Ids : Process(i) /\ stage[i] # "rowless") \/ UNCHANGED incident
    BY DEF Next, Receive, SelectBucket, LoseBucketRace, Process, Fails, KeyExpires, Tick, vars
  <1> QED
    BY <1>1, <1>2, <1>3

LEMMA InvStep == TriageInv /\ [Next]_vars => TriageInv'
  BY TypesStep, PastStep, KeptStep, BucketsStep, TasksStep, LastStep, UrgentStep DEF TriageInv

LEMMA Invariant == Spec => []TriageInv
  <1> QED
    BY InitInv, InvStep, PTL DEF Spec

(***************************************************************************)
(* Results.                                                                *)
(***************************************************************************)

\* A minute's counts come from its committed events, each at most once, whatever
\* the order, the retries and the overlaps of their tasks; those of a country
\* from all of them.
THEOREM BucketsFromTheLog == Spec => []BucketsAreOfTheLog
  <1>1. TriageInv => BucketsAreOfTheLog
    BY DrawnIs DEF TriageInv
  <1> QED
    BY <1>1, Invariant, PTL

\* A row shown as high or critical has been alerted on.
THEOREM UrgentAlerted == Spec => []UrgentIsAlerted
  <1>1. TriageInv => UrgentIsAlerted
    BY DEF TriageInv
  <1> QED
    BY <1>1, Invariant, PTL

\* The anomaly boost leaves a critical or fatal log line at high or above.
THEOREM CriticalUrgent == Spec => []CriticalLogIsUrgent
  <1>1. TriageInv => CriticalLogIsUrgent
    BY DEF TriageInv, LastFollows, CriticalLogIsUrgent
  <1> QED
    BY <1>1, Invariant, PTL

\* A cell in which every recent event of a money flow failed raises an alert,
\* whatever the other cells say: the worst cell and the worst detector decide.
THEOREM RegionalOutageAlerted == Spec => []RegionalOutageAlerts
  <1>1. TriageInv => RegionalOutageAlerts
    <2> SUFFICES
          ASSUME TriageInv, last.id # 0, NEW c \in DimensionCells(log[last.id].kind)
          PROVE  LET e == log[last.id].kind
                     w == Fold(buckets, e.action, c,
                               Current(buckets, e.action, c, log[last.id].minute))
                 IN  (/\ e.action \in CriticalActions
                      /\ w.total >= CriticalMinSampleSize
                      /\ w.failure = w.total)
                       => incident[e.fp].alerted
      BY DEF RegionalOutageAlerts
    <2> DEFINE e == log[last.id].kind
               now == log[last.id].minute
               w == Fold(buckets, e.action, c, Current(buckets, e.action, c, now))
               failing == DetectFailureRate(w.failure, w.total, TRUE)
               cell == AnalyzeCell(buckets, e.action, c, now)
               own == DetectAnomaly(e)
               worst == DetectBaselineAnomaly(buckets, e, now)
    <2>1. TriageTypes /\ LastFollows /\ last.id \in DOMAIN log
      BY DEF TriageInv, TriageTypes, LastFollows
    <2>2. e \in Kinds /\ now \in Minutes /\ buckets \in [Keys -> BucketsOf(Int)]
      BY <2>1, EntryIs DEF TriageTypes
    <2>3. SUFFICES ASSUME e.action \in CriticalActions, w.total >= CriticalMinSampleSize,
                          w.failure = w.total
                   PROVE  incident[e.fp].alerted
      OBVIOUS
    <2>4. e.action \in Actions /\ c \in Cells
      BY <2>2, <2>3, SeriesAssumption, CellsOf
    <2>5. w.total \in Int
      BY <2>2, <2>4, WindowsIn, FoldIs
    <2>6. failing = 50
      <3>1. CriticalMinSampleSize \in Nat /\ CriticalMinSampleSize > 0
        BY SeriesAssumption
      <3>2. 100 * w.failure >= 30 * w.total
        BY <2>3, <2>5, <3>1
      <3> QED
        BY <2>3, <3>2 DEF DetectFailureRate, SampleSize
    <2>7. cell \in Anomalies /\ cell >= failing
      BY <2>2, <2>3, <2>4, CellIs
    <2>8. worst \in Anomalies /\ worst >= cell
      BY <2>2, <2>4, BaselineAnomalyIs
    <2>9. own \in Anomalies
      BY <2>2, AnomalyIs
    <2>10. last.anomaly = Max({own, worst}) /\ (last.anomaly > 0 => incident[e.fp].alerted)
      BY <2>1 DEF LastFollows
    <2> HIDE DEF e, w, failing, cell, own, worst
    <2>11. Max({own, worst}) \in Anomalies /\ Max({own, worst}) >= worst
      BY <2>8, <2>9, WorseOf
    <2>12. Max({own, worst}) > 0
      BY <2>6, <2>7, <2>8, <2>11 DEF Anomalies
    <2> QED
      BY <2>10, <2>12
  <1> QED
    BY <1>1, Invariant, PTL

\* The worst of a value and the worst of some others is the worst of all.
LEMMA WorstOfAll ==
  ASSUME NEW x \in Anomalies, NEW S, S \subseteq Anomalies, S # {}
  PROVE  Max({x, Max(S)}) = Max({x} \cup S)
  <1>1. Max(S) \in S /\ \A y \in S : Max(S) >= y
    <2>1. S \subseteq 0..60
      BY DEF Anomalies
    <2> QED
      BY ONLY <2>1, S # {}, Worst
  <1> DEFINE T == {x, Max(S)}
             U == {x} \cup S
  <1>2. T \subseteq 0..60 /\ T # {} /\ U \subseteq 0..60 /\ U # {}
    <2>1. Anomalies \subseteq 0..60
      BY DEF Anomalies
    <2>2. Max(S) \in Anomalies
      BY <1>1
    <2> QED
      BY ONLY <2>1, <2>2, x \in Anomalies, S \subseteq Anomalies
  <1>3. T \subseteq U /\ \A y \in U : \E z \in T : z >= y
    <2>1. x \in Int /\ x >= x
      BY DEF Anomalies
    <2> QED
      BY <1>1, <2>1
  <1> HIDE DEF T, U
  <1>4. /\ Max(T) \in T /\ \A y \in T : Max(T) >= y
        /\ Max(U) \in U /\ \A y \in U : Max(U) >= y
    BY ONLY <1>2, Worst
  <1>5. \A y \in T \cup U : y \in Int
    BY <1>2
  <1>6. Max(U) >= Max(T)
    BY <1>3, <1>4
  <1>7. Max(T) >= Max(U)
    <2>1. PICK z \in T : z >= Max(U)
      BY <1>3, <1>4
    <2>2. Max(T) >= z
      BY <1>4
    <2> QED
      BY ONLY <1>4, <1>5, <2>1, <2>2
  <1>8. Max(T) = Max(U)
    BY ONLY <1>4, <1>5, <1>6, <1>7
  <1> QED
    BY <1>8 DEF T, U

\* The dashboard shows the evidence of a decision taken in the current minute:
\* its own windows are those the worker compared.
THEOREM EvidenceShown == Spec => []EvidenceIsShown
  <1>1. TriageInv => EvidenceIsShown
    <2> SUFFICES ASSUME TriageInv, last.id # 0, log[last.id].minute = clock,
                        log[last.id].kind.action \in Actions
                 PROVE  LET e == log[last.id].kind
                            shown == MetricCells(buckets, clock)
                            mine == {<<e.action, c>> : c \in DimensionCells(e)}
                        IN  /\ mine \subseteq DOMAIN shown
                            /\ last.anomaly = Max({DetectAnomaly(e)} \cup {shown[x] : x \in mine})
      BY DEF EvidenceIsShown
    <2> DEFINE e == log[last.id].kind
               shown == MetricCells(buckets, clock)
               mine == {<<e.action, c>> : c \in DimensionCells(e)}
               S == {AnalyzeCell(buckets, e.action, c, clock) : c \in DimensionCells(e)}
               own == DetectAnomaly(e)
    <2>1. TriageTypes /\ LastFollows /\ last.id \in DOMAIN log
      BY DEF TriageInv, TriageTypes, LastFollows
    <2>2. e \in Kinds /\ clock \in Minutes /\ buckets \in [Keys -> BucketsOf(Int)]
      BY <2>1, EntryIs DEF TriageTypes
    <2>3. ASSUME NEW c \in DimensionCells(e)
          PROVE  /\ c \in Cells /\ buckets[<<e.action, c, clock>>].rows > 0
      BY <2>1, <2>2, CellsOf DEF LastFollows
    <2>4. ASSUME NEW c \in DimensionCells(e)
          PROVE  /\ <<e.action, c>> \in DOMAIN shown
                 /\ shown[<<e.action, c>>] = AnalyzeCell(buckets, e.action, c, clock)
                 /\ AnalyzeCell(buckets, e.action, c, clock) \in Anomalies
      <3>1. e.action \in Actions
        OBVIOUS
      <3> HIDE DEF e
      <3> QED
        BY <2>2, <2>3, <3>1, CellsShown, CellIs
    <2>5. mine \subseteq DOMAIN shown
      BY <2>4
    <2>6. {shown[x] : x \in mine} = S
      <3> HIDE DEF shown, e
      <3>1. \A c \in DimensionCells(e) :
              shown[<<e.action, c>>] = AnalyzeCell(buckets, e.action, c, clock)
        BY <2>4
      <3> QED
        BY <3>1
    <2>7. S \subseteq Anomalies /\ S # {} /\ own \in Anomalies
      <3> HIDE DEF e
      <3> QED
        BY <2>2, <2>4, CellsOf, AnomalyIs
    <2>8. DetectBaselineAnomaly(buckets, e, clock) = Max(S)
      <3>1. e.action # NoAction
        BY SeriesAssumption
      <3> QED
        BY <3>1 DEF DetectBaselineAnomaly
    <2>9. last.anomaly = Max({own, Max(S)})
      BY <2>1, <2>8 DEF LastFollows
    <2>10. Max({own, Max(S)}) = Max({own} \cup S)
      <3> HIDE DEF own, S
      <3> QED
        BY <2>7, WorstOfAll
    <2> QED
      BY <2>5, <2>6, <2>9, <2>10
  <1> QED
    BY <1>1, Invariant, PTL

\* An event processed as it arrives is counted with exactly the attempts of the
\* minutes of the window that ends with it.
THEOREM WindowIsCounted == Spec => VelocityIsTheWindow
  <1>1. ASSUME TriageInv, [Next]_vars, NEW i \in done' \ done,
               log[i].minute = clock, pushed # pushed'
        PROVE  last'.window =
                 Cardinality({m \in pushed'[log[i].kind.fp] :
                                log[m[1]].minute \in (clock - VelocityMinutes + 1)..clock})
    <2>1. TriageTypes /\ LogIsPast /\ WindowKept /\ TasksKept
      BY <1>1 DEF TriageInv
    <2>2. i \in Ids /\ Process(i)
      <3>1. done' = done \/ \E j \in Ids : Process(j)
        BY <1>1 DEF Next, Receive, SelectBucket, LoseBucketRace, Fails, KeyExpires, Tick, vars
      <3>2. PICK j \in Ids : Process(j)
        BY <3>1
      <3>3. done' = done \cup {j}
        BY <3>2 DEF Process
      <3> QED
        BY <3>2, <3>3
    <2> DEFINE f == log[i].kind.fp
               member == <<i, tries[i]>>
               inc == Absorbed(i)
    <2>3. Pending(i) /\ RecordVelocity(i) /\ UNCHANGED <<clock, log>>
      BY <1>1, <2>1, <2>2, ProcessIs DEF Process
    <2>4. i \in DOMAIN log /\ tries[i] <= MaxRetries
      BY <2>1, <2>2, <2>3, PendingIs
    <2>5. /\ pushed'[f] = pushed[f] \cup {member}
          /\ velocity'[f].members = Trim(velocity[f].members \cup {member}, clock)
      BY <1>1, <2>1, <2>2, <2>3, <2>4, RecordVelocityIs
    <2>6. f \in Fingerprints /\ clock \in Int /\ VelocityMinutes \in Int
      BY <2>1, <2>4, EntryIs, MinutesAre, TriageAssumption DEF TriageTypes
    <2>7. ASSUME NEW m \in pushed'[f]
          PROVE  log[m[1]].minute \in Int /\ log[m[1]].minute <= clock
      <3>1. m[1] \in DOMAIN log
        BY <2>1, <2>4, <2>5, <2>6 DEF WindowKept
      <3> QED
        BY <2>1, <3>1, EntryIs DEF LogIsPast
    <2>8. velocity'[f].members =
            {m \in pushed'[f] : log[m[1]].minute > clock - VelocityMinutes}
      <3>1. velocity[f].members \subseteq pushed[f]
        BY <2>1, <2>6 DEF WindowKept
      <3>2. ASSUME NEW m \in pushed[f] \ velocity[f].members
            PROVE  ~(log[m[1]].minute > clock - VelocityMinutes)
        <4>1. log[m[1]].minute <= clock - VelocityMinutes
          BY <2>1, <2>6 DEF WindowKept
        <4>2. log[m[1]].minute \in Int
          BY <2>5, <2>7
        <4> QED
          BY <2>6, <4>1, <4>2
      <3> HIDE DEF f, member
      <3> QED
        BY <2>5, <3>1, <3>2 DEF Trim
    <2>9. velocity'[f].members =
            {m \in pushed'[f] : log[m[1]].minute \in (clock - VelocityMinutes + 1)..clock}
      <3>1. \A m \in pushed'[f] :
              log[m[1]].minute > clock - VelocityMinutes
                <=> log[m[1]].minute \in (clock - VelocityMinutes + 1)..clock
        BY <2>6, <2>7
      <3> QED
        BY <2>8, <3>1
    <2>10. PICK window \in Nat, base \in Nat, anomaly \in Anomalies :
             Verdict(i, inc, window, base, anomaly)
      BY <2>1, <2>2, ProcessIs
    <2>11. last'.window = CountVelocity(i)
      <3>1. member \in pushed'[f]
        BY <2>5
      <3> QED
        BY <2>10, <3>1 DEF Verdict
    <2> QED
      BY <2>9, <2>11 DEF CountVelocity
  <1>2. TriageInv /\ [Next]_vars =>
          [\A i \in done' \ done :
             (log[i].minute = clock /\ pushed # pushed') =>
               last'.window =
                 Cardinality({m \in pushed'[log[i].kind.fp] :
                                log[m[1]].minute \in (clock - VelocityMinutes + 1)..clock})]_vars
    BY <1>1
  <1> QED
    BY <1>2, Invariant, PTL DEF Spec, VelocityIsTheWindow

\* A source whose payloads carry no negative counts and no negative latency:
\* nothing in the code clamps them.
Unsigned ==
  \A e \in Kinds : /\ e.metrics \in [DOMAIN NoMetrics -> Nat]
                   /\ e.latency \in Nat \cup {NoLatency}

LEMMA AddedUnsigned ==
  ASSUME Unsigned, NEW e \in Kinds, NEW b \in BucketsOf(Nat)
  PROVE  Added(b, e) \in BucketsOf(Nat)
  <1> DEFINE n == Counts(e)
             timed == IF e.latency = NoLatency THEN 0 ELSE 1
             late == timed * e.latency
  <1>1. n.total \in Nat /\ n.success \in Nat /\ n.failure \in Nat /\ n.pending \in Nat
    <2>1. CASE e.counted # "none"
      <3>1. e.metrics \in [DOMAIN NoMetrics -> Nat]
        BY DEF Unsigned
      <3> QED
        BY <2>1, <3>1 DEF Counts, NoMetrics
    <2>2. CASE e.counted = "none"
      <3>1. ClassifyEventOutcome(e) \in {"success", "pending", "failure"}
        BY EventTypes DEF ClassifyEventOutcome
      <3> HIDE DEF ClassifyEventOutcome
      <3> QED
        BY <2>2, <3>1 DEF Counts, NoMetrics
    <2> QED
      BY <2>1, <2>2
  <1>2. timed \in Nat /\ late \in Nat
    BY DEF Unsigned, NoLatency
  <1>3. Added(b, e) = [rows |-> 1,
          total |-> b.total + n.total, success |-> b.success + n.success,
          failure |-> b.failure + n.failure, pending |-> b.pending + n.pending,
          latencyCount |-> b.latencyCount + timed, latencySum |-> b.latencySum + late]
    BY DEF Added
  <1> HIDE DEF n, timed, late
  <1> QED
    BY <1>1, <1>2, <1>3 DEF BucketsOf

UnsignedBuckets ==
  buckets \in [Keys -> BucketsOf(Nat)] /\ seen \in [Ids -> BucketsOf(Nat)]

LEMMA CommittedUnsigned ==
  ASSUME TriageTypes, buckets \in [Keys -> BucketsOf(Nat)], NEW i \in DOMAIN log
  PROVE  Committed(i) \in BucketsOf(Nat)
  <1>1. NoBucket \in BucketsOf(Nat)
    BY DEF NoBucket, BucketsOf
  <1>2. log[i].kind \in Kinds /\ log[i].minute \in Minutes /\ "global" \in Cells
    BY EntryIs DEF Cells
  <1>3. CASE log[i].kind.action = NoAction
    BY <1>1, <1>3 DEF Committed
  <1>4. CASE log[i].kind.action # NoAction
    <2>1. <<log[i].kind.action, "global", log[i].minute>> \in Keys
      BY <1>2, <1>4, EventTypes, KeyIs
    <2> QED
      BY <1>4, <2>1 DEF Committed
  <1> QED
    BY <1>3, <1>4

LEMMA UnsignedStep ==
  ASSUME Unsigned, TriageInv, UnsignedBuckets, [Next]_vars
  PROVE  UnsignedBuckets'
  <1>i. /\ TriageTypes /\ LogIsPast /\ WindowKept /\ TasksKept
        /\ buckets \in [Keys -> BucketsOf(Nat)] /\ seen \in [Ids -> BucketsOf(Nat)]
        /\ NoBucket \in BucketsOf(Nat)
    BY DEF TriageInv, UnsignedBuckets, NoBucket, BucketsOf
  <1>1. ASSUME NEW i \in Ids, Process(i) PROVE UnsignedBuckets'
    <2> DEFINE e == log[i].kind
               now == log[i].minute
    <2>1. /\ i \in DOMAIN log /\ buckets' = RecordEventMetrics(buckets, seen[i], e, now)
          /\ seen' = [seen EXCEPT ![i] = NoBucket]
      BY <1>i, <1>1, ProcessIs, PendingIs DEF Process, Leave
    <2>2. e \in Kinds /\ now \in Minutes
      BY <1>i, <2>1, EntryIs
    <2> HIDE DEF e, now
    <2>3. \A b \in BucketsOf(Nat) : Added(b, e) \in BucketsOf(Nat)
      BY <2>2, AddedUnsigned
    <2>4. RecordEventMetrics(buckets, seen[i], e, now) \in [Keys -> BucketsOf(Nat)]
      BY <1>i, <2>2, <2>3, RecordTyped
    <2> HIDE DEF NoBucket
    <2> QED
      BY <1>i, <2>1, <2>4 DEF UnsignedBuckets
  <1>2. ASSUME NEW i \in Ids, SelectBucket(i) \/ LoseBucketRace(i) PROVE UnsignedBuckets'
    <2>1. i \in DOMAIN log
      BY <1>i, <1>2 DEF SelectBucket, LoseBucketRace, TasksKept, Pending
    <2>2. Committed(i) \in BucketsOf(Nat)
      BY <1>i, <2>1, CommittedUnsigned
    <2>3. /\ buckets' = buckets
          /\ \/ seen' = [seen EXCEPT ![i] = Committed(i)]
             \/ seen' = [seen EXCEPT ![i] = NoBucket]
      BY <1>2 DEF SelectBucket, LoseBucketRace, Leave
    <2> HIDE DEF NoBucket
    <2> QED
      BY <1>i, <2>2, <2>3 DEF UnsignedBuckets
  <1>3. ASSUME NEW i \in Ids, Fails(i) PROVE UnsignedBuckets'
    <2>1. buckets' = buckets /\ seen' = [seen EXCEPT ![i] = NoBucket]
      BY <1>3 DEF Fails, Leave
    <2> HIDE DEF NoBucket
    <2> QED
      BY <1>i, <2>1 DEF UnsignedBuckets
  <1>4. ASSUME UNCHANGED <<buckets, seen>> PROVE UnsignedBuckets'
    BY <1>i, <1>4 DEF UnsignedBuckets
  <1> QED
    BY <1>1, <1>2, <1>3, <1>4 DEF Next, Receive, KeyExpires, Tick, vars, task

\* Types, when no payload carries a negative number.
THEOREM Types == ASSUME Unsigned PROVE Spec => []TypeOK
  <1>1. Init => UnsignedBuckets
    <2>1. NoBucket \in BucketsOf(Nat)
      BY DEF NoBucket, BucketsOf
    <2> QED
      BY <2>1 DEF Init, UnsignedBuckets
  <1>2. TriageInv /\ UnsignedBuckets /\ [Next]_vars => UnsignedBuckets'
    BY UnsignedStep
  <1>3. TriageInv /\ UnsignedBuckets => TypeOK
    <2> SUFFICES ASSUME TriageTypes, UnsignedBuckets PROVE TypeOK
      BY DEF TriageInv
    <2>1. ASSUME NEW k \in Keys PROVE buckets[k] \in [DOMAIN NoBucket -> Nat]
      <3>1. buckets[k] \in BucketsOf(Nat)
        BY DEF UnsignedBuckets
      <3> QED
        BY <3>1 DEF BucketsOf, NoBucket
    <2>4. ASSUME NEW i \in Ids PROVE seen[i] \in [DOMAIN NoBucket -> Nat]
      <3>1. seen[i] \in BucketsOf(Nat)
        BY DEF UnsignedBuckets
      <3> QED
        BY <3>1 DEF BucketsOf, NoBucket
    <2>2. /\ buckets \in [Keys -> [DOMAIN NoBucket -> Nat]]
          /\ seen \in [Ids -> [DOMAIN NoBucket -> Nat]]
      BY <2>1, <2>4 DEF UnsignedBuckets
    <2>3. last \in [id : 0..MaxEvents, window : Nat, base : Nat, anomaly : Nat]
      <3>1. Anomalies \subseteq Nat
        BY DEF Anomalies
      <3>2. last \in [id : 0..MaxEvents, window : Nat, base : Nat, anomaly : Anomalies]
        BY DEF TriageTypes
      <3> QED
        BY ONLY <3>1, <3>2
    <2> QED
      BY <2>2, <2>3 DEF TriageTypes, TypeOK, Entries, IncidentRows, Severities
  <1> QED
    BY <1>1, <1>2, <1>3, Invariant, PTL DEF Spec
=============================================================================
