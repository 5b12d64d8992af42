----------------------------- MODULE LiveProofs -----------------------------
(***************************************************************************)
(* Proofs about Live, for any requests, runtimes, catalogs, time limits    *)
(* and number of clients: what a comparison recommends is borne out by     *)
(* what it measured; a plan covers its contract, and a shortlist is of the *)
(* best there is; what a benchmark reads of its power samples is of one    *)
(* set of them; and everything has its type.                               *)
(***************************************************************************)
EXTENDS Live, Orders

-----------------------------------------------------------------------------
(* The order of candidates. *)

Value == Int \cup {None}

LEMMA LessOrder ==
  ASSUME NEW x \in Value, NEW y \in Value, NEW z \in Value
  PROVE  /\ ~Less(x, x)
         /\ Less(x, y) => ~Less(y, x)
         /\ Less(x, y) /\ Less(y, z) => Less(x, z)
         /\ x # y => Less(x, y) \/ Less(y, x)
  BY WorkloadAssumption DEF Value, Less

LEMMA PrecedesOrder ==
  ASSUME NEW n \in Nat, NEW x \in [1..n -> Value], NEW y \in [1..n -> Value], NEW z \in [1..n -> Value]
  PROVE  /\ ~Precedes(x, x)
         /\ Precedes(x, y) /\ Precedes(y, z) => Precedes(x, z)
         /\ x # y => Precedes(x, y) \/ Precedes(y, x)
<1>1. \A i \in 1..n : x[i] \in Value /\ y[i] \in Value /\ z[i] \in Value
  OBVIOUS
<1>2. DOMAIN x = 1..n /\ DOMAIN y = 1..n
  OBVIOUS
<1>3. ~Precedes(x, x)
  BY <1>1, <1>2, LessOrder DEF Precedes
<1>4. ASSUME Precedes(x, y), Precedes(y, z) PROVE Precedes(x, z)
  <2>1. PICK i \in 1..n : Less(x[i], y[i]) /\ \A j \in 1..(i - 1) : x[j] = y[j]
    BY <1>2, <1>4 DEF Precedes
  <2>2. PICK k \in 1..n : Less(y[k], z[k]) /\ \A j \in 1..(k - 1) : y[j] = z[j]
    BY <1>2, <1>4 DEF Precedes
  <2>3. CASE i < k
    <3>1. Less(x[i], z[i]) /\ \A j \in 1..(i - 1) : x[j] = z[j]
      BY <2>1, <2>2, <2>3
    <3>2. QED
      BY <1>2, <3>1 DEF Precedes
  <2>4. CASE k < i
    <3>1. Less(x[k], z[k]) /\ \A j \in 1..(k - 1) : x[j] = z[j]
      BY <2>1, <2>2, <2>4
    <3>2. QED
      BY <1>2, <3>1 DEF Precedes
  <2>5. CASE i = k
    <3>1. Less(x[i], z[i])
      BY <1>1, <2>1, <2>2, <2>5, LessOrder
    <3>2. \A j \in 1..(i - 1) : x[j] = z[j]
      BY <2>1, <2>2, <2>5
    <3>3. QED
      BY <1>2, <3>1, <3>2 DEF Precedes
  <2>6. QED
    BY <2>3, <2>4, <2>5
<1>5. ASSUME x # y PROVE Precedes(x, y) \/ Precedes(y, x)
  <2> DEFINE D == {i \in 1..n : x[i] # y[i]}
  <2>1. D \in SUBSET Nat /\ D # {}
    BY <1>5
  <2>2. PICK i \in D : \A j \in D : i <= j
    <3> HIDE DEF D
    <3> QED BY <2>1, LeastNumber
  <2>3. i \in 1..n /\ x[i] # y[i] /\ \A j \in 1..(i - 1) : x[j] = y[j]
    BY <2>2
  <2>4. Less(x[i], y[i]) \/ Less(y[i], x[i])
    BY <1>1, <2>3, LessOrder
  <2>5. QED
    BY <1>2, <2>3, <2>4 DEF Precedes
<1>6. QED
  BY <1>3, <1>4, <1>5

\* Where nothing before decides, what precedes is not behind.
LEMMA NotBehind ==
  ASSUME NEW n \in Nat, NEW x \in [1..n -> Value], NEW y \in [1..n -> Value], Precedes(x, y),
         NEW m \in 1..n, \A j \in 1..(m - 1) : x[j] = y[j]
  PROVE  ~Less(y[m], x[m])
<1>1. PICK i \in 1..n : Less(x[i], y[i]) /\ \A j \in 1..(i - 1) : x[j] = y[j]
  BY DEF Precedes
<1>2. x[i] \in Value /\ y[i] \in Value /\ x[m] \in Value /\ y[m] \in Value
  OBVIOUS
<1>3. i >= m
  BY <1>1, <1>2, LessOrder
<1>4. CASE i = m
  BY <1>1, <1>2, <1>4, LessOrder
<1>5. CASE i > m
  BY <1>1, <1>2, <1>5, LessOrder
<1>6. QED
  BY <1>3, <1>4, <1>5

LEMMA NotBehindFour ==
  ASSUME NEW n \in Nat, n >= 4, NEW x \in [1..n -> Value], NEW y \in [1..n -> Value], Precedes(x, y)
  PROVE  /\ ~Less(y[1], x[1])
         /\ x[1] = y[1] => ~Less(y[2], x[2])
         /\ x[1] = y[1] /\ x[2] = y[2] => ~Less(y[3], x[3])
         /\ x[1] = y[1] /\ x[2] = y[2] /\ x[3] = y[3] => ~Less(y[4], x[4])
<1>1. \A m \in 1..n : (\A j \in 1..(m - 1) : x[j] = y[j]) => ~Less(y[m], x[m])
  BY NotBehind
<1>2. 1 \in 1..n /\ 2 \in 1..n /\ 3 \in 1..n /\ 4 \in 1..n
  OBVIOUS
<1>3. 1..(1 - 1) = {} /\ 1..(2 - 1) = {1} /\ 1..(3 - 1) = {1, 2} /\ 1..(4 - 1) = {1, 2, 3}
  OBVIOUS
<1>4. QED
  BY <1>1, <1>2, <1>3

Lined(K) ==
    \A x, y, z \in K : /\ ~Precedes(x, x)
                       /\ Precedes(x, y) /\ Precedes(y, z) => Precedes(x, z)
                       /\ x # y => Precedes(x, y) \/ Precedes(y, x)

LEMMA TuplesLined == ASSUME NEW n \in Nat PROVE Lined([1..n -> Value])
  BY PrecedesOrder DEF Lined

\* k is the only one whose key precedes all others.
Leads(k, S, key) == \A j \in S : (\A i \in S \ {j} : Precedes(key[j], key[i])) <=> j = k

Told(S, key) == S # {} /\ \A i, j \in S : i # j => key[i] # key[j]

\* One of finitely many with keys of their own precedes all others.
LEMMA Leader ==
  ASSUME NEW S, IsFiniteSet(S), NEW K, Lined(K), NEW key \in [S -> K],
         Told(S, key)
  PROVE  \E k \in S : Leads(k, S, key)
<1> DEFINE R == {ij \in S \X S : Precedes(key[ij[1]], key[ij[2]])}
<1>1. \A i, j \in S : <<i, j>> \in R <=> Precedes(key[i], key[j])
  OBVIOUS
<1>2. \A i \in S : key[i] \in K
  OBVIOUS
<1> HIDE DEF R
<1>3. StrictOrder(S, R)
  <2>1. \A i \in S : <<i, i>> \notin R
    BY <1>1, <1>2 DEF Lined, Told
  <2>2. \A i, j, k \in S : <<i, j>> \in R /\ <<j, k>> \in R => <<i, k>> \in R
    BY <1>1, <1>2 DEF Lined, Told
  <2>3. \A i, j \in S : i # j => <<i, j>> \in R \/ <<j, i>> \in R
    BY <1>1, <1>2 DEF Lined, Told
  <2>4. QED
    BY <2>1, <2>2, <2>3 DEF StrictOrder
<1>4. 0 \in 0..(Cardinality(S) - 1)
  BY FS_CardinalityType, FS_EmptySet DEF Told
<1>5. PICK k \in S : Cardinality(Below(S, R, k)) = 0
  BY <1>3, <1>4, PlaceTaken
<1>6. \A i \in S \ {k} : <<k, i>> \in R
  BY <1>3, <1>5, FirstPlace
<1>7. ASSUME NEW j \in S, \A i \in S \ {j} : <<j, i>> \in R PROVE j = k
  BY <1>3, <1>6, <1>7 DEF StrictOrder
<1>8. \A j \in S : (\A i \in S \ {j} : <<j, i>> \in R) <=> j = k
  BY <1>6, <1>7
<1>9. QED
  BY <1>1, <1>8 DEF Leads

LEMMA OneGreatest == ASSUME NEW k \in Nat PROVE Max({k}) = k
  BY DEF Max

LEMMA MinIs ==
  ASSUME NEW S \in SUBSET Nat, S # {}
  PROVE  Min(S) \in S /\ \A v \in S : Min(S) <= v
<1>1. \E x \in S : \A y \in S : x <= y
  BY LeastNumber
<1>2. QED
  BY <1>1 DEF Min

-----------------------------------------------------------------------------
(* What a metric says. *)

IsMetric(f) == IsFiniteSet(DOMAIN f) /\ DOMAIN f # {} /\ \A k \in DOMAIN f : f[k] \in Nat

Within(f, bound) == {k \in DOMAIN f : f[k] <= bound}

LEMMA WithinCount ==
  ASSUME NEW f, IsMetric(f), NEW a \in Int, NEW b \in Int, a <= b
  PROVE  /\ Cardinality(Within(f, a)) \in Nat /\ Cardinality(DOMAIN f) \in Nat \ {0}
         /\ Cardinality(Within(f, a)) <= Cardinality(Within(f, b))
         /\ Cardinality(Within(f, b)) <= Cardinality(DOMAIN f)
<1>1. Within(f, a) \in SUBSET Within(f, b) /\ Within(f, b) \in SUBSET DOMAIN f
  BY DEF Within, IsMetric
<1>2. IsFiniteSet(DOMAIN f) /\ DOMAIN f # {} /\ DOMAIN f \in SUBSET DOMAIN f
  BY DEF IsMetric
<1>3. Cardinality(DOMAIN f) \in Nat \ {0}
  BY <1>2, FS_CardinalityType, FS_EmptySet
<1>4. QED
  BY <1>1, <1>2, <1>3, Count

\* The values at most so many are within.
Frequent(f) == {f[k] : k \in {i \in DOMAIN f : Mostly(f, f[i])}}

LEMMA PercentileMin == ASSUME NEW f PROVE Percentile(f) = Min(Frequent(f))
  BY DEF Percentile, Frequent, Mostly

\* Between two values of a metric nothing changes.
LEMMA MostlyAtValue ==
  ASSUME NEW f, IsMetric(f), NEW b \in Int, Mostly(f, b)
  PROVE  \E v \in Frequent(f) : v <= b
<1> DEFINE S == {f[k] : k \in Within(f, b)}
<1>1. Within(f, b) # {}
  <2>1. SUFFICES ASSUME Within(f, b) = {} PROVE FALSE
    OBVIOUS
  <2>2. Cardinality(Within(f, b)) = 0
    BY <2>1, FS_EmptySet
  <2>3. Cardinality(DOMAIN f) \in Nat \ {0} /\ Percent \in 1..100
    BY WithinCount, LiveAssumption
  <2>4. 100 * 0 >= Percent * Cardinality(DOMAIN f)
    BY <2>2 DEF Mostly, Within
  <2> HIDE DEF S
  <2>5. Percent * Cardinality(DOMAIN f) >= 1
    BY <2>3, Z3
  <2>6. QED
    BY <2>3, <2>4, <2>5
<1>2. S \in SUBSET Int /\ S # {} /\ \A x \in S : x <= b
  BY <1>1 DEF Within, IsMetric
<1>3. PICK v \in S : \A y \in S : y <= v
  <2> HIDE DEF S
  <2> QED BY <1>2, GreatestNumber
<1>4. PICK k \in Within(f, b) : v = f[k]
  BY <1>3
<1>5. Within(f, b) = Within(f, v)
  <2>1. v \in Int /\ v <= b
    BY <1>2, <1>3
  <2>2. \A i \in DOMAIN f : f[i] \in Int /\ (f[i] <= b => f[i] \in S)
    BY DEF IsMetric, Within
  <2>3. \A i \in DOMAIN f : f[i] <= b <=> f[i] <= v
    BY <1>3, <2>1, <2>2
  <2>4. QED
    BY <2>3 DEF Within
<1>6. Mostly(f, f[k])
  BY <1>4, <1>5 DEF Mostly, Within
<1>7. k \in DOMAIN f /\ v <= b
  BY <1>2, <1>3, <1>4 DEF Within
<1>8. QED
  BY <1>4, <1>6, <1>7 DEF Frequent

LEMMA MostlyMore ==
  ASSUME NEW f, IsMetric(f), NEW a \in Int, NEW b \in Int, a <= b, Mostly(f, a)
  PROVE  Mostly(f, b)
<1>1. Cardinality(Within(f, a)) \in Nat /\ Cardinality(Within(f, b)) \in Nat
      /\ Cardinality(Within(f, a)) <= Cardinality(Within(f, b))
      /\ Cardinality(DOMAIN f) \in Nat
  BY WithinCount
<1>2. Percent * Cardinality(DOMAIN f) \in Int
  <2>1. Percent \in Nat
    BY LiveAssumption
  <2>2. \A n \in Nat : Percent * n \in Int
    BY <2>1
  <2>3. QED
    BY <1>1, <2>2
<1>3. 100 * Cardinality(Within(f, a)) >= Percent * Cardinality(DOMAIN f)
  BY DEF Mostly, Within
<1>4. 100 * Cardinality(Within(f, b)) >= Percent * Cardinality(DOMAIN f)
  BY <1>1, <1>2, <1>3
<1>5. QED
  BY <1>4 DEF Mostly, Within

\* The percentile is within a bound if so many of the values are.
LEMMA PercentileWithin ==
  ASSUME NEW f, IsMetric(f)
  PROVE  /\ P95(f) \in Nat
         /\ \A b \in Int : P95(f) <= b <=> Mostly(f, b)
<1>1. P95(f) = Min(Frequent(f))
  BY PercentileMin DEF P95, IsMetric
<1>2. Frequent(f) \in SUBSET Nat
  BY DEF Frequent, IsMetric
<1>3. \E b \in Int : Mostly(f, b)
  <2> DEFINE S == {f[k] : k \in DOMAIN f}
  <2>1. IsFiniteSet(S)
    <3> DEFINE g == [k \in DOMAIN f |-> f[k]]
    <3>1. S = {g[k] : k \in DOMAIN f}
      OBVIOUS
    <3>2. g \in Surjection(DOMAIN f, S)
      BY DEF Surjection
    <3>3. QED
      BY <3>2, FS_Surjection DEF IsMetric
  <2>2. S \in SUBSET Nat /\ S # {}
    BY DEF IsMetric
  <2>3. PICK v \in S : \A y \in S : y <= v
    <3> HIDE DEF S
    <3> QED BY <2>1, <2>2, Extremes
  <2>4. Within(f, v) = DOMAIN f
    BY <2>3 DEF Within
  <2>5. v \in Nat /\ Cardinality(DOMAIN f) \in Nat
    BY <2>2, <2>3, WithinCount
  <2> HIDE DEF S
  <2>6. 100 * Cardinality(DOMAIN f) >= Percent * Cardinality(DOMAIN f)
    <3>1. Percent \in Nat /\ Percent <= 100
      BY LiveAssumption
    <3>2. \A n \in Nat : 100 * n >= Percent * n
      BY <3>1, Z3
    <3>3. QED
      BY <2>5, <3>2
  <2>7. Mostly(f, v)
    BY <2>4, <2>6 DEF Mostly, Within
  <2>8. QED
    BY <2>5, <2>7
<1>4. Frequent(f) # {}
  BY <1>3, MostlyAtValue
<1>5. P95(f) \in Frequent(f) /\ \A v \in Frequent(f) : P95(f) <= v
  <2>1. \E x \in Frequent(f) : \A y \in Frequent(f) : x <= y
    BY <1>2, <1>4, LeastNumber
  <2>2. QED
    BY <1>1, <2>1 DEF Min
<1>6. ASSUME NEW b \in Int, P95(f) <= b PROVE Mostly(f, b)
  <2>1. PICK k \in DOMAIN f : P95(f) = f[k] /\ Mostly(f, f[k])
    BY <1>5 DEF Frequent
  <2>2. f[k] \in Int
    BY DEF IsMetric
  <2>3. QED
    BY <1>6, <2>1, <2>2, MostlyMore
<1>7. ASSUME NEW b \in Int, Mostly(f, b) PROVE P95(f) <= b
  <2>1. PICK v \in Frequent(f) : v <= b
    BY <1>7, MostlyAtValue
  <2>2. P95(f) <= v /\ v \in Nat /\ P95(f) \in Nat
    BY <1>2, <1>5
  <2>3. QED
    BY <2>1, <2>2
<1>8. QED
  BY <1>2, <1>5, <1>6, <1>7

LEMMA LeastIs ==
  ASSUME NEW f, IsMetric(f)
  PROVE  /\ Least(f) \in Nat
         /\ \A b \in Int : Least(f) >= b <=> \A k \in DOMAIN f : f[k] >= b
<1> DEFINE S == {f[k] : k \in DOMAIN f}
<1>1. S \in SUBSET Nat /\ S # {}
  BY DEF IsMetric
<1>2. Least(f) = Min(S)
  BY DEF Least, IsMetric
<1>3. Least(f) \in S /\ \A v \in S : Least(f) <= v
  <2> HIDE DEF S
  <2>1. \E x \in S : \A y \in S : x <= y
    BY <1>1, LeastNumber
  <2>2. QED
    BY <1>2, <2>1 DEF Min
<1>4. Least(f) \in Nat /\ \E k \in DOMAIN f : Least(f) = f[k]
  BY <1>1, <1>3
<1>5. \A k \in DOMAIN f : f[k] \in Nat /\ Least(f) <= f[k]
  BY <1>3 DEF IsMetric
<1>6. QED
  BY <1>4, <1>5

-----------------------------------------------------------------------------
(* What a candidate is measured by. *)

Measured(measured) == measured \in Seq(Run)

LEMMA MeasuredIs ==
  ASSUME NEW measured, Measured(measured)
  PROVE  Len(measured) \in Nat /\ DOMAIN measured = 1..Len(measured)
  BY DEF Measured

LEMMA RunIs ==
  ASSUME NEW measured, Measured(measured), NEW k \in DOMAIN measured
  PROVE  /\ measured[k].success \in BOOLEAN /\ measured[k].pass \in BOOLEAN
         /\ measured[k].score \in 0..100 /\ (measured[k].pass <=> measured[k].score = 100)
         /\ measured[k].ttfa \in Nat \cup {None} /\ measured[k].e2e \in Nat \cup {None}
         /\ measured[k].rate \in Nat \cup {None}
<1>1. measured[k] \in Run
  BY DEF Measured
<1>2. QED
  BY <1>1 DEF Run

LEMMA MetricIs ==
  ASSUME NEW measured, Measured(measured), NEW field \in {"ttfa", "e2e", "rate"}
  PROVE  /\ IsFiniteSet(DOMAIN Metric(measured, field))
         /\ \A k \in DOMAIN Metric(measured, field) :
               /\ k \in DOMAIN measured /\ measured[k].success /\ measured[k][field] # None
               /\ Metric(measured, field)[k] = measured[k][field]
               /\ Metric(measured, field)[k] \in Nat
         /\ \A k \in DOMAIN measured :
               measured[k].success /\ measured[k][field] # None => k \in DOMAIN Metric(measured, field)
         /\ DOMAIN Metric(measured, field) # {} => IsMetric(Metric(measured, field))
<1>1. \A k \in DOMAIN measured : measured[k][field] \in Nat \cup {None}
  <2>1. SUFFICES ASSUME NEW k \in DOMAIN measured PROVE measured[k][field] \in Nat \cup {None}
    OBVIOUS
  <2>2. CASE field = "ttfa"
    BY <2>2, RunIs
  <2>3. CASE field = "e2e"
    BY <2>3, RunIs
  <2>4. CASE field = "rate"
    BY <2>4, RunIs
  <2>5. QED
    BY <2>2, <2>3, <2>4
<1>2. DOMAIN Metric(measured, field) = {i \in Successful(measured) : measured[i][field] # None}
  BY DEF Metric
<1>3. \A k \in DOMAIN Metric(measured, field) : Metric(measured, field)[k] = measured[k][field]
  BY DEF Metric
<1>4. IsFiniteSet(DOMAIN Metric(measured, field))
  <2>1. DOMAIN measured = 1..Len(measured) /\ Len(measured) \in Nat
    BY MeasuredIs
  <2>2. IsFiniteSet(1..Len(measured))
    BY <2>1, FS_Interval
  <2>3. DOMAIN Metric(measured, field) \in SUBSET (1..Len(measured))
    BY <1>2, <2>1 DEF Successful
  <2>4. QED
    BY <2>2, <2>3, FS_Subset
<1>5. \A k \in DOMAIN Metric(measured, field) :
        /\ k \in DOMAIN measured /\ measured[k].success /\ measured[k][field] # None
        /\ Metric(measured, field)[k] \in Nat
  BY <1>1, <1>2, <1>3 DEF Successful
<1>6. QED
  BY <1>2, <1>3, <1>4, <1>5 DEF Successful, IsMetric

\* What comes of a metric, and that it is missing exactly if the metric is empty.
LEMMA FigureIs ==
  ASSUME NEW measured, Measured(measured), NEW field \in {"ttfa", "e2e", "rate"}
  PROVE  /\ P95(Metric(measured, field)) \in Nat \cup {None}
         /\ Least(Metric(measured, field)) \in Nat \cup {None}
         /\ P95(Metric(measured, field)) # None <=> DOMAIN Metric(measured, field) # {}
         /\ Least(Metric(measured, field)) # None <=> DOMAIN Metric(measured, field) # {}
<1>1. CASE DOMAIN Metric(measured, field) = {}
  BY <1>1 DEF P95, Least
<1>2. CASE DOMAIN Metric(measured, field) # {}
  <2>1. P95(Metric(measured, field)) \in Nat /\ Least(Metric(measured, field)) \in Nat
    BY <1>2, MetricIs, PercentileWithin, LeastIs
  <2>2. QED
    BY <1>2, <2>1, WorkloadAssumption
<1>3. QED
  BY <1>1, <1>2

LEMMA LeastOf ==
  ASSUME NEW D, NEW q, \A k \in D : q[k] \in 0..100,
         NEW least, least = Min({q[k] : k \in D} \cup {100})
  PROVE  /\ least \in 0..100
         /\ \A b \in Int : least >= b <=> b <= 100 /\ \A k \in D : q[k] >= b
<1> DEFINE S == {q[k] : k \in D} \cup {100}
<1>1. \A k \in D : q[k] \in Nat /\ q[k] <= 100
  OBVIOUS
<1>2. S \in SUBSET Nat /\ S # {} /\ \A x \in S : x <= 100
  BY <1>1
<1>3. least = Min(S)
  OBVIOUS
<1>4. least \in S /\ \A v \in S : least <= v
  <2> HIDE DEF S
  <2>1. S \in SUBSET Nat /\ S # {}
    BY <1>2
  <2>2. Min(S) \in S /\ \A v \in S : Min(S) <= v
    BY <2>1, MinIs
  <2>3. QED
    BY <1>3, <2>2
<1>5. /\ least \in Nat /\ least <= 100 /\ \A k \in D : least <= q[k]
      /\ least = 100 \/ \E k \in D : least = q[k]
  BY <1>2, <1>4
<1>6. ASSUME NEW b \in Int PROVE least >= b <=> b <= 100 /\ \A k \in D : q[k] >= b
  BY <1>1, <1>5
<1>7. QED
  BY <1>5, <1>6

LEMMA ScoreIs ==
  ASSUME NEW measured, Measured(measured)
  PROVE  /\ Score(measured) \in 0..100
         /\ \A b \in Int : Score(measured) >= b <=>
               b <= 100 /\ \A k \in DOMAIN measured : Quality(measured)[k].score >= b
<1> DEFINE D == DOMAIN measured
           q == [k \in D |-> Quality(measured)[k].score]
<1>1. DOMAIN Quality(measured) = D
  BY DEF Quality
<1>2. \A k \in D : q[k] \in 0..100
  <2>1. ASSUME NEW k \in D PROVE Quality(measured)[k].score \in 0..100
    <3>1. measured[k].score \in 0..100
      BY RunIs
    <3>2. QED
      BY <3>1 DEF Quality
  <2>2. QED
    BY <2>1
<1>3. Score(measured) = Min({q[k] : k \in D} \cup {100})
  <2>1. {Quality(measured)[k].score : k \in DOMAIN Quality(measured)} = {q[k] : k \in D}
    BY <1>1
  <2>2. QED
    BY <2>1 DEF Score
<1>4. \A k \in DOMAIN measured : q[k] = Quality(measured)[k].score
  OBVIOUS
<1> HIDE DEF q, D
<1>5. /\ Score(measured) \in 0..100
      /\ \A b \in Int : Score(measured) >= b <=> b <= 100 /\ \A k \in D : q[k] >= b
  BY <1>2, <1>3, LeastOf
<1>6. QED
  BY <1>4, <1>5 DEF D

\* Every check is passed if every request came back and passed.
LEMMA AllPass ==
  ASSUME NEW measured, Measured(measured), NEW k \in DOMAIN measured
  PROVE  /\ Quality(measured)[k].pass <=> measured[k].success /\ measured[k].pass
         /\ Quality(measured)[k].pass => Quality(measured)[k].score = 100 /\ measured[k].score = 100
<1>1. measured[k].success \in BOOLEAN /\ measured[k].pass \in BOOLEAN
      /\ (measured[k].pass <=> measured[k].score = 100)
  BY RunIs
<1>2. CASE measured[k].success
  BY <1>1, <1>2 DEF Quality
<1>3. CASE ~measured[k].success
  BY <1>1, <1>3 DEF Quality
<1>4. QED
  BY <1>2, <1>3

Requirement == {"ttfa_p95_ms", "end_to_end_p95_ms", "answer_tokens_per_second_min", "error_rate_max",
             "quality_minimum_score", "required_quality_checks"}

LEMMA RequirementFinite == IsFiniteSet(Requirement)
<1>1. \A S, x : IsFiniteSet(S) => IsFiniteSet(S \cup {x})
  BY FS_AddElement
<1>2. IsFiniteSet({})
  BY FS_EmptySet
<1>3. Requirement = (((((({} \cup {"ttfa_p95_ms"}) \cup {"end_to_end_p95_ms"}) \cup {"answer_tokens_per_second_min"})
                       \cup {"error_rate_max"}) \cup {"quality_minimum_score"}) \cup {"required_quality_checks"})
  BY DEF Requirement
<1>4. QED
  BY <1>1, <1>2, <1>3, Zenon

LEMMA AllChecked ==
  ASSUME NEW measured, NEW want
  PROVE  (\A o \in DOMAIN Checked(measured, want) : Checked(measured, want)[o]) <=>
           /\ Checked(measured, want)["ttfa_p95_ms"] /\ Checked(measured, want)["end_to_end_p95_ms"]
           /\ Checked(measured, want)["answer_tokens_per_second_min"]
           /\ Checked(measured, want)["error_rate_max"] /\ Checked(measured, want)["quality_minimum_score"]
           /\ Checked(measured, want)["required_quality_checks"]
<1>1. DOMAIN Checked(measured, want) = Requirement
  BY DEF Checked, Requirement
<1>2. QED
  BY <1>1, Zenon DEF Requirement

LEMMA NoneFailed ==
  ASSUME NEW measured, Measured(measured), \A k \in DOMAIN measured : measured[k].success
  PROVE  Len(measured) - Cardinality(Successful(measured)) = 0
<1>1. Len(measured) \in Nat /\ DOMAIN measured = 1..Len(measured)
  BY MeasuredIs
<1>2. Successful(measured) = 1..Len(measured)
  BY <1>1 DEF Successful
<1>3. \A n \in Nat : Cardinality(1..n) = n
  BY FS_Interval
<1>4. QED
  BY <1>1, <1>2, <1>3

\* A candidate keeps what it is asked exactly if it is fit.
LEMMA FitIsKept ==
  ASSUME NEW measured, Measured(measured), Len(measured) >= 1, NEW want \in [Objective -> Int]
  PROVE  (\A o \in DOMAIN Checked(measured, want) : Checked(measured, want)[o]) <=> Fit(measured, want)
<1> DEFINE Quick(field, bound) == P95(Metric(measured, field)) # None /\ P95(Metric(measured, field)) <= bound
           Fluent == /\ Least(Metric(measured, "rate")) # None
                     /\ Least(Metric(measured, "rate")) >= want["answer_tokens_per_second_min"]
           failed == Len(measured) - Cardinality(Successful(measured))
           Reliable == 100 * failed <= want["error_rate_max"] * Len(measured)
           Correct == Score(measured) >= want["quality_minimum_score"]
           Borne == \A k \in DOMAIN Quality(measured) : Quality(measured)[k].pass
<1>1. (\A o \in DOMAIN Checked(measured, want) : Checked(measured, want)[o]) <=>
        /\ Quick("ttfa", want["ttfa_p95_ms"]) /\ Quick("e2e", want["end_to_end_p95_ms"])
        /\ Fluent /\ Reliable /\ Correct /\ Borne
  <2>1. /\ Checked(measured, want)["ttfa_p95_ms"] <=> Quick("ttfa", want["ttfa_p95_ms"])
        /\ Checked(measured, want)["end_to_end_p95_ms"] <=> Quick("e2e", want["end_to_end_p95_ms"])
        /\ Checked(measured, want)["answer_tokens_per_second_min"] <=> Fluent
    BY DEF Checked
  <2>2. /\ Checked(measured, want)["error_rate_max"] <=> Reliable
        /\ Checked(measured, want)["quality_minimum_score"] <=> Correct
        /\ Checked(measured, want)["required_quality_checks"] <=> Borne
    BY DEF Checked
  <2> HIDE DEF Quick, Fluent, Reliable, Correct, Borne
  <2>3. QED
    BY <2>1, <2>2, AllChecked
<1>2. Len(measured) \in Nat \ {0} /\ DOMAIN measured = 1..Len(measured) /\ 1 \in DOMAIN measured
  BY MeasuredIs
<1>3. \A o \in Objective : want[o] \in Int
  OBVIOUS
<1>4. ASSUME NEW field \in {"ttfa", "e2e"}, NEW bound \in Int
      PROVE  Quick(field, bound) <=>
                DOMAIN Metric(measured, field) # {} /\ Mostly(Metric(measured, field), bound)
  BY FigureIs, MetricIs, PercentileWithin
<1>5. ASSUME NEW bound \in Int
      PROVE  Least(Metric(measured, "rate")) # None /\ Least(Metric(measured, "rate")) >= bound <=>
                /\ DOMAIN Metric(measured, "rate") # {}
                /\ \A k \in DOMAIN Metric(measured, "rate") : measured[k].rate >= bound
  <2> DEFINE f == Metric(measured, "rate")
  <2>1. \A k \in DOMAIN f : f[k] = measured[k].rate
    BY MetricIs
  <2>2. DOMAIN f # {} => IsMetric(f)
    BY MetricIs
  <2>3. Least(f) # None <=> DOMAIN f # {}
    BY FigureIs
  <2> HIDE DEF f
  <2>4. DOMAIN f # {} => (Least(f) >= bound <=> \A k \in DOMAIN f : f[k] >= bound)
    BY <2>2, LeastIs
  <2>5. QED
    BY <2>1, <2>3, <2>4 DEF f
<1>6. (\A k \in DOMAIN measured : measured[k].success) => failed = 0
  BY NoneFailed
<1>7. ASSUME failed = 0 PROVE Reliable <=> want["error_rate_max"] >= 0
  <2> HIDE DEF failed
  <2>1. want["error_rate_max"] \in Int
    BY <1>3 DEF Objective
  <2>2. \A e \in Int, n \in Nat \ {0} : 0 <= e * n <=> e >= 0
    BY Z3
  <2>3. QED
    BY <1>2, <1>7, <2>1, <2>2
<1>8. Borne <=> \A k \in DOMAIN measured : measured[k].success /\ measured[k].pass
  <2>1. DOMAIN Quality(measured) = DOMAIN measured
    BY DEF Quality
  <2>2. QED
    BY <2>1, AllPass
<1>9. ASSUME Borne
      PROVE  Correct <=> \A k \in DOMAIN measured : measured[k].score >= want["quality_minimum_score"]
  <2>1. want["quality_minimum_score"] \in Int
    BY <1>3 DEF Objective
  <2>2. \A k \in DOMAIN measured : Quality(measured)[k].score = 100 /\ measured[k].score = 100
    <3>1. DOMAIN Quality(measured) = DOMAIN measured
      BY DEF Quality
    <3>2. QED
      BY <1>9, <3>1, AllPass
  <2>3. measured[1].score = 100 /\ Quality(measured)[1].score = 100
    BY <1>2, <2>2
  <2>4. \A b \in Int : Score(measured) >= b <=> b <= 100
    <3>1. ASSUME NEW b \in Int PROVE Score(measured) >= b <=> b <= 100
      BY <2>2, ScoreIs
    <3>2. QED
      BY <3>1
  <2>5. QED
    BY <1>2, <2>1, <2>2, <2>3, <2>4
<1> DEFINE Whole == \A k \in DOMAIN measured : measured[k].success /\ measured[k].pass
           Fast(field, bound) == DOMAIN Metric(measured, field) # {} /\ Mostly(Metric(measured, field), bound)
<1>10. want["ttfa_p95_ms"] \in Int /\ want["end_to_end_p95_ms"] \in Int
       /\ want["answer_tokens_per_second_min"] \in Int
  BY <1>3 DEF Objective
<1>11. Quick("ttfa", want["ttfa_p95_ms"]) <=> Fast("ttfa", want["ttfa_p95_ms"])
  BY <1>4, <1>10
<1>12. Quick("e2e", want["end_to_end_p95_ms"]) <=> Fast("e2e", want["end_to_end_p95_ms"])
  BY <1>4, <1>10
<1>13. Fluent <=>
         /\ DOMAIN Metric(measured, "rate") # {}
         /\ \A k \in DOMAIN Metric(measured, "rate") : measured[k].rate >= want["answer_tokens_per_second_min"]
  BY <1>5, <1>10
<1>14. Whole =>
         ((\A k \in DOMAIN Metric(measured, "rate") : measured[k].rate >= want["answer_tokens_per_second_min"])
          <=> \A k \in DOMAIN measured :
                measured[k].rate # None => measured[k].rate >= want["answer_tokens_per_second_min"])
  BY MetricIs
<1>15. Whole => (Reliable <=> want["error_rate_max"] >= 0)
  BY <1>6, <1>7
<1>16. Whole => (Correct <=> \A k \in DOMAIN measured : measured[k].score >= want["quality_minimum_score"])
  BY <1>8, <1>9
<1>17. Fit(measured, want) <=>
         /\ Whole /\ \A k \in DOMAIN measured : measured[k].score >= want["quality_minimum_score"]
         /\ want["error_rate_max"] >= 0
         /\ \A k \in DOMAIN measured :
               measured[k].rate # None => measured[k].rate >= want["answer_tokens_per_second_min"]
         /\ DOMAIN Metric(measured, "rate") # {}
         /\ Fast("ttfa", want["ttfa_p95_ms"]) /\ Fast("e2e", want["end_to_end_p95_ms"])
  BY DEF Fit
<1>18. QED
  <2> HIDE DEF Quick, Fluent, failed, Reliable, Correct, Borne, Whole, Fast
  <2> QED BY <1>1, <1>8, <1>11, <1>12, <1>13, <1>14, <1>15, <1>16, <1>17 DEF Whole

\* A lower percentile is as fast.
LEMMA LowerIsAsFast ==
  ASSUME NEW measured, Measured(measured), NEW other, Measured(other), NEW field \in {"ttfa", "e2e"},
         DOMAIN Metric(measured, field) # {}, DOMAIN Metric(other, field) # {},
         P95(Metric(measured, field)) <= P95(Metric(other, field))
  PROVE  AsFast(measured, other, field)
<1> DEFINE f == Metric(measured, field)
           g == Metric(other, field)
<1>1. IsMetric(f) /\ IsMetric(g)
  BY MetricIs
<1>2. SUFFICES ASSUME NEW k \in DOMAIN g, Mostly(g, g[k]) PROVE Mostly(f, g[k])
  BY DEF AsFast
<1> HIDE DEF f, g
<1>3. g[k] \in Int
  BY <1>1 DEF IsMetric
<1>4. P95(g) <= g[k] /\ P95(g) \in Nat /\ P95(f) \in Nat
  BY <1>1, <1>2, <1>3, PercentileWithin
<1>5. P95(f) <= P95(g)
  BY DEF f, g
<1>6. P95(f) <= g[k]
  BY <1>3, <1>4, <1>5
<1>7. QED
  BY <1>1, <1>3, <1>6, PercentileWithin

-----------------------------------------------------------------------------
(* A report. *)

RowStands(row, want) ==
    /\ row.print \in Nat /\ Measured(row.runs) /\ row.score \in 0..100
    /\ row.ttfa = P95(Metric(row.runs, "ttfa")) /\ row.ttfa \in Nat \cup {None}
    /\ row.e2e = P95(Metric(row.runs, "e2e")) /\ row.e2e \in Nat \cup {None}
    /\ row.rate \in Nat \cup {None}
    /\ row.blocking \in SUBSET Requirement /\ (row.blocking = {} <=> Fit(row.runs, want))
    /\ row.blocking = {} => /\ {row.ttfa, row.e2e, row.rate} \subseteq Nat /\ row.score = 100
                            /\ DOMAIN Metric(row.runs, "ttfa") # {} /\ DOMAIN Metric(row.runs, "e2e") # {}

LEMMA RowFollows ==
  ASSUME NEW print \in Nat, NEW found, NEW measured, Measured(measured), Len(measured) >= 1,
         NEW want \in [Objective -> Int]
  PROVE  RowStands(CandidateRow(print, found, measured, want), want)
<1> DEFINE row == CandidateRow(print, found, measured, want)
<1>1. /\ row.print = print /\ row.runs = measured /\ row.score = Score(measured)
      /\ row.ttfa = P95(Metric(measured, "ttfa")) /\ row.e2e = P95(Metric(measured, "e2e"))
      /\ row.rate = Least(Metric(measured, "rate"))
      /\ row.blocking = {o \in DOMAIN Checked(measured, want) : ~Checked(measured, want)[o]}
  BY DEF CandidateRow
<1> HIDE DEF row
<1>2. row.blocking \in SUBSET Requirement
  <2>1. DOMAIN Checked(measured, want) = Requirement
    BY DEF Checked, Requirement
  <2>2. QED
    BY <1>1, <2>1
<1>3. row.blocking = {} <=> Fit(measured, want)
  <2>1. row.blocking = {} <=> \A o \in DOMAIN Checked(measured, want) : Checked(measured, want)[o]
    BY <1>1
  <2>2. QED
    BY <2>1, FitIsKept
<1>4. /\ row.ttfa \in Nat \cup {None} /\ row.e2e \in Nat \cup {None} /\ row.rate \in Nat \cup {None}
      /\ row.ttfa # None <=> DOMAIN Metric(measured, "ttfa") # {}
      /\ row.e2e # None <=> DOMAIN Metric(measured, "e2e") # {}
      /\ row.rate # None <=> DOMAIN Metric(measured, "rate") # {}
  BY <1>1, FigureIs
<1>5. row.score \in 0..100
  BY <1>1, ScoreIs
<1>6. ASSUME Fit(measured, want)
      PROVE  row.score = 100 /\ \A field \in {"ttfa", "e2e", "rate"} : DOMAIN Metric(measured, field) # {}
  <2>1. \A k \in DOMAIN measured : measured[k].success /\ measured[k].pass
    BY <1>6 DEF Fit
  <2>2. \A k \in DOMAIN measured : Quality(measured)[k].score = 100
    BY <2>1, AllPass
  <2>3. Score(measured) >= 100
    BY <2>2, ScoreIs
  <2>4. row.score = 100
    <3>1. \A n \in 0..100 : n >= 100 => n = 100
      OBVIOUS
    <3>2. QED
      BY <1>1, <1>5, <2>3, <3>1
  <2>5. \A field \in {"ttfa", "e2e", "rate"} : DOMAIN Metric(measured, field) # {}
    BY <1>6 DEF Fit
  <2>6. QED
    BY <2>4, <2>5
<1>7. QED
  BY <1>1, <1>2, <1>3, <1>4, <1>5, <1>6 DEF RowStands, row

ListStands(list, want) ==
    /\ Len(list) \in Nat \ {0} /\ DOMAIN list = 1..Len(list)
    /\ \A k \in DOMAIN list : RowStands(list[k], want)
    /\ \A i, k \in DOMAIN list : i # k => list[i].print # list[k].print

LEMMA EligibleIsFit ==
  ASSUME NEW list, NEW want, ListStands(list, want)
  PROVE  Eligible(list) = {k \in DOMAIN list : Fit(list[k].runs, want)}
  BY DEF ListStands, RowStands, Eligible

LEMMA ListFinite ==
  ASSUME NEW list, NEW want, ListStands(list, want), NEW S \in SUBSET DOMAIN list
  PROVE  IsFiniteSet(S) /\ S \in SUBSET Nat
<1>1. IsFiniteSet(1..Len(list))
  BY FS_Interval DEF ListStands
<1>2. QED
  BY <1>1, FS_Subset DEF ListStands

\* Among those that are fit the first is the fastest.
LEMMA FirstRanked ==
  ASSUME NEW list, NEW want, ListStands(list, want), Eligible(list) # {}
  PROVE  \E k \in Eligible(list) :
            /\ Ranked(list) = {k}
            /\ \A i \in Eligible(list) : /\ list[k].ttfa <= list[i].ttfa
                                         /\ list[k].ttfa = list[i].ttfa => list[k].e2e <= list[i].e2e
<1> DEFINE S == Eligible(list)
           key == [k \in S |-> RankKey(list[k])]
<1>1. S \in SUBSET DOMAIN list /\ IsFiniteSet(S)
  BY ListFinite DEF Eligible
<1>2. ASSUME NEW k \in S
      PROVE  /\ list[k].ttfa \in Nat /\ list[k].e2e \in Nat /\ list[k].rate \in Nat
             /\ list[k].print \in Nat
  BY <1>1 DEF ListStands, RowStands, Eligible
<1>3. ASSUME NEW k \in S
      PROVE  /\ key[k] \in [1..4 -> Value]
             /\ key[k][1] = list[k].ttfa /\ key[k][2] = list[k].e2e /\ key[k][4] = list[k].print
  <2>1. key[k] = <<list[k].ttfa, list[k].e2e, -list[k].rate, list[k].print>>
    BY DEF RankKey
  <2>2. list[k].ttfa \in Value /\ list[k].e2e \in Value /\ -list[k].rate \in Value /\ list[k].print \in Value
    BY <1>2 DEF Value
  <2> HIDE DEF key, S
  <2>3. QED
    BY <2>1, <2>2
<1>4. key \in [S -> [1..4 -> Value]]
  BY <1>3
<1>5. ASSUME NEW i \in S, NEW k \in S, i # k PROVE key[i] # key[k]
  <2>1. list[i].print # list[k].print
    BY <1>1, <1>5 DEF ListStands
  <2> HIDE DEF key, S
  <2>2. QED
    BY <1>3, <2>1
<1>6. Ranked(list) = {k \in S : \A i \in S \ {k} : Precedes(key[k], key[i])}
  BY DEF Ranked
<1>7. S # {} /\ 4 \in Nat /\ Eligible(list) = S
  OBVIOUS
<1> HIDE DEF key, S
<1>8. PICK k \in S : Ranked(list) = {k}
  <2>1. \A i, j \in S : i # j => key[i] # key[j]
    BY <1>5
  <2>2. IsFiniteSet(S) /\ S # {} /\ 4 \in Nat
    BY <1>1, <1>7
  <2>3. Told(S, key)
    BY <2>1, <2>2 DEF Told
  <2>4. \E k \in S : Leads(k, S, key)
    <3> DEFINE K == [1..4 -> Value]
    <3>1. Lined(K) /\ key \in [S -> K]
      BY <1>4, <2>2, TuplesLined
    <3> HIDE DEF K
    <3>2. QED
      BY <2>2, <2>3, <3>1, Leader
  <2>5. QED
    BY <1>6, <2>4 DEF Leads
<1>9. ASSUME NEW i \in S
      PROVE  /\ list[k].ttfa <= list[i].ttfa
             /\ list[k].ttfa = list[i].ttfa => list[k].e2e <= list[i].e2e
  <2>1. CASE i = k
    BY <1>2, <2>1
  <2>2. CASE i # k
    <3>1. Precedes(key[k], key[i])
      BY <1>6, <1>8, <2>2
    <3>2. key[k] \in [1..4 -> Value] /\ key[i] \in [1..4 -> Value]
      BY <1>3
    <3>3. ~Less(key[i][1], key[k][1])
          /\ (key[k][1] = key[i][1] => ~Less(key[i][2], key[k][2]))
      <4>1. PICK x, y : x = key[k] /\ y = key[i]
        OBVIOUS
      <4>2. x \in [1..4 -> Value] /\ y \in [1..4 -> Value] /\ Precedes(x, y)
        BY <3>1, <3>2, <4>1
      <4>3. 4 \in Nat /\ 4 >= 4
        OBVIOUS
      <4>4. ~Less(y[1], x[1]) /\ (x[1] = y[1] => ~Less(y[2], x[2]))
        BY <4>2, <4>3, NotBehindFour, Zenon
      <4>5. QED
        BY <4>1, <4>4, Zenon
    <3>4. /\ ~Less(list[i].ttfa, list[k].ttfa)
          /\ list[k].ttfa = list[i].ttfa => ~Less(list[i].e2e, list[k].e2e)
      BY <1>3, <3>3
    <3>5. \A x, y \in Nat : ~Less(x, y) => y <= x
      BY WorkloadAssumption DEF Less
    <3>6. QED
      BY <1>2, <3>4, <3>5
  <2>3. QED
    BY <2>1, <2>2
<1>10. QED
  BY <1>7, <1>8, <1>9

\* Of all that were measured a fit one comes closest, if there is one, and then the fastest.
LEMMA FirstClosest ==
  ASSUME NEW list, NEW want, ListStands(list, want)
  PROVE  \E k \in DOMAIN list :
            /\ Closest(list) = {k}
            /\ Eligible(list) # {} => k \in Eligible(list)
            /\ \A i \in Eligible(list) : /\ list[k].ttfa <= list[i].ttfa
                                         /\ list[k].ttfa = list[i].ttfa => list[k].e2e <= list[i].e2e
<1> DEFINE S == DOMAIN list
           key == [k \in S |-> DiagnosticKey(list[k])]
<1>1. IsFiniteSet(S)
  BY ListFinite
<1>2. ASSUME NEW k \in S
      PROVE  /\ Cardinality(list[k].blocking) \in Nat
             /\ Cardinality(list[k].blocking) = 0 <=> k \in Eligible(list)
  <2>1. IsFiniteSet(Requirement)
    BY RequirementFinite
  <2>2. IsFiniteSet(list[k].blocking)
    BY <2>1, FS_Subset DEF ListStands, RowStands
  <2>3. QED
    BY <2>2, FS_CardinalityType, FS_EmptySet DEF Eligible
<1>3. ASSUME NEW k \in S
      PROVE  /\ list[k].ttfa \in Value /\ list[k].e2e \in Value /\ list[k].score \in Int /\ list[k].print \in Nat
             /\ k \in Eligible(list) => list[k].score = 100 /\ list[k].ttfa \in Nat /\ list[k].e2e \in Nat
  <2>1. RowStands(list[k], want)
    BY DEF ListStands
  <2>2. list[k].score \in 0..100 /\ list[k].print \in Nat
        /\ list[k].ttfa \in Nat \cup {None} /\ list[k].e2e \in Nat \cup {None}
    BY <2>1 DEF RowStands
  <2>3. list[k].score \in Int /\ list[k].ttfa \in Value /\ list[k].e2e \in Value
    BY <2>2 DEF Value
  <2>4. k \in Eligible(list) => list[k].blocking = {}
    BY DEF Eligible
  <2>5. list[k].blocking = {} => list[k].score = 100 /\ list[k].ttfa \in Nat /\ list[k].e2e \in Nat
    BY <2>1 DEF RowStands
  <2>6. QED
    BY <2>2, <2>3, <2>4, <2>5
<1>4. ASSUME NEW k \in S
      PROVE  /\ key[k] \in [1..5 -> Value]
             /\ key[k][1] = Cardinality(list[k].blocking) /\ key[k][2] = -list[k].score
             /\ key[k][3] = list[k].ttfa /\ key[k][4] = list[k].e2e /\ key[k][5] = list[k].print
  <2>1. key[k] = <<Cardinality(list[k].blocking), -list[k].score, list[k].ttfa, list[k].e2e, list[k].print>>
    BY DEF DiagnosticKey
  <2>2. /\ Cardinality(list[k].blocking) \in Value /\ -list[k].score \in Value
        /\ list[k].ttfa \in Value /\ list[k].e2e \in Value /\ list[k].print \in Value
    BY <1>2, <1>3 DEF Value
  <2> HIDE DEF key, S
  <2>3. QED
    BY <2>1, <2>2
<1>5. key \in [S -> [1..5 -> Value]]
  BY <1>4
<1>6. ASSUME NEW i \in S, NEW k \in S, i # k PROVE key[i] # key[k]
  <2>1. list[i].print # list[k].print
    BY <1>6 DEF ListStands
  <2> HIDE DEF key, S
  <2>2. QED
    BY <1>4, <2>1
<1>7. Closest(list) = {k \in S : \A i \in S \ {k} : Precedes(key[k], key[i])}
  BY DEF Closest
<1>8. S # {} /\ S = DOMAIN list /\ Eligible(list) \in SUBSET S
  BY DEF ListStands, Eligible
<1> HIDE DEF key, S
<1>9. PICK k \in S : Closest(list) = {k}
  <2>1. \A i, j \in S : i # j => key[i] # key[j]
    BY <1>6
  <2>2. Told(S, key)
    BY <1>8, <2>1 DEF Told
  <2>3. \E k \in S : Leads(k, S, key)
    <3> DEFINE K == [1..5 -> Value]
    <3>1. Lined(K) /\ key \in [S -> K]
      BY <1>5, TuplesLined
    <3> HIDE DEF K
    <3>2. QED
      BY <1>1, <2>2, <3>1, Leader
  <2>4. QED
    BY <1>7, <2>3 DEF Leads
<1>10. ASSUME NEW i \in Eligible(list), i # k
       PROVE  /\ k \in Eligible(list)
              /\ list[k].ttfa <= list[i].ttfa
              /\ list[k].ttfa = list[i].ttfa => list[k].e2e <= list[i].e2e
  <2>1. i \in S /\ Precedes(key[k], key[i])
    BY <1>7, <1>8, <1>9, <1>10
  <2>2. key[k] \in [1..5 -> Value] /\ key[i] \in [1..5 -> Value]
    BY <1>4, <2>1
  <2>3. /\ ~Less(key[i][1], key[k][1])
        /\ key[k][1] = key[i][1] /\ key[k][2] = key[i][2] => ~Less(key[i][3], key[k][3])
        /\ key[k][1] = key[i][1] /\ key[k][2] = key[i][2] /\ key[k][3] = key[i][3] => ~Less(key[i][4], key[k][4])
    <3>1. PICK x, y : x = key[k] /\ y = key[i]
      OBVIOUS
    <3>2. x \in [1..5 -> Value] /\ y \in [1..5 -> Value] /\ Precedes(x, y)
      BY <2>1, <2>2, <3>1
    <3>3. 5 \in Nat /\ 5 >= 4
      OBVIOUS
    <3>4. /\ ~Less(y[1], x[1])
          /\ x[1] = y[1] /\ x[2] = y[2] => ~Less(y[3], x[3])
          /\ x[1] = y[1] /\ x[2] = y[2] /\ x[3] = y[3] => ~Less(y[4], x[4])
      BY <3>2, <3>3, NotBehindFour, Zenon
    <3>5. QED
      BY <3>1, <3>4, Zenon
  <2>4. \A x, y \in Nat : ~Less(x, y) => y <= x
    BY WorkloadAssumption DEF Less
  <2>5. key[i][1] = 0 /\ key[k][1] = 0 /\ k \in Eligible(list)
    <3>1. key[i][1] = 0 /\ key[k][1] \in Nat
      BY <1>2, <1>4, <1>10, <2>1
    <3>2. key[k][1] = 0
      BY <2>3, <2>4, <3>1
    <3>3. QED
      BY <1>2, <1>4, <3>1, <3>2
  <2>6. key[k][2] = key[i][2]
    BY <1>3, <1>4, <1>10, <2>1, <2>5
  <2>7. /\ ~Less(list[i].ttfa, list[k].ttfa)
        /\ list[k].ttfa = list[i].ttfa => ~Less(list[i].e2e, list[k].e2e)
    BY <1>4, <2>1, <2>3, <2>5, <2>6
  <2>8. /\ list[i].ttfa \in Nat /\ list[i].e2e \in Nat /\ list[k].ttfa \in Nat /\ list[k].e2e \in Nat
    BY <1>3, <1>10, <2>1, <2>5
  <2>9. QED
    BY <2>4, <2>5, <2>7, <2>8
<1>11. k \in Eligible(list) => list[k].ttfa \in Nat /\ list[k].e2e \in Nat
  BY <1>3
<1>12. QED
  BY <1>8, <1>9, <1>10, <1>11

LEMMA RowOfPrint ==
  ASSUME NEW list, NEW want, ListStands(list, want), NEW k \in DOMAIN list
  PROVE  (CHOOSE i \in DOMAIN list : list[i].print = list[k].print) = k
  BY DEF ListStands

FitRows(list, want) == {k \in DOMAIN list : Fit(list[k].runs, want)}

\* Of two that are fit, the one that is not slower is as fast.
LEMMA FitAsFast ==
  ASSUME NEW list, NEW want, ListStands(list, want), NEW i \in FitRows(list, want), NEW k \in FitRows(list, want)
  PROVE  /\ list[k].ttfa <= list[i].ttfa => AsFast(list[k].runs, list[i].runs, "ttfa")
         /\ list[k].e2e <= list[i].e2e => AsFast(list[k].runs, list[i].runs, "e2e")
         /\ list[k].ttfa \in Nat /\ list[i].ttfa \in Nat
<1>1. RowStands(list[i], want) /\ RowStands(list[k], want)
      /\ Fit(list[i].runs, want) /\ Fit(list[k].runs, want)
  BY DEF ListStands, FitRows
<1>2. list[i].blocking = {} /\ list[k].blocking = {}
  BY <1>1 DEF RowStands
<1>3. /\ Measured(list[i].runs) /\ Measured(list[k].runs) /\ list[k].ttfa \in Nat /\ list[i].ttfa \in Nat
      /\ DOMAIN Metric(list[i].runs, "ttfa") # {} /\ DOMAIN Metric(list[k].runs, "ttfa") # {}
      /\ DOMAIN Metric(list[i].runs, "e2e") # {} /\ DOMAIN Metric(list[k].runs, "e2e") # {}
      /\ list[i].ttfa = P95(Metric(list[i].runs, "ttfa")) /\ list[k].ttfa = P95(Metric(list[k].runs, "ttfa"))
      /\ list[i].e2e = P95(Metric(list[i].runs, "e2e")) /\ list[k].e2e = P95(Metric(list[k].runs, "e2e"))
  BY <1>1, <1>2 DEF RowStands
<1>4. QED
  BY <1>3, LowerIsAsFast

\* Whatever was measured, the report is borne out by it.
LEMMA ReportHolds ==
  ASSUME NEW list, NEW want, ListStands(list, want), NEW repetitions, NEW report,
         report = Report(list, repetitions)
  PROVE  /\ report.verdict \in {"INSUFFICIENT_EVIDENCE", "RECOMMENDED", "NO_DEPLOYMENT_MEETS_REQUIREMENTS"}
         /\ report.verdict = "NO_DEPLOYMENT_MEETS_REQUIREMENTS" => FitRows(list, want) = {}
         /\ \E k \in DOMAIN list :
               /\ report.closest = list[k].print
               /\ report.verdict # "RECOMMENDED" => report.recommended = None
               /\ report.verdict = "RECOMMENDED" =>
                     /\ repetitions = Complete /\ k \in FitRows(list, want)
                     /\ \E r \in FitRows(list, want) :
                          /\ report.recommended = list[r].print
                          /\ \A i \in FitRows(list, want) : AsFast(list[r].runs, list[i].runs, "ttfa")
                          /\ AsFast(list[k].runs, list[r].runs, "ttfa")
                          /\ AsFast(list[k].runs, list[r].runs, "e2e")
<1>1. Eligible(list) = FitRows(list, want)
  BY EligibleIsFit DEF FitRows
<1>2. /\ report.verdict = Verdict(list, repetitions)
      /\ report.closest = list[Max(Closest(list))].print
      /\ report.verdict = "RECOMMENDED" => report.recommended = list[Max(Ranked(list))].print
      /\ report.verdict # "RECOMMENDED" => report.recommended = None
  BY DEF Report
<1>3. /\ report.verdict \in {"INSUFFICIENT_EVIDENCE", "RECOMMENDED", "NO_DEPLOYMENT_MEETS_REQUIREMENTS"}
      /\ report.verdict = "RECOMMENDED" => repetitions = Complete /\ Eligible(list) # {}
      /\ report.verdict = "NO_DEPLOYMENT_MEETS_REQUIREMENTS" => Eligible(list) = {}
  BY <1>2 DEF Verdict
<1>4. PICK k \in DOMAIN list :
        /\ Closest(list) = {k}
        /\ Eligible(list) # {} => k \in Eligible(list)
        /\ \A i \in Eligible(list) : /\ list[k].ttfa <= list[i].ttfa
                                     /\ list[k].ttfa = list[i].ttfa => list[k].e2e <= list[i].e2e
  BY FirstClosest
<1>5. \A i \in DOMAIN list : Max({i}) = i
  BY OneGreatest DEF ListStands
<1>6. report.closest = list[k].print
  BY <1>2, <1>4, <1>5
<1>7. ASSUME report.verdict = "RECOMMENDED"
      PROVE  /\ k \in FitRows(list, want)
             /\ \E r \in FitRows(list, want) :
                  /\ report.recommended = list[r].print
                  /\ \A i \in FitRows(list, want) : AsFast(list[r].runs, list[i].runs, "ttfa")
                  /\ AsFast(list[k].runs, list[r].runs, "ttfa")
                  /\ AsFast(list[k].runs, list[r].runs, "e2e")
  <2>1. Eligible(list) # {} /\ k \in FitRows(list, want)
    BY <1>1, <1>3, <1>4, <1>7
  <2>2. PICK r \in Eligible(list) :
          /\ Ranked(list) = {r}
          /\ \A i \in Eligible(list) : /\ list[r].ttfa <= list[i].ttfa
                                       /\ list[r].ttfa = list[i].ttfa => list[r].e2e <= list[i].e2e
    BY <2>1, FirstRanked
  <2>3. r \in FitRows(list, want) /\ r \in DOMAIN list
    BY <1>1, <2>2 DEF FitRows
  <2>4. report.recommended = list[r].print
    BY <1>2, <1>5, <1>7, <2>2, <2>3
  <2>5. \A i \in FitRows(list, want) : AsFast(list[r].runs, list[i].runs, "ttfa")
    BY <1>1, <2>2, <2>3, FitAsFast
  <2>6. list[k].ttfa <= list[r].ttfa /\ list[r].ttfa <= list[k].ttfa
    BY <1>1, <1>4, <2>1, <2>2
  <2>7. list[k].ttfa = list[r].ttfa
    BY <2>1, <2>3, <2>6, FitAsFast
  <2>8. list[k].e2e <= list[r].e2e
    BY <1>4, <2>2, <2>7
  <2>9. QED
    BY <2>1, <2>3, <2>4, <2>5, <2>6, <2>8, FitAsFast
<1>8. QED
  BY <1>1, <1>2, <1>3, <1>6, <1>7

USE DEF thread, meter, Go, Reply, Refuse, Drop, Fault

-----------------------------------------------------------------------------
(* How far a request has come, and what is there by then. *)

Busy(c) == at[c] \in {"candidate", "observe", "baseline", "work", "join", "read"}
Measuring(c) == Busy(c) /\ at[c] # "candidate"

Wanted(request) ==
    /\ ComparisonOk(request)
    /\ \A i \in DOMAIN request.candidates :
          /\ request.candidates[i] # None
          /\ \A j \in 1..(i - 1) : request.candidates[j] # request.candidates[i]

Stage(c) ==
    /\ at[c] # "idle" => ask[c] \in Requests[c]
    /\ at[c] # "done" => answer[c] = None
    /\ at[c] = "discover" => Compares(c) /\ ComparisonOk(ask[c])
    /\ at[c] = "candidate" => Compares(c)
    /\ Busy(c) => \/ Compares(c) /\ Wanted(ask[c])
                  \/ ask[c].kind = "benchmark"

\* The pool of a benchmark, and the end of it.
Pool(c) ==
    /\ at[c] \in {"work", "join"} => open[c] \in 0..ask[c].concurrency
    /\ at[c] = "work" => open[c] + Len(runs[c]) <= Total(c)
    /\ at[c] \in {"join", "read"} => Len(runs[c]) = Total(c)

RowKept(request, k, row) ==
    /\ \A o \in Objective : Contracts[request.contract].objectives[o] # None
    /\ row.observed \in Fingerprint \cup {None} /\ row.runs \in Seq(Run)
    /\ Len(row.runs) = request.repetitions * request.concurrency
    /\ row = CandidateRow(request.candidates[k], row.observed, row.runs, Contracts[request.contract].objectives)

RowsKept(c) ==
    /\ at[c] \in {"idle", "accepted", "discover"} => rows[c] = <<>>
    /\ rows[c] # <<>> => Compares(c) /\ Wanted(ask[c]) /\ Len(rows[c]) <= Len(ask[c].candidates)
    /\ \A k \in DOMAIN rows[c] : RowKept(ask[c], k, rows[c][k])
    /\ Measuring(c) /\ Compares(c) => Len(rows[c]) < Len(ask[c].candidates)

AnswerKept(c) ==
    \/ answer[c] \in {None, Plain("REFUSED"), Plain("DROPPED")}
    \/ /\ Compares(c) /\ Wanted(ask[c]) /\ Len(rows[c]) = Len(ask[c].candidates)
       /\ answer[c] = Report(rows[c], ask[c].repetitions)
    \/ ask[c].kind = "benchmark" /\ answer[c] = Plain("MEASURED")
    \/ ask[c].kind = "capacity" /\ answer[c] = CapacityAnswer[ask[c].intake]
    \/ ask[c].kind = "plan" /\ answer[c] = WorkloadAnswer[ask[c].contract]

Kept(c) == Stage(c) /\ Pool(c) /\ RowsKept(c) /\ AnswerKept(c)

Typed ==
    /\ DOMAIN ask = Client /\ \A c \in Client : ask[c] \in Requests[c] \cup {None}
    /\ at \in [Client -> At]
    /\ known \in [Client -> Inventories \cup {<<>>}]
    /\ observed \in [Client -> Fingerprint \cup {None}]
    /\ DOMAIN open = Client
    /\ runs \in [Client -> Seq(Run)]
    /\ rows \in [Client -> Seq(Row)]
    /\ DOMAIN answer = Client
    /\ inventory \in Inventories
    /\ faults \in 0..MaxFaults

LiveInv == Typed /\ \A c \in Client : Kept(c)

LEMMA RequestIs ==
  ASSUME NEW c \in Client, NEW request \in Requests[c]
  PROVE  /\ request.kind \in {"comparison", "benchmark", "plan", "capacity"}
         /\ request.kind = "comparison" => request \in Comparison
         /\ request.kind = "benchmark" => request \in Benchmark
         /\ request.kind = "plan" => request.contract \in DOMAIN Contracts
         /\ request.kind = "capacity" => request.intake \in DOMAIN Intakes
<1>1. request \in Comparison \cup Benchmark \cup Plan
  BY LiveAssumption
<1>2. request \in Comparison => request.kind = "comparison"
  BY DEF Comparison
<1>3. request \in Benchmark => request.kind = "benchmark"
  BY DEF Benchmark
<1>4. request \in Plan => \/ request.kind = "plan" /\ request.contract \in DOMAIN Contracts
                          \/ request.kind = "capacity" /\ request.intake \in DOMAIN Intakes
  BY DEF Plan
<1>5. QED
  BY <1>1, <1>2, <1>3, <1>4

LEMMA ComparisonIs ==
  ASSUME NEW request \in Comparison
  PROVE  /\ request.contract \in DOMAIN Contracts /\ request.repetitions \in Nat /\ request.concurrency \in Nat
         /\ request.candidates \in Seq(Fingerprint \cup {None})
         /\ Len(request.candidates) \in Nat /\ DOMAIN request.candidates = 1..Len(request.candidates)
         /\ \A k \in DOMAIN request.candidates : request.candidates[k] \in Fingerprint \cup {None}
<1>1. request.candidates \in Seq(Fingerprint \cup {None})
  BY DEF Comparison
<1>2. QED
  BY <1>1 DEF Comparison

LEMMA FoundIs ==
  ASSUME NEW offer \in Inventories, NEW place
  PROVE  Found(offer, place) \in Fingerprint \cup {None}
<1>1. offer \in Seq(Entry)
  BY LiveAssumption
<1>2. Placed(offer, place) \in SUBSET DOMAIN offer /\ DOMAIN offer \in SUBSET Nat
  BY <1>1 DEF Placed
<1>3. CASE Placed(offer, place) = {}
  BY <1>3 DEF Found
<1>4. CASE Placed(offer, place) # {}
  <2>1. Min(Placed(offer, place)) \in DOMAIN offer
    BY <1>2, <1>4, MinIs
  <2>2. offer[Min(Placed(offer, place))] \in Entry
    BY <1>1, <2>1
  <2>3. QED
    BY <1>4, <2>2 DEF Found, Entry
<1>5. QED
  BY <1>3, <1>4

LEMMA WantIs ==
  ASSUME NEW request \in Comparison, \A o \in Objective : Contracts[request.contract].objectives[o] # None
  PROVE  Contracts[request.contract].objectives \in [Objective -> Int]
<1>1. Contracts[request.contract] \in Contract
  BY ComparisonIs, LiveAssumption
<1>2. Contracts[request.contract].objectives \in [Objective -> Int \cup {None}]
  BY <1>1 DEF Contract
<1>3. QED
  BY <1>2

\* The runs of a comparison are more than none.
LEMMA RunsThere ==
  ASSUME NEW request \in Comparison, Wanted(request)
  PROVE  request.repetitions * request.concurrency \in Nat \ {0}
<1>1. request.repetitions \in Nat \ {0} /\ request.concurrency \in Nat \ {0}
  <2>1. request.repetitions \in Protocols /\ request.concurrency \in 1..8
    BY DEF Wanted, ComparisonOk
  <2>2. Protocols \subseteq Nat \ {0}
    BY LiveAssumption
  <2>3. \A n \in 1..8 : n \in Nat \ {0}
    OBVIOUS
  <2>4. QED
    BY <2>1, <2>2, <2>3
<1>2. \A m, n \in Nat \ {0} : m * n \in Nat \ {0}
  BY Z3
<1>3. QED
  BY <1>1, <1>2

LEMMA RowIsRow ==
  ASSUME NEW print \in Fingerprint, NEW found \in Fingerprint \cup {None}, NEW measured \in Seq(Run),
         NEW want \in [Objective -> Int], Len(measured) >= 1
  PROVE  CandidateRow(print, found, measured, want) \in Row
<1>1. Measured(measured) /\ print \in Nat
  BY LiveAssumption DEF Measured
<1>2. RowStands(CandidateRow(print, found, measured, want), want)
  BY <1>1, RowFollows
<1>3. QED
  BY <1>2 DEF RowStands, CandidateRow, Row, Requirement, Objective

LEMMA LiveInit == Init => LiveInv
<1> SUFFICES ASSUME Init PROVE LiveInv
  OBVIOUS
<1>1. Typed
  BY LiveAssumption DEF Init, Typed, At
<1>2. ASSUME NEW c \in Client PROVE Kept(c)
  BY DEF Init, Kept, Stage, Pool, RowsKept, AnswerKept, Busy, Measuring
<1>3. QED
  BY <1>1, <1>2 DEF LiveInv

Same(c) ==
    /\ ask'[c] = ask[c] /\ at'[c] = at[c] /\ open'[c] = open[c]
    /\ runs'[c] = runs[c] /\ rows'[c] = rows[c] /\ answer'[c] = answer[c]

LEMMA KeptSame ==
  ASSUME NEW c \in Client, Kept(c), Same(c)
  PROVE  Kept(c)'
<1>1. Stage(c)' /\ Pool(c)'
  BY DEF Kept, Same, Stage, Pool, Busy, Compares, Total
<1>2. RowsKept(c)'
  BY DEF Kept, Same, RowsKept, Busy, Measuring, Compares
<1>3. AnswerKept(c)'
  BY DEF Kept, Same, AnswerKept, Compares
<1>4. QED
  BY <1>1, <1>2, <1>3 DEF Kept

LEMMA OneClient ==
  ASSUME LiveInv, NEW c \in Client, Typed', Kept(c)', \A d \in Client \ {c} : Same(d)
  PROVE  LiveInv'
<1>1. ASSUME NEW d \in Client, d # c PROVE Kept(d)'
  BY <1>1, KeptSame DEF LiveInv
<1>2. QED
  BY <1>1 DEF LiveInv

\* A step that only says where the thread is next.
LEMMA OnlyGoes ==
  ASSUME LiveInv, NEW c \in Client, NEW there \in At, Go(c, there),
         UNCHANGED <<ask, open, runs, rows, answer, inventory>>,
         known' \in [Client -> Inventories \cup {<<>>}],
         observed' \in [Client -> Fingerprint \cup {None}], faults' \in 0..MaxFaults,
         Kept(c)'
  PROVE  LiveInv'
<1>1. Typed'
  BY DEF LiveInv, Typed
<1>2. \A d \in Client \ {c} : Same(d)
  BY DEF Same, LiveInv, Typed
<1>3. QED
  BY <1>1, <1>2, OneClient

LEMMA Here ==
  ASSUME LiveInv, NEW c \in Client
  PROVE  /\ Kept(c) /\ at[c] \in At /\ runs[c] \in Seq(Run) /\ rows[c] \in Seq(Row)
         /\ observed[c] \in Fingerprint \cup {None} /\ ask[c] \in Requests[c] \cup {None}
         /\ Len(runs[c]) \in Nat /\ Len(rows[c]) \in Nat /\ DOMAIN rows[c] = 1..Len(rows[c])
<1>1. /\ Kept(c) /\ at[c] \in At /\ runs[c] \in Seq(Run) /\ rows[c] \in Seq(Row)
      /\ observed[c] \in Fingerprint \cup {None} /\ ask[c] \in Requests[c] \cup {None}
  BY DEF LiveInv, Typed
<1>2. QED
  BY <1>1

LEMMA AskStep ==
  ASSUME LiveInv, NEW c \in Client, Ask(c)
  PROVE  LiveInv'
<1>1. PICK request \in Requests[c] : ask' = [ask EXCEPT ![c] = request]
  BY DEF Ask
<1>2. /\ at[c] = "idle" /\ at' = [at EXCEPT ![c] = "accepted"]
      /\ UNCHANGED <<known, observed, open, runs, rows, answer, inventory, faults>>
  BY DEF Ask
<1>3. Typed'
  BY <1>1, <1>2 DEF LiveInv, Typed, At
<1>4. ask'[c] = request /\ at'[c] = "accepted" /\ rows'[c] = <<>> /\ answer'[c] = None
  BY <1>1, <1>2 DEF LiveInv, Typed, Kept, Stage, RowsKept
<1>5. Kept(c)'
  BY <1>4 DEF Kept, Stage, Pool, RowsKept, AnswerKept, Busy, Measuring
<1>6. \A d \in Client \ {c} : Same(d)
  BY <1>1, <1>2 DEF Same, LiveInv, Typed
<1>7. QED
  BY <1>3, <1>5, <1>6, OneClient

\* A step that answers the client.
LEMMA Answers ==
  ASSUME LiveInv, NEW c \in Client, at[c] # "idle", NEW what, Reply(c, what),
         UNCHANGED <<ask, observed, open, runs, rows, inventory, faults>>,
         known' \in [Client -> Inventories \cup {<<>>}],
         \/ what \in {Plain("REFUSED"), Plain("DROPPED")}
         \/ /\ Compares(c) /\ Wanted(ask[c]) /\ Len(rows[c]) = Len(ask[c].candidates)
            /\ what = Report(rows[c], ask[c].repetitions)
         \/ ask[c].kind = "benchmark" /\ what = Plain("MEASURED")
         \/ ask[c].kind = "capacity" /\ what = CapacityAnswer[ask[c].intake]
         \/ ask[c].kind = "plan" /\ what = WorkloadAnswer[ask[c].contract]
  PROVE  LiveInv'
<1>1. Typed'
  BY DEF LiveInv, Typed, At
<1>2. at'[c] = "done" /\ answer'[c] = what
  BY DEF LiveInv, Typed
<1>3. Kept(c)
  BY Here
<1>4. Stage(c)' /\ Pool(c)' /\ RowsKept(c)'
  BY <1>2, <1>3 DEF Kept, Stage, Pool, RowsKept, Busy, Measuring, Compares
<1>5. AnswerKept(c)'
  BY <1>2 DEF AnswerKept, Compares
<1>6. Kept(c)'
  BY <1>4, <1>5 DEF Kept
<1>7. \A d \in Client \ {c} : Same(d)
  BY DEF Same, LiveInv, Typed
<1>8. QED
  BY <1>1, <1>6, <1>7, OneClient

LEMMA TypesStay ==
  ASSUME LiveInv
  PROVE  /\ known \in [Client -> Inventories \cup {<<>>}]
         /\ observed \in [Client -> Fingerprint \cup {None}] /\ faults \in 0..MaxFaults
         /\ inventory \in Inventories
  BY DEF LiveInv, Typed

LEMMA AcceptComparisonStep ==
  ASSUME LiveInv, NEW c \in Client, AcceptComparison(c)
  PROVE  LiveInv'
<1>1. /\ at[c] = "accepted" /\ Compares(c)
      /\ UNCHANGED <<ask, known, observed, open, runs, rows, inventory, faults>>
  BY DEF AcceptComparison
<1>2. CASE ~Contracts[ask[c].contract].null /\ ComparisonOk(ask[c])
  <2>1. Go(c, "discover") /\ UNCHANGED answer
    BY <1>2 DEF AcceptComparison
  <2>2. at'[c] = "discover"
    BY <2>1 DEF LiveInv, Typed
  <2>3. Kept(c)
    BY Here
  <2>4. Stage(c)'
    BY <1>1, <1>2, <2>1, <2>2, <2>3 DEF Kept, Stage, Busy, Compares
  <2>5. Pool(c)' /\ RowsKept(c)'
    BY <1>1, <2>2, <2>3 DEF Kept, Pool, RowsKept, Busy, Measuring, Compares
  <2>6. AnswerKept(c)'
    BY <1>1, <2>1, <2>3 DEF Kept, AnswerKept, Stage
  <2>7. Kept(c)'
    BY <2>4, <2>5, <2>6 DEF Kept
  <2>8. "discover" \in At
    BY DEF At
  <2>9. QED
    BY <1>1, <2>1, <2>7, <2>8, TypesStay, OnlyGoes
<1>3. CASE Contracts[ask[c].contract].null \/ ~ComparisonOk(ask[c])
  <2>1. Reply(c, Plain("REFUSED")) \/ Reply(c, Plain("DROPPED"))
    BY <1>3 DEF AcceptComparison
  <2>2. QED
    BY <1>1, <2>1, TypesStay, Answers
<1>4. QED
  BY <1>2, <1>3

LEMMA DiscoverStep ==
  ASSUME LiveInv, NEW c \in Client, Discover(c)
  PROVE  LiveInv'
<1>1. /\ at[c] = "discover" /\ known' = [known EXCEPT ![c] = inventory]
      /\ UNCHANGED <<ask, observed, open, runs, rows, inventory, faults>>
  BY DEF Discover
<1>2. known' \in [Client -> Inventories \cup {<<>>}]
  BY <1>1 DEF LiveInv, Typed
<1>3. Kept(c)
  BY Here
<1>4. CASE \A i \in DOMAIN ask[c].candidates :
             /\ ask[c].candidates[i] # None
             /\ \A j \in 1..(i - 1) : ask[c].candidates[j] # ask[c].candidates[i]
  <2>1. Go(c, "candidate") /\ UNCHANGED answer
    BY <1>4 DEF Discover
  <2>2. at'[c] = "candidate"
    BY <2>1 DEF LiveInv, Typed
  <2>3. Compares(c) /\ Wanted(ask[c]) /\ rows[c] = <<>> /\ answer[c] = None /\ ask[c] \in Requests[c]
    BY <1>1, <1>3, <1>4 DEF Kept, Stage, RowsKept, Wanted
  <2>4. Stage(c)'
    BY <1>1, <2>1, <2>2, <2>3 DEF Stage, Busy, Compares
  <2>5. Pool(c)' /\ RowsKept(c)' /\ AnswerKept(c)'
    BY <1>1, <2>1, <2>2, <2>3 DEF Pool, RowsKept, AnswerKept, Busy, Measuring, Compares
  <2>6. Kept(c)' /\ "candidate" \in At
    BY <2>4, <2>5 DEF Kept, At
  <2>7. QED
    BY <1>1, <1>2, <2>1, <2>6, TypesStay, OnlyGoes
<1>5. CASE ~\A i \in DOMAIN ask[c].candidates :
             /\ ask[c].candidates[i] # None
             /\ \A j \in 1..(i - 1) : ask[c].candidates[j] # ask[c].candidates[i]
  <2>1. Reply(c, Plain("REFUSED"))
    BY <1>5 DEF Discover
  <2>2. QED
    BY <1>1, <1>2, <2>1, Answers
<1>6. QED
  BY <1>4, <1>5

LEMMA NextCandidateStep ==
  ASSUME LiveInv, NEW c \in Client, NextCandidate(c)
  PROVE  LiveInv'
<1>1. /\ at[c] = "candidate" /\ Len(rows[c]) < Len(ask[c].candidates)
      /\ UNCHANGED <<ask, known, observed, open, runs, rows, inventory, faults>>
  BY DEF NextCandidate
<1>2. Kept(c)
  BY Here
<1>3. CASE Named(known[c], Selected(c)) # {}
  <2>1. Go(c, "observe") /\ UNCHANGED answer
    BY <1>3 DEF NextCandidate
  <2>2. at'[c] = "observe"
    BY <2>1 DEF LiveInv, Typed
  <2>3. Stage(c)' /\ Pool(c)' /\ RowsKept(c)' /\ AnswerKept(c)'
    BY <1>1, <1>2, <2>1, <2>2 DEF Kept, Stage, Pool, RowsKept, AnswerKept, Busy, Measuring, Compares
  <2>4. Kept(c)' /\ "observe" \in At
    BY <2>3 DEF Kept, At
  <2>5. QED
    BY <1>1, <2>1, <2>4, TypesStay, OnlyGoes
<1>4. CASE Named(known[c], Selected(c)) = {}
  <2>1. Reply(c, Plain("REFUSED"))
    BY <1>4 DEF NextCandidate
  <2>2. QED
    BY <1>1, <2>1, TypesStay, Answers
<1>5. QED
  BY <1>3, <1>4

LEMMA ConcludeStep ==
  ASSUME LiveInv, NEW c \in Client, Conclude(c)
  PROVE  LiveInv'
<1>1. /\ at[c] = "candidate" /\ Len(rows[c]) = Len(ask[c].candidates)
      /\ Reply(c, Report(rows[c], ask[c].repetitions))
      /\ UNCHANGED <<ask, known, observed, open, runs, rows, inventory, faults>>
  BY DEF Conclude
<1>2. Compares(c) /\ Wanted(ask[c])
  <2>1. Kept(c)
    BY Here
  <2>2. QED
    BY <1>1, <2>1 DEF Kept, Stage, Busy, Compares
<1>3. QED
  BY <1>1, <1>2, TypesStay, Answers

LEMMA AcceptBenchmarkStep ==
  ASSUME LiveInv, NEW c \in Client, AcceptBenchmark(c)
  PROVE  LiveInv'
<1>1. /\ at[c] = "accepted" /\ ask[c].kind = "benchmark"
      /\ UNCHANGED <<ask, known, observed, open, runs, rows, inventory, faults>>
  BY DEF AcceptBenchmark
<1>2. Kept(c)
  BY Here
<1>3. CASE Go(c, "observe") /\ UNCHANGED answer
  <2>1. at'[c] = "observe"
    BY <1>3 DEF LiveInv, Typed
  <2>2. rows[c] = <<>> /\ answer[c] = None /\ ask[c] \in Requests[c]
    BY <1>1, <1>2 DEF Kept, Stage, RowsKept
  <2>3. Stage(c)' /\ Pool(c)' /\ RowsKept(c)' /\ AnswerKept(c)'
    BY <1>1, <1>3, <2>1, <2>2 DEF Stage, Pool, RowsKept, AnswerKept, Busy, Measuring, Compares
  <2>4. Kept(c)' /\ "observe" \in At
    BY <2>3 DEF Kept, At
  <2>5. QED
    BY <1>1, <1>3, <2>4, TypesStay, OnlyGoes
<1>4. CASE Reply(c, Plain("REFUSED")) \/ Reply(c, Plain("DROPPED"))
  BY <1>1, <1>4, TypesStay, Answers
<1>5. QED
  BY <1>3, <1>4 DEF AcceptBenchmark

LEMMA ObserveStep ==
  ASSUME LiveInv, NEW c \in Client, Observe(c)
  PROVE  LiveInv'
<1>1. /\ at[c] = "observe" /\ Go(c, "baseline")
      /\ observed' = [observed EXCEPT ![c] = Found(inventory, Subject(c))]
      /\ UNCHANGED <<ask, known, open, runs, rows, answer, inventory, faults>>
  BY DEF Observe
<1>2. observed' \in [Client -> Fingerprint \cup {None}]
  <2>1. Found(inventory, Subject(c)) \in Fingerprint \cup {None}
    BY TypesStay, FoundIs
  <2>2. QED
    BY <1>1, <2>1, TypesStay
<1>3. at'[c] = "baseline" /\ Kept(c)
  BY <1>1, Here DEF LiveInv, Typed
<1>4. Stage(c)' /\ Pool(c)' /\ RowsKept(c)' /\ AnswerKept(c)'
  BY <1>1, <1>3 DEF Kept, Stage, Pool, RowsKept, AnswerKept, Busy, Measuring, Compares
<1>5. Kept(c)' /\ "baseline" \in At
  BY <1>4 DEF Kept, At
<1>6. QED
  BY <1>1, <1>2, <1>5, TypesStay, OnlyGoes

LEMMA StuckStep ==
  ASSUME LiveInv, NEW c \in Client, BaselineHangs(c)
  PROVE  LiveInv'
<1>1. /\ at[c] = "baseline" /\ Go(c, "stuck") /\ faults < MaxFaults /\ faults' = faults + 1
      /\ UNCHANGED <<ask, known, observed, open, runs, rows, answer, inventory>>
  BY DEF BaselineHangs
<1>2. faults' \in 0..MaxFaults
  BY <1>1, TypesStay, LiveAssumption
<1>3. at'[c] = "stuck" /\ Kept(c)
  BY <1>1, Here DEF LiveInv, Typed
<1>4. Stage(c)' /\ Pool(c)' /\ RowsKept(c)' /\ AnswerKept(c)'
  BY <1>1, <1>3 DEF Kept, Stage, Pool, RowsKept, AnswerKept, Busy, Measuring, Compares
<1>5. Kept(c)' /\ "stuck" \in At
  BY <1>4 DEF Kept, At
<1>6. QED
  BY <1>1, <1>2, <1>5, TypesStay, OnlyGoes

LEMMA TotalIs ==
  ASSUME LiveInv, NEW c \in Client, at[c] \in {"baseline", "work", "join", "read"}
  PROVE  /\ ask[c].kind \in {"comparison", "benchmark"} /\ ask[c].contract \in DOMAIN Contracts
         /\ ask[c].concurrency \in Nat /\ Total(c) \in Nat
<1>1. ask[c] \in Requests[c] /\ ask[c].kind \in {"comparison", "benchmark"}
  BY Here DEF Kept, Stage, Busy, Compares
<1>2. ask[c] \in Comparison \/ ask[c] \in Benchmark
  BY <1>1, RequestIs
<1>3. ask[c].repetitions \in Nat /\ ask[c].concurrency \in Nat /\ ask[c].contract \in DOMAIN Contracts
  BY <1>2 DEF Comparison, Benchmark
<1>4. \A m, n \in Nat : m * n \in Nat
  BY Z3
<1>5. QED
  BY <1>1, <1>3, <1>4 DEF Total

\* A step of the pool.
LEMMA PoolStep ==
  ASSUME LiveInv, NEW c \in Client, NEW there \in {"work", "join"}, NEW out \in Nat, NEW back \in Seq(Run),
         at' = [at EXCEPT ![c] = there],
         DOMAIN open' = Client, open'[c] = out, \A d \in Client \ {c} : open'[d] = open[d],
         runs' = [runs EXCEPT ![c] = back],
         at[c] \in {"baseline", "work"}, out <= ask[c].concurrency,
         there = "work" => out + Len(back) <= Total(c), there = "join" => Len(back) = Total(c),
         UNCHANGED <<ask, known, observed, rows, answer, inventory>>, faults' \in 0..MaxFaults
  PROVE  LiveInv'
<1>1. Typed'
  BY DEF LiveInv, Typed, At
<1>2. at'[c] = there /\ open'[c] = out /\ runs'[c] = back /\ Kept(c)
  BY Here DEF LiveInv, Typed
<1>3. Stage(c)' /\ RowsKept(c)' /\ AnswerKept(c)'
  BY <1>2 DEF Kept, Stage, RowsKept, AnswerKept, Busy, Measuring, Compares
<1>4. Pool(c)'
  <2>1. out \in 0..ask[c].concurrency
    BY TotalIs
  <2>2. Total(c)' = Total(c)
    BY DEF Total
  <2>3. QED
    BY <1>2, <2>1, <2>2 DEF Pool
<1>5. Kept(c)'
  BY <1>3, <1>4 DEF Kept
<1>6. \A d \in Client \ {c} : Same(d)
  BY DEF Same, LiveInv, Typed
<1>7. QED
  BY <1>1, <1>5, <1>6, OneClient

LEMMA BaselineStep ==
  ASSUME LiveInv, NEW c \in Client, Baseline(c)
  PROVE  LiveInv'
<1>1. /\ at[c] = "baseline" /\ at' = [at EXCEPT ![c] = "work"]
      /\ open' = [open EXCEPT ![c] = 0] /\ runs' = [runs EXCEPT ![c] = <<>>]
      /\ UNCHANGED <<ask, known, observed, rows, answer, inventory, faults>>
  BY DEF Baseline
<1>2. 0 \in Nat /\ <<>> \in Seq(Run) /\ Len(<<>>) = 0
  OBVIOUS
<1>3. 0 <= ask[c].concurrency /\ 0 + 0 <= Total(c)
  BY <1>1, TotalIs
<1>4. faults' \in 0..MaxFaults
  BY <1>1, TypesStay
<1>5. DOMAIN open' = Client /\ open'[c] = 0 /\ \A d \in Client \ {c} : open'[d] = open[d]
  BY <1>1 DEF LiveInv, Typed
<1>6. QED
  BY <1>1, <1>2, <1>3, <1>4, <1>5, PoolStep

LEMMA Working ==
  ASSUME LiveInv, NEW c \in Client, at[c] = "work"
  PROVE  /\ open[c] \in Nat /\ open[c] <= ask[c].concurrency /\ open[c] + Len(runs[c]) <= Total(c)
         /\ ask[c].concurrency \in Nat /\ Total(c) \in Nat /\ Len(runs[c]) \in Nat /\ runs[c] \in Seq(Run)
<1>1. /\ open[c] \in 0..ask[c].concurrency /\ open[c] + Len(runs[c]) <= Total(c)
      /\ Len(runs[c]) \in Nat /\ runs[c] \in Seq(Run)
  BY Here DEF Kept, Pool
<1>2. ask[c].concurrency \in Nat /\ Total(c) \in Nat
  BY TotalIs
<1>3. QED
  BY <1>1, <1>2

LEMMA SendStep ==
  ASSUME LiveInv, NEW c \in Client, Send(c)
  PROVE  LiveInv'
<1>1. /\ at[c] = "work" /\ open[c] < ask[c].concurrency /\ open[c] + Len(runs[c]) < Total(c)
      /\ open' = [open EXCEPT ![c] = open[c] + 1]
      /\ UNCHANGED <<ask, at, known, observed, runs, rows, answer, inventory, faults>>
  BY DEF Send, PoolFree
<1>2. at' = [at EXCEPT ![c] = "work"] /\ runs' = [runs EXCEPT ![c] = runs[c]]
  BY <1>1 DEF LiveInv, Typed
<1>3. /\ open[c] + 1 \in Nat /\ runs[c] \in Seq(Run) /\ open[c] + 1 <= ask[c].concurrency
      /\ (open[c] + 1) + Len(runs[c]) <= Total(c)
  <2>1. \A o, l, n, t \in Nat : o < n /\ o + l < t => o + 1 \in Nat /\ o + 1 <= n /\ (o + 1) + l <= t
    OBVIOUS
  <2>2. QED
    BY <1>1, <2>1, Working
<1>4. faults' \in 0..MaxFaults
  BY <1>1, TypesStay
<1>5. DOMAIN open' = Client /\ open'[c] = open[c] + 1 /\ \A d \in Client \ {c} : open'[d] = open[d]
  BY <1>1 DEF LiveInv, Typed
<1>6. QED
  BY <1>1, <1>2, <1>3, <1>4, <1>5, PoolStep

LEMMA ReturnsStep ==
  ASSUME LiveInv, NEW c \in Client, NEW run \in Run, Returns(c, run), faults' \in 0..MaxFaults
  PROVE  LiveInv'
<1>1. /\ at[c] = "work" /\ open[c] > 0
      /\ open' = [open EXCEPT ![c] = open[c] - 1]
      /\ runs' = [runs EXCEPT ![c] = Append(runs[c], run)]
      /\ UNCHANGED <<ask, at, known, observed, rows, answer, inventory>>
  BY DEF Returns
<1>2. at' = [at EXCEPT ![c] = "work"]
  BY <1>1 DEF LiveInv, Typed
<1>3. Append(runs[c], run) \in Seq(Run) /\ Len(Append(runs[c], run)) = Len(runs[c]) + 1
  BY Here
<1>4. /\ open[c] - 1 \in Nat /\ open[c] - 1 <= ask[c].concurrency
      /\ (open[c] - 1) + (Len(runs[c]) + 1) <= Total(c)
  <2>1. \A o, l, n, t \in Nat : o > 0 /\ o <= n /\ o + l <= t =>
                                     o - 1 \in Nat /\ o - 1 <= n /\ (o - 1) + (l + 1) <= t
    OBVIOUS
  <2>2. QED
    BY <1>1, <2>1, Working
<1>5. DOMAIN open' = Client /\ open'[c] = open[c] - 1 /\ \A d \in Client \ {c} : open'[d] = open[d]
  BY <1>1 DEF LiveInv, Typed
<1>6. QED
  BY <1>1, <1>2, <1>3, <1>4, <1>5, PoolStep

LEMMA RunsAre ==
  /\ Failure \in Run /\ \A run \in Results : run \in Run
  /\ \A print \in Fingerprint : Usual[print] \in Run
<1>1. Failure \in Run
  BY DEF Failure, Run
<1>2. QED
  BY <1>1, LiveAssumption

LEMMA AnsweredStep ==
  ASSUME LiveInv, NEW c \in Client, Answered(c) \/ AnsweredOddly(c)
  PROVE  LiveInv'
<1>1. CASE Answered(c)
  <2> DEFINE run == IF Found(inventory, Subject(c)) = None THEN Failure ELSE Usual[Found(inventory, Subject(c))]
  <2>1. Found(inventory, Subject(c)) \in Fingerprint \cup {None}
    BY TypesStay, FoundIs
  <2>2. run \in Run
    BY <2>1, RunsAre
  <2>3. Returns(c, run) /\ UNCHANGED faults
    BY <1>1 DEF Answered
  <2> HIDE DEF run
  <2>4. QED
    BY <2>2, <2>3, TypesStay, ReturnsStep
<1>2. CASE AnsweredOddly(c)
  <2>1. PICK run \in Results \cup {Failure} : Returns(c, run)
    BY <1>2 DEF AnsweredOddly
  <2>2. faults' \in 0..MaxFaults
    BY <1>2, TypesStay, LiveAssumption DEF AnsweredOddly
  <2>3. QED
    BY <2>1, <2>2, RunsAre, ReturnsStep
<1>3. QED
  BY <1>1, <1>2

LEMMA WorkDoneStep ==
  ASSUME LiveInv, NEW c \in Client, WorkDone(c)
  PROVE  LiveInv'
<1>1. /\ at[c] = "work" /\ Len(runs[c]) = Total(c) /\ at' = [at EXCEPT ![c] = "join"]
      /\ UNCHANGED <<ask, known, observed, open, runs, rows, answer, inventory, faults>>
  BY DEF WorkDone
<1>2. runs' = [runs EXCEPT ![c] = runs[c]]
  BY <1>1 DEF LiveInv, Typed
<1>3. open[c] \in Nat /\ runs[c] \in Seq(Run) /\ open[c] <= ask[c].concurrency
  BY <1>1, Working
<1>4. faults' \in 0..MaxFaults
  BY <1>1, TypesStay
<1>5. DOMAIN open' = Client /\ open'[c] = open[c] /\ \A d \in Client \ {c} : open'[d] = open[d]
  BY <1>1 DEF LiveInv, Typed
<1>6. QED
  BY <1>1, <1>2, <1>3, <1>4, <1>5, PoolStep

LEMMA JoinStep ==
  ASSUME LiveInv, NEW c \in Client, Join(c)
  PROVE  LiveInv'
<1>1. /\ at[c] = "join" /\ Go(c, "read")
      /\ UNCHANGED <<ask, known, observed, open, runs, rows, answer, inventory, faults>>
  BY DEF Join
<1>2. at'[c] = "read" /\ Kept(c)
  BY <1>1, Here DEF LiveInv, Typed
<1>3. Stage(c)' /\ Pool(c)' /\ RowsKept(c)' /\ AnswerKept(c)'
  BY <1>1, <1>2 DEF Kept, Stage, Pool, RowsKept, AnswerKept, Busy, Measuring, Compares, Total
<1>4. Kept(c)' /\ "read" \in At
  BY <1>3 DEF Kept, At
<1>5. QED
  BY <1>1, <1>4, TypesStay, OnlyGoes

LEMMA Nothing ==
  ASSUME LiveInv, UNCHANGED <<ask, at, known, observed, open, runs, rows, answer>>,
         inventory' \in Inventories, faults' \in 0..MaxFaults
  PROVE  LiveInv'
<1>1. Typed'
  BY DEF LiveInv, Typed
<1>2. \A c \in Client : Same(c)
  BY DEF Same
<1>3. \A c \in Client : Kept(c)'
  BY <1>2, KeptSame DEF LiveInv
<1>4. QED
  BY <1>1, <1>3 DEF LiveInv

\* A candidate is added to those measured.
LEMMA RowAdded ==
  ASSUME LiveInv, NEW c \in Client, at[c] = "read", Compares(c),
         ~Incomplete(Contracts[ask[c].contract]),
         rows' = [rows EXCEPT ![c] = Append(rows[c], CandidateRow(Selected(c), observed[c], runs[c], Objectives(c)))],
         Go(c, "candidate"),
         UNCHANGED <<ask, known, observed, open, runs, answer, inventory, faults>>
  PROVE  LiveInv'
<1> DEFINE row == CandidateRow(Selected(c), observed[c], runs[c], Objectives(c))
           n == Len(rows[c])
<1>1. Kept(c) /\ ask[c] \in Requests[c] /\ ask[c] \in Comparison /\ Wanted(ask[c])
  BY Here, RequestIs DEF Kept, Stage, Busy, Compares
<1>2. n \in Nat /\ n < Len(ask[c].candidates) /\ Len(runs[c]) = Total(c)
  BY <1>1, Here DEF Kept, Pool, RowsKept, Measuring, Busy
<1>3. Objectives(c) \in [Objective -> Int]
  BY <1>1, WantIs DEF Objectives, Incomplete
<1>4. n + 1 \in DOMAIN ask[c].candidates /\ Selected(c) = ask[c].candidates[n + 1]
  BY <1>1, <1>2, ComparisonIs DEF Selected
<1>5. Selected(c) \in Fingerprint
  BY <1>1, <1>4, ComparisonIs DEF Wanted
<1>6. Total(c) \in Nat \ {0} /\ Total(c) = ask[c].repetitions * ask[c].concurrency
  BY <1>1, RunsThere DEF Total
<1>7. observed[c] \in Fingerprint \cup {None} /\ runs[c] \in Seq(Run)
  BY Here
<1>8. row \in Row
  <2>1. Len(runs[c]) >= 1
    BY <1>2, <1>6
  <2>2. QED
    BY <1>3, <1>5, <1>7, <2>1, RowIsRow, Zenon
<1>9. row.observed = observed[c] /\ row.runs = runs[c]
  BY DEF CandidateRow
<1>10. RowKept(ask[c], n + 1, row)
  <2>1. \A o \in Objective : Contracts[ask[c].contract].objectives[o] # None
    BY DEF Incomplete
  <2>2. (n + 1) \in Nat /\ row = CandidateRow(ask[c].candidates[n + 1], row.observed, row.runs,
                                             Contracts[ask[c].contract].objectives)
    BY <1>4, <1>2, <1>9 DEF Objectives
  <2> HIDE DEF row
  <2>3. QED
    BY <1>2, <1>6, <1>7, <1>9, <2>1, <2>2 DEF RowKept
<1>11. rows[c] \in Seq(Row)
  BY Here
<1> HIDE DEF row
<1>12. /\ Append(rows[c], row) \in Seq(Row) /\ Len(Append(rows[c], row)) = n + 1
       /\ DOMAIN Append(rows[c], row) = 1..(n + 1) /\ DOMAIN rows[c] = 1..n
       /\ \A k \in 1..n : Append(rows[c], row)[k] = rows[c][k]
       /\ Append(rows[c], row)[n + 1] = row
  BY <1>8, <1>11
<1>13. rows' = [rows EXCEPT ![c] = Append(rows[c], row)]
  BY DEF row
<1>14. Typed'
  BY <1>12, <1>13 DEF LiveInv, Typed, At
<1>15. rows'[c] = Append(rows[c], row) /\ at'[c] = "candidate"
  BY <1>13 DEF LiveInv, Typed
<1>16. Stage(c)' /\ Pool(c)'
  BY <1>1, <1>15 DEF Kept, Stage, Pool, Busy, Compares
<1>17. AnswerKept(c)'
  BY <1>1 DEF Kept, Stage, AnswerKept
<1>18. \A k \in 1..(n + 1) : RowKept(ask[c], k, Append(rows[c], row)[k])
  <2>1. \A k \in 1..n : RowKept(ask[c], k, rows[c][k])
    BY <1>1, <1>12 DEF Kept, RowsKept
  <2>2. \A k \in 1..(n + 1) : k \in 1..n \/ k = n + 1
    BY <1>2
  <2>3. QED
    BY <1>10, <1>12, <2>1, <2>2
<1>19. RowsKept(c)'
  <2>1. n + 1 <= Len(ask[c].candidates)
    BY <1>1, <1>2, ComparisonIs
  <2>2. \A k \in DOMAIN rows'[c] : RowKept(ask'[c], k, rows'[c][k])
    BY <1>12, <1>15, <1>18
  <2>3. Compares(c)' /\ Wanted(ask[c])' /\ Len(rows'[c]) <= Len(ask'[c].candidates)
    BY <1>1, <1>12, <1>15, <2>1 DEF Compares
  <2>4. QED
    BY <1>15, <2>2, <2>3 DEF RowsKept, Measuring, Busy, Compares
<1>20. Kept(c)'
  BY <1>16, <1>17, <1>19 DEF Kept
<1>21. \A d \in Client \ {c} : Same(d)
  BY <1>13 DEF Same, LiveInv, Typed
<1>22. QED
  BY <1>14, <1>20, <1>21, OneClient

LEMMA SummariseStep ==
  ASSUME LiveInv, NEW c \in Client, Summarise(c)
  PROVE  LiveInv'
<1>1. at[c] = "read" /\ UNCHANGED <<ask, known, observed, open, runs, inventory, faults>>
  BY DEF Summarise
<1>2. CASE Incomplete(Contracts[ask[c].contract])
  <2>1. Reply(c, Plain("DROPPED")) /\ UNCHANGED rows
    BY <1>2 DEF Summarise
  <2>2. QED
    BY <1>1, <2>1, TypesStay, Answers
<1>3. CASE ~Incomplete(Contracts[ask[c].contract]) /\ Compares(c)
  <2>1. /\ rows' = [rows EXCEPT ![c] = Append(rows[c], CandidateRow(Selected(c), observed[c], runs[c], Objectives(c)))]
        /\ Go(c, "candidate") /\ UNCHANGED answer
    BY <1>3 DEF Summarise
  <2>2. QED
    BY <1>1, <1>3, <2>1, RowAdded
<1>4. CASE ~Incomplete(Contracts[ask[c].contract]) /\ ~Compares(c)
  <2>1. Reply(c, Plain("MEASURED")) /\ UNCHANGED rows
    BY <1>4 DEF Summarise
  <2>2. ask[c].kind = "benchmark"
    BY <1>1, <1>4, Here DEF Kept, Stage, Busy
  <2>3. QED
    BY <1>1, <2>1, <2>2, TypesStay, Answers
<1>5. QED
  BY <1>2, <1>3, <1>4

LEMMA MakePlanStep ==
  ASSUME LiveInv, NEW c \in Client, MakePlan(c)
  PROVE  LiveInv'
<1>1. at[c] = "accepted" /\ UNCHANGED <<ask, known, observed, open, runs, rows, inventory, faults>>
  BY DEF MakePlan
<1>2. CASE ask[c].kind = "capacity" /\ Reply(c, CapacityAnswer[ask[c].intake])
  <2>1. PICK what : what = CapacityAnswer[ask[c].intake]
    OBVIOUS
  <2>2. QED
    BY <1>1, <1>2, <2>1, TypesStay, Answers
<1>3. CASE ask[c].kind = "plan" /\ Reply(c, WorkloadAnswer[ask[c].contract])
  <2>1. PICK what : what = WorkloadAnswer[ask[c].contract]
    OBVIOUS
  <2>2. QED
    BY <1>1, <1>3, <2>1, TypesStay, Answers
<1>4. QED
  BY <1>2, <1>3 DEF MakePlan

LEMMA LiveStep == LiveInv /\ [Next]_vars => LiveInv'
<1> SUFFICES ASSUME LiveInv, [Next]_vars PROVE LiveInv'
  OBVIOUS
<1>1. CASE UNCHANGED <<ask, at, known, observed, open, runs, rows, answer, inventory, faults>>
  BY <1>1, TypesStay, Nothing
<1>2. CASE Change
  <2>1. inventory' \in Inventories /\ faults' \in 0..MaxFaults
    BY <1>2, TypesStay, LiveAssumption DEF Change
  <2>2. QED
    BY <1>2, <2>1, Nothing DEF Change
<1>3. ASSUME NEW c \in Client, Main(c) PROVE LiveInv'
  <2>1. CASE AcceptComparison(c) \/ Discover(c) \/ NextCandidate(c) \/ Conclude(c)
    BY <2>1, AcceptComparisonStep, DiscoverStep, NextCandidateStep, ConcludeStep
  <2>2. CASE AcceptBenchmark(c) \/ Observe(c) \/ Baseline(c) \/ WorkDone(c)
    BY <2>2, AcceptBenchmarkStep, ObserveStep, BaselineStep, WorkDoneStep
  <2>3. CASE Join(c) \/ Summarise(c) \/ MakePlan(c)
    BY <2>3, JoinStep, SummariseStep, MakePlanStep
  <2>4. CASE ReadPower(c)
    BY <1>1, <2>4 DEF ReadPower
  <2>5. QED
    BY <1>3, <2>1, <2>2, <2>3, <2>4 DEF Main
<1>4. ASSUME NEW c \in Client, Ask(c) \/ Traffic(c) PROVE LiveInv'
  BY <1>4, AskStep, SendStep, AnsweredStep DEF Traffic
<1>5. ASSUME NEW c \in Client, Sampling(c) \/ Incident(c) PROVE LiveInv'
  <2>1. CASE AnsweredOddly(c) \/ BaselineHangs(c)
    BY <2>1, AnsweredStep, StuckStep
  <2>2. CASE Hang(c) /\ Fault /\ UNCHANGED <<thread, inventory>>
    <3>1. inventory' \in Inventories /\ faults' \in 0..MaxFaults
      BY <2>2, TypesStay, LiveAssumption
    <3>2. QED
      BY <2>2, <3>1, Nothing
  <2>3. CASE Sampling(c) \/ (Die(c) /\ UNCHANGED <<thread, inventory, faults>>)
    <3>1. UNCHANGED <<ask, at, known, observed, open, runs, rows, answer, inventory, faults>>
      BY <2>3 DEF Sampling
    <3>2. QED
      BY <3>1, TypesStay, Nothing
  <2>4. \/ Sampling(c) \/ AnsweredOddly(c) \/ BaselineHangs(c)
        \/ Hang(c) /\ Fault /\ UNCHANGED <<thread, inventory>>
        \/ Die(c) /\ UNCHANGED <<thread, inventory, faults>>
    BY <1>5, Zenon DEF Incident
  <2>5. QED
    BY <2>1, <2>2, <2>3, <2>4, Zenon
<1>6. CASE Time
  BY <1>1, <1>6 DEF Time
<1>7. QED
  BY <1>1, <1>2, <1>3, <1>4, <1>5, <1>6 DEF Next, vars

\* The rows of a comparison that came to its end can be ranked, whatever is in them.
LEMMA RowsStand ==
  ASSUME NEW c \in Client, LiveInv, Compares(c), ask[c] \in Comparison, Wanted(ask[c]),
         Len(rows[c]) = Len(ask[c].candidates)
  PROVE  ListStands(rows[c], Objectives(c))
<1> DEFINE list == rows[c]
           wanted == ask[c].candidates
           want == Objectives(c)
<1>1. /\ Len(list) \in Nat /\ DOMAIN list = 1..Len(list)
  <2>1. list \in Seq(Row)
    BY DEF LiveInv, Typed
  <2>2. QED
    BY <2>1
<1>2. /\ wanted \in Seq(Fingerprint \cup {None}) /\ DOMAIN wanted = 1..Len(wanted)
      /\ \A k \in DOMAIN wanted : wanted[k] \in Fingerprint \cup {None}
  BY ComparisonIs
<1>3. Len(wanted) \in 2..6
  BY DEF Wanted, ComparisonOk
<1>4. /\ \A i \in DOMAIN wanted : /\ wanted[i] # None
                                  /\ \A j \in 1..(i - 1) : wanted[j] # wanted[i]
  BY DEF Wanted
<1>5. \A k \in DOMAIN list : RowKept(ask[c], k, list[k])
  BY DEF LiveInv, Kept, RowsKept
<1>6. Len(list) = Len(wanted) /\ DOMAIN list = DOMAIN wanted /\ Len(list) \in Nat \ {0}
  <2>1. \A n \in 2..6 : n \in Nat \ {0}
    OBVIOUS
  <2>2. QED
    BY <1>1, <1>2, <1>3, <2>1
<1> HIDE DEF list, wanted
<1>7. ASSUME NEW k \in DOMAIN list
      PROVE  /\ list[k].print = wanted[k] /\ RowStands(list[k], want)
  <2>1. RowKept(ask[c], k, list[k])
    BY <1>5
  <2>2. want \in [Objective -> Int]
    BY <2>1, WantIs DEF RowKept, Objectives
  <2>3. list[k].runs \in Seq(Run) /\ Len(list[k].runs) = ask[c].repetitions * ask[c].concurrency
    BY <2>1 DEF RowKept
  <2>4. Len(list[k].runs) >= 1
    <3>1. ask[c].repetitions * ask[c].concurrency \in Nat \ {0}
      BY RunsThere
    <3>2. \A n \in Nat \ {0} : n >= 1
      OBVIOUS
    <3>3. QED
      BY <2>3, <3>1, <3>2
  <2>5. list[k] = CandidateRow(wanted[k], list[k].observed, list[k].runs, want)
    BY <2>1 DEF RowKept, Objectives, wanted
  <2>6. wanted[k] \in Nat
    BY <1>2, <1>4, <1>6, LiveAssumption
  <2>7. Measured(list[k].runs)
    BY <2>3 DEF Measured
  <2>8. PICK found, measured : found = list[k].observed /\ measured = list[k].runs
    OBVIOUS
  <2>9. RowStands(CandidateRow(wanted[k], found, measured, want), want)
    BY <2>2, <2>4, <2>6, <2>7, <2>8, RowFollows
  <2>10. CandidateRow(wanted[k], found, measured, want).print = wanted[k]
    BY DEF CandidateRow
  <2>11. QED
    BY <2>5, <2>8, <2>9, <2>10
<1>8. ASSUME NEW i \in DOMAIN list, NEW k \in DOMAIN list, i # k
      PROVE  list[i].print # list[k].print
  <2>1. i \in Nat /\ k \in Nat /\ i >= 1 /\ k >= 1
    BY <1>1 DEF list
  <2>2. i \in 1..(k - 1) \/ k \in 1..(i - 1)
    BY <1>8, <2>1
  <2>3. wanted[i] # wanted[k]
    BY <1>4, <1>6, <2>2
  <2>4. QED
    BY <1>7, <2>3
<1>9. QED
  BY <1>1, <1>6, <1>7, <1>8 DEF ListStands, list

\* What was answered follows from what is kept of it.
LEMMA Recommends == LiveInv => RecommendedIsFit
<1> SUFFICES ASSUME LiveInv, NEW c \in Client, answer[c] # None, Compares(c)
             PROVE  LET fit == {k \in DOMAIN rows[c] : Fit(rows[c][k].runs, Objectives(c))}
                        row(print) == CHOOSE k \in DOMAIN rows[c] : rows[c][k].print = print
                        runsOf(print) == rows[c][row(print)].runs
                    IN CASE answer[c].verdict = "RECOMMENDED" ->
                              /\ row(answer[c].recommended) \in fit
                              /\ Len(runsOf(answer[c].recommended)) = Complete * ask[c].concurrency
                              /\ \A k \in fit : AsFast(runsOf(answer[c].recommended), rows[c][k].runs, "ttfa")
                              /\ row(answer[c].closest) \in fit
                              /\ \A field \in {"ttfa", "e2e"} :
                                    AsFast(runsOf(answer[c].closest), runsOf(answer[c].recommended), field)
                         [] answer[c].verdict = "NO_DEPLOYMENT_MEETS_REQUIREMENTS" -> fit = {}
                         [] OTHER -> TRUE
  BY DEF RecommendedIsFit
<1> DEFINE list == rows[c]
           want == Objectives(c)
           fit == {k \in DOMAIN list : Fit(list[k].runs, want)}
           row(print) == CHOOSE k \in DOMAIN list : list[k].print = print
<1>1. ask[c].kind = "comparison" /\ AnswerKept(c) /\ Stage(c) /\ RowsKept(c)
  BY DEF LiveInv, Kept, Compares
<1>2. CASE answer[c] \in {Plain("REFUSED"), Plain("DROPPED")}
  BY <1>2 DEF Plain
<1>3. CASE Wanted(ask[c]) /\ Len(list) = Len(ask[c].candidates) /\ answer[c] = Report(list, ask[c].repetitions)
  <2>1. ask[c] \in Comparison
    <3>1. at[c] # "idle"
      BY <1>1 DEF Stage
    <3>2. QED
      BY <1>1, <3>1, RequestIs DEF Stage
  <2>2. ListStands(list, want)
    BY <1>3, <2>1, RowsStand
  <2>3. \A k \in DOMAIN list : Len(list[k].runs) = ask[c].repetitions * ask[c].concurrency
    BY <1>1 DEF RowsKept, RowKept
  <2>4. \A k \in DOMAIN list : row(list[k].print) = k
    BY <2>2, RowOfPrint
  <2>5. fit = FitRows(list, want)
    BY DEF FitRows
  <2> HIDE DEF list, want, fit, row
  <2>6. CASE answer[c].verdict = "NO_DEPLOYMENT_MEETS_REQUIREMENTS"
    <3>1. fit = {}
      BY <1>3, <2>2, <2>5, <2>6, ReportHolds
    <3>2. QED
      BY <2>6, <3>1 DEF fit, list, want
  <2>7. CASE answer[c].verdict = "RECOMMENDED"
    <3>1. PICK k \in DOMAIN list, r \in fit :
            /\ answer[c].closest = list[k].print /\ answer[c].recommended = list[r].print
            /\ ask[c].repetitions = Complete /\ k \in fit
            /\ \A i \in fit : AsFast(list[r].runs, list[i].runs, "ttfa")
            /\ AsFast(list[k].runs, list[r].runs, "ttfa")
            /\ AsFast(list[k].runs, list[r].runs, "e2e")
      BY <1>3, <2>2, <2>5, <2>7, ReportHolds
    <3>2. row(answer[c].closest) = k /\ row(answer[c].recommended) = r /\ r \in DOMAIN list
      BY <2>4, <3>1 DEF fit
    <3>3. Len(list[r].runs) = Complete * ask[c].concurrency
      BY <2>3, <3>1, <3>2
    <3>4. /\ row(answer[c].recommended) \in fit
          /\ Len(list[row(answer[c].recommended)].runs) = Complete * ask[c].concurrency
          /\ \A i \in fit : AsFast(list[row(answer[c].recommended)].runs, list[i].runs, "ttfa")
          /\ row(answer[c].closest) \in fit
          /\ \A field \in {"ttfa", "e2e"} :
                AsFast(list[row(answer[c].closest)].runs, list[row(answer[c].recommended)].runs, field)
      BY <3>1, <3>2, <3>3
    <3>5. QED
      BY <2>7, <3>4, Zenon DEF fit, list, want, row
  <2>8. CASE answer[c].verdict = "INSUFFICIENT_EVIDENCE"
    BY <2>8
  <2>9. QED
    <3>1. answer[c].verdict \in {"INSUFFICIENT_EVIDENCE", "RECOMMENDED", "NO_DEPLOYMENT_MEETS_REQUIREMENTS"}
      BY <1>3, <2>2, ReportHolds
    <3>2. QED
      BY <2>6, <2>7, <2>8, <3>1
<1>4. QED
  BY <1>1, <1>2, <1>3 DEF AnswerKept, Compares

\* Under every interleaving of the requests, whatever the runtimes answer and however they
\* are replaced in between, what run_live_comparison recommends is borne out by the
\* requests it sent: the candidate passed every check and kept every objective, none that
\* did was faster, and where it recommends none there was none (RecommendedIsFit).
THEOREM RecommendedIsBorneOut == Spec => []RecommendedIsFit
<1>1. Init => LiveInv
  BY LiveInit
<1>2. LiveInv /\ [Next]_vars => LiveInv'
  BY LiveStep
<1>3. LiveInv => RecommendedIsFit
  BY Recommends
<1>4. QED
  BY <1>1, <1>2, <1>3, PTL DEF Spec

-----------------------------------------------------------------------------
(* What remains of a sequence. *)

\* Numbers in order.
LEMMA NumbersInOrder ==
  ASSUME NEW S \in SUBSET Nat, NEW s, s = Ascending(S)
  PROVE  Sorts(s, S, Smaller(S))
<1>1. \A x \in S : {y \in S : y < x} = Below(S, Smaller(S), x)
  BY DEF Below, Smaller
<1>2. s = [k \in 1..Cardinality(S) |-> CHOOSE x \in S : Cardinality({y \in S : y < x}) = k - 1]
  BY DEF Ascending
<1>3. s = [k \in 1..Cardinality(S) |-> s[k]]
  BY <1>2
<1>4. ASSUME NEW k \in 1..Cardinality(S), \E x \in S : Cardinality(Below(S, Smaller(S), x)) = k - 1
      PROVE  s[k] \in S /\ Cardinality(Below(S, Smaller(S), s[k])) = k - 1
  <2>1. \E x \in S : Cardinality({y \in S : y < x}) = k - 1
    BY <1>1, <1>4
  <2>2. s[k] = CHOOSE x \in S : Cardinality({y \in S : y < x}) = k - 1
    BY <1>2
  <2>3. s[k] \in S /\ Cardinality({y \in S : y < s[k]}) = k - 1
    BY <2>1, <2>2
  <2>4. QED
    BY <1>1, <2>3
<1>5. QED
  BY <1>3, <1>4 DEF Sorts

\* A plan is what remains of the experiments.
Remains(plan, all) ==
    /\ ToSet(plan) \subseteq ToSet(all)
    /\ \A x \in ToSet(all) : \E y \in ToSet(plan) : PointKey(y) = PointKey(x)
    /\ \A i, j \in DOMAIN plan : i # j => PointKey(plan[i]) # PointKey(plan[j])
    /\ \E place \in [DOMAIN plan -> DOMAIN all] :
          /\ \A i \in DOMAIN plan : plan[i] = all[place[i]]
          /\ \A i, j \in DOMAIN plan : i # j => place[i] # place[j]

LEMMA PlanRemains ==
  ASSUME NEW T, NEW all \in Seq(T), NEW plan, plan = Distinct(all, [i \in DOMAIN all |-> PointKey(all[i])])
  PROVE  plan \in Seq(T) /\ Remains(plan, all)
<1> DEFINE n == Len(all)
           key == [i \in 1..n |-> PointKey(all[i])]
           E == Fresh(n, key)
           m == Cardinality(E)
<1>1. n \in Nat /\ DOMAIN all = 1..n /\ \A i \in 1..n : all[i] \in T
  OBVIOUS
<1>2. {i \in DOMAIN key : \A j \in 1..(i - 1) : key[j] # key[i]} = E
  BY <1>1 DEF Fresh
<1>3. PICK kept : kept = Ascending(E)
  OBVIOUS
<1>4. plan = [k \in DOMAIN kept |-> all[kept[k]]]
  <2>1. plan = Distinct(all, key)
    BY <1>1
  <2> HIDE DEF key, E
  <2>2. QED
    BY <1>2, <1>3, <2>1 DEF Distinct
<1>5. E \in SUBSET Nat
  BY <1>1 DEF Fresh
<1> HIDE DEF E
<1>6. Sorts(kept, E, Smaller(E))
  BY <1>3, <1>5, NumbersInOrder
<1> HIDE DEF key
<1>7. /\ m \in Nat /\ kept \in [1..m -> 1..n]
      /\ \A i \in 1..n : \E k \in 1..m : key[kept[k]] = key[i]
      /\ \A i, j \in 1..m : i # j => kept[i] # kept[j] /\ key[kept[i]] # key[kept[j]]
  BY <1>1, <1>6, FreshIs DEF E
<1> HIDE DEF m
<1>8. /\ DOMAIN plan = 1..m /\ DOMAIN kept = 1..m
      /\ \A k \in 1..m : plan[k] = all[kept[k]] /\ kept[k] \in 1..n
  BY <1>4, <1>7
<1>9. plan \in Seq(T)
  <2>1. plan \in [1..m -> T]
    BY <1>1, <1>4, <1>8
  <2>2. QED
    BY <1>7, <2>1
<1>10. \A i \in 1..n : key[i] = PointKey(all[i])
  BY DEF key
<1>11. ASSUME NEW x \in ToSet(plan) PROVE x \in ToSet(all)
  <2>1. PICK k \in 1..m : x = plan[k]
    BY <1>8 DEF ToSet
  <2>2. QED
    BY <1>1, <1>8, <2>1 DEF ToSet
<1>12. ASSUME NEW x \in ToSet(all) PROVE \E y \in ToSet(plan) : PointKey(y) = PointKey(x)
  <2>1. PICK i \in 1..n : x = all[i]
    BY <1>1 DEF ToSet
  <2>2. PICK k \in 1..m : key[kept[k]] = key[i]
    BY <1>7
  <2>3. plan[k] \in ToSet(plan)
    BY <1>8 DEF ToSet
  <2>4. PointKey(plan[k]) = PointKey(x)
    BY <1>8, <1>10, <2>1, <2>2
  <2>5. QED
    BY <2>3, <2>4
<1>13. ASSUME NEW i \in DOMAIN plan, NEW j \in DOMAIN plan, i # j PROVE PointKey(plan[i]) # PointKey(plan[j])
  <2>1. i \in 1..m /\ j \in 1..m
    BY <1>8
  <2>2. key[kept[i]] # key[kept[j]]
    BY <1>7, <1>13, <2>1
  <2>3. PointKey(plan[i]) = key[kept[i]] /\ PointKey(plan[j]) = key[kept[j]]
    BY <1>8, <1>10, <2>1
  <2>4. QED
    BY <2>2, <2>3
<1>14. /\ kept \in [DOMAIN plan -> DOMAIN all]
       /\ \A i \in DOMAIN plan : plan[i] = all[kept[i]]
       /\ \A i, j \in DOMAIN plan : i # j => kept[i] # kept[j]
  BY <1>1, <1>7, <1>8
<1>15. QED
  BY <1>9, <1>11, <1>12, <1>13, <1>14 DEF Remains

-----------------------------------------------------------------------------
(* What a plan consists of. *)

Trial == [id : Label \X Nat, concurrency : Nat, input : Nat \cup {Null}, output : Nat \cup {Null},
          cache : {"warm", "cold", "shared-prefix"}]

\* Trials within what the contract declares.
Mild(contract) ==
    {x \in Trial : Given(contract.input.max) /\ Given(contract.output.max) =>
        /\ x.input \in Nat /\ x.input <= contract.input.max
        /\ x.output \in Nat /\ x.output <= contract.output.max}

\* A sequence of elements of T, each with an id of its own out of A.
Labelled(s, T, A) ==
    /\ s \in Seq(T)
    /\ \A i \in DOMAIN s : s[i].id \in A
    /\ \A i, j \in DOMAIN s : i # j => s[i].id # s[j].id

Joins(u, s, t) == u = s \o t
Apart(A, B, C) == A \cap B = {} /\ A \cup B \subseteq C

LEMMA Chain ==
  ASSUME NEW T, NEW s, NEW t, NEW A, NEW B, NEW C, Labelled(s, T, A), Labelled(t, T, B),
         Apart(A, B, C), NEW u, Joins(u, s, t)
  PROVE  Labelled(u, T, C) /\ ToSet(u) = ToSet(s) \cup ToSet(t)
<1>1. s \in Seq(T) /\ t \in Seq(T) /\ A \cap B = {} /\ A \cup B \subseteq C
  BY DEF Labelled, Apart
<1> DEFINE m == Len(s)
           n == Len(t)
<1>2. /\ m \in Nat /\ n \in Nat /\ DOMAIN s = 1..m /\ DOMAIN t = 1..n
      /\ u \in Seq(T) /\ DOMAIN u = 1..(m + n)
      /\ \A i \in 1..(m + n) : u[i] = IF i <= m THEN s[i] ELSE t[i - m]
  BY <1>1 DEF Joins
<1> HIDE DEF m, n
<1>3. ASSUME NEW i \in 1..(m + n)
      PROVE  \/ i \in 1..m /\ u[i] = s[i] /\ s[i].id \in A
             \/ i - m \in 1..n /\ u[i] = t[i - m] /\ t[i - m].id \in B
  <2>1. i <= m => i \in 1..m
    BY <1>2
  <2>2. ~(i <= m) => i - m \in 1..n
    BY <1>2
  <2>3. QED
    BY <1>2, <2>1, <2>2 DEF Labelled
<1>4. \A i \in 1..m : i \in 1..(m + n) /\ u[i] = s[i]
  BY <1>2
<1>5. \A i \in 1..n : i + m \in 1..(m + n) /\ u[i + m] = t[i]
  BY <1>2
<1>6. ASSUME NEW i \in 1..(m + n), NEW j \in 1..(m + n), i # j PROVE u[i].id # u[j].id
  <2>1. CASE i \in 1..m /\ j \in 1..m
    BY <1>2, <1>4, <1>6, <2>1 DEF Labelled
  <2>2. CASE i - m \in 1..n /\ j - m \in 1..n
    <3>1. i - m # j - m
      BY <1>2, <1>6
    <3>2. u[i] = t[i - m] /\ u[j] = t[j - m]
      BY <1>2, <2>2
    <3>3. QED
      BY <1>2, <2>2, <3>1, <3>2 DEF Labelled
  <2>3. CASE i \in 1..m /\ j - m \in 1..n
    <3>1. u[i] = s[i] /\ u[j] = t[j - m]
      BY <1>2, <2>3
    <3>2. s[i].id \in A /\ t[j - m].id \in B
      BY <1>2, <2>3 DEF Labelled
    <3>3. QED
      BY <1>1, <3>1, <3>2
  <2>4. CASE i - m \in 1..n /\ j \in 1..m
    <3>1. u[j] = s[j] /\ u[i] = t[i - m]
      BY <1>2, <2>4
    <3>2. s[j].id \in A /\ t[i - m].id \in B
      BY <1>2, <2>4 DEF Labelled
    <3>3. QED
      BY <1>1, <3>1, <3>2
  <2>5. QED
    BY <1>3, <1>6, <2>1, <2>2, <2>3, <2>4
<1>7. Labelled(u, T, C)
  <2>1. \A i \in DOMAIN u : u[i].id \in C
    BY <1>1, <1>2, <1>3
  <2>2. QED
    BY <1>2, <1>6, <2>1 DEF Labelled
<1>8. ToSet(u) = ToSet(s) \cup ToSet(t)
  <2>1. ASSUME NEW x \in ToSet(u) PROVE x \in ToSet(s) \cup ToSet(t)
    <3>1. PICK i \in 1..(m + n) : x = u[i]
      BY <1>2 DEF ToSet
    <3>2. QED
      BY <1>2, <1>3, <3>1 DEF ToSet
  <2>2. ASSUME NEW x \in ToSet(s) PROVE x \in ToSet(u)
    <3>1. PICK i \in 1..m : x = s[i]
      BY <1>2 DEF ToSet
    <3>2. QED
      BY <1>2, <1>4, <3>1 DEF ToSet
  <2>3. ASSUME NEW x \in ToSet(t) PROVE x \in ToSet(u)
    <3>1. PICK i \in 1..n : x = t[i]
      BY <1>2 DEF ToSet
    <3>2. QED
      BY <1>2, <1>5, <3>1 DEF ToSet
  <2>4. QED
    BY <2>1, <2>2, <2>3
<1>9. QED
  BY <1>7, <1>8

Once(condition, p) == IF condition THEN <<p>> ELSE <<>>

Fits(condition, p, T, A) == condition \in BOOLEAN /\ (condition => p \in T /\ p.id \in A)

LEMMA OnceIs ==
  ASSUME NEW condition, NEW p, NEW T, NEW A, Fits(condition, p, T, A)
  PROVE  /\ Labelled(Once(condition, p), T, A)
         /\ \A x : x \in ToSet(Once(condition, p)) <=> condition /\ x = p
<1> USE DEF Fits
<1>1. PICK s : s = Once(condition, p)
  OBVIOUS
<1>2. CASE condition
  <2>1. s = <<p>> /\ <<p>> \in Seq(T)
    BY <1>1, <1>2 DEF Once
  <2>2. DOMAIN s = {1} /\ s[1] = p /\ s \in Seq(T)
    BY <2>1
  <2>3. Labelled(s, T, A)
    BY <1>2, <2>2 DEF Labelled
  <2>4. ToSet(s) = {p}
    BY <2>2 DEF ToSet
  <2>5. QED
    BY <1>1, <1>2, <2>3, <2>4
<1>3. CASE ~condition
  <2>1. s = <<>> /\ <<>> \in Seq(T)
    BY <1>1, <1>3 DEF Once
  <2>2. DOMAIN s = {} /\ s \in Seq(T)
    BY <2>1
  <2>3. Labelled(s, T, A)
    BY <2>2 DEF Labelled
  <2>4. ToSet(s) = {}
    BY <2>2 DEF ToSet
  <2>5. QED
    BY <1>1, <1>3, <2>3, <2>4
<1>4. QED
  BY <1>2, <1>3

\* What is known of a contract that is valid.
Firm(contract) ==
    LET in == contract.input
        out == contract.output
    IN /\ ToSet(contract.users) \in SUBSET (Nat \ {0}) /\ IsFiniteSet(ToSet(contract.users))
       /\ ToSet(contract.users) # {}
       /\ {in.p50, in.p95, out.p50, out.p95} \subseteq Nat
       /\ {in.max, out.max} \subseteq Nat \cup {None, Null}
       /\ Given(in.max) => in.max \in Nat /\ in.p50 <= in.max /\ in.p95 <= in.max
       /\ Given(out.max) => out.max \in Nat /\ out.p50 <= out.max /\ out.p95 <= out.max
       /\ contract.reuse \in BOOLEAN
       /\ Given(in.max) /\ Given(out.max) =>
            /\ contract.assistant \in Int /\ out.max <= contract.assistant
            /\ contract.context # None => contract.context \in Int /\ in.max + out.max <= contract.context

LEMMA DistributionIs ==
  ASSUME NEW d \in Distribution, Sound(d)
  PROVE  /\ {d.p50, d.p95} \subseteq Nat /\ d.max \in Nat \cup {None, Null}
         /\ Given(d.max) => d.max \in Nat /\ d.p50 <= d.max /\ d.p95 <= d.max
<1>1. d.p50 \in Int /\ d.p95 \in Int /\ d.max \in Int \cup {None, Null}
  BY DEF Distribution, Sound, Positive
<1>2. d.p50 >= 1 /\ d.p95 >= 1 /\ d.p50 <= d.p95
  BY DEF Sound, Positive
<1>3. Given(d.max) => d.max >= 1 /\ d.p95 <= d.max
  BY DEF Sound
<1>4. Given(d.max) <=> d.max \notin {None, Null}
  BY DEF Given
<1>5. QED
  BY <1>1, <1>2, <1>3, <1>4

LEMMA ToSetIs ==
  ASSUME NEW T, NEW s \in Seq(T)
  PROVE  ToSet(s) \in SUBSET T /\ IsFiniteSet(ToSet(s)) /\ (s # <<>> => ToSet(s) # {})
<1>1. Len(s) \in Nat /\ DOMAIN s = 1..Len(s) /\ s \in [1..Len(s) -> T]
  OBVIOUS
<1>2. IsFiniteSet(1..Len(s))
  BY <1>1, FS_Interval
<1>3. s \in Surjection(1..Len(s), ToSet(s))
  BY <1>1 DEF Surjection, ToSet
<1>4. IsFiniteSet(ToSet(s))
  BY <1>2, <1>3, FS_Surjection
<1>5. ToSet(s) \in SUBSET T
  BY <1>1 DEF ToSet
<1>6. s # <<>> => ToSet(s) # {}
  <2>1. s # <<>> => 1 \in 1..Len(s)
    BY <1>1
  <2>2. QED
    BY <1>1, <2>1 DEF ToSet
<1>7. QED
  BY <1>4, <1>5, <1>6

LEMMA ValidIsFirm ==
  ASSUME NEW contract \in Contract, Valid(contract)
  PROVE  Firm(contract)
<1>1. /\ contract.users \in Seq(Int)
      /\ contract.input \in Distribution \cup {None} /\ contract.output \in Distribution \cup {None}
      /\ contract.reuse \in BOOLEAN /\ contract.context \in Int \cup {None}
      /\ contract.assistant \in Int \cup {None}
  BY DEF Contract
<1>2. /\ contract.users # <<>> /\ \A i \in DOMAIN contract.users : contract.users[i] >= 1
      /\ Sound(contract.input) /\ Sound(contract.output)
  BY DEF Valid, DemandValid
<1>3. /\ contract.context # None /\ Given(contract.input.max) /\ Given(contract.output.max) =>
           contract.input.max + contract.output.max <= contract.context
      /\ Positive(contract.assistant)
      /\ Given(contract.output.max) => contract.output.max <= contract.assistant
  BY DEF Valid, LimitsValid
<1>4. contract.input \in Distribution /\ contract.output \in Distribution
  BY <1>1, <1>2 DEF Sound
<1>5. ToSet(contract.users) \in SUBSET (Nat \ {0})
  <2>1. \A i \in DOMAIN contract.users : contract.users[i] \in Nat \ {0}
    BY <1>1, <1>2
  <2>2. QED
    BY <2>1 DEF ToSet
<1>6. IsFiniteSet(ToSet(contract.users)) /\ ToSet(contract.users) # {}
  BY <1>1, <1>2, ToSetIs
<1>7. contract.assistant \in Int
  BY <1>1, <1>3 DEF Positive
<1>8. contract.context # None => contract.context \in Int
  BY <1>1
<1>9. QED
  BY <1>1, <1>2, <1>3, <1>4, <1>5, <1>6, <1>7, <1>8, DistributionIs DEF Firm

LEMMA PointMild ==
  ASSUME NEW contract, Firm(contract), NEW id \in Label \X Nat, NEW n \in Nat,
         NEW input \in {contract.input.p50, contract.input.p95, Largest(contract.input)},
         NEW output \in {contract.output.p50, contract.output.p95, Largest(contract.output)},
         NEW cache \in {"warm", "cold", "shared-prefix"}
  PROVE  Point(id, n, input, output, cache) \in Mild(contract)
<1>1. input \in Nat \cup {Null} /\ output \in Nat \cup {Null}
  BY DEF Firm, Largest
<1>2. Given(contract.input.max) => input \in Nat /\ input <= contract.input.max
  <2>1. Given(contract.input.max) => Largest(contract.input) = contract.input.max
    BY DEF Given, Largest
  <2>2. \A i \in Nat : i <= i
    OBVIOUS
  <2>3. QED
    BY <2>1, <2>2 DEF Firm
<1>3. Given(contract.output.max) => output \in Nat /\ output <= contract.output.max
  <2>1. Given(contract.output.max) => Largest(contract.output) = contract.output.max
    BY DEF Given, Largest
  <2>2. \A i \in Nat : i <= i
    OBVIOUS
  <2>3. QED
    BY <2>1, <2>2 DEF Firm
<1>4. PICK p : p = Point(id, n, input, output, cache)
  OBVIOUS
<1>5. p \in Trial /\ p.input = input /\ p.output = output
  BY <1>1, <1>4 DEF Point, Trial
<1>6. QED
  BY <1>2, <1>3, <1>4, <1>5 DEF Mild

Low(contract) == Min(ToSet(contract.users))
High(contract) == Max(ToSet(contract.users))

LEMMA LowHigh ==
  ASSUME NEW contract, Firm(contract)
  PROVE  /\ Low(contract) \in ToSet(contract.users) /\ Low(contract) \in Nat \ {0}
         /\ High(contract) \in ToSet(contract.users) /\ High(contract) \in Nat \ {0}
         /\ Low(contract) # High(contract) => High(contract) # 1
<1> DEFINE U == ToSet(contract.users)
<1>1. U \in SUBSET Nat /\ IsFiniteSet(U) /\ U # {} /\ U \in SUBSET (Nat \ {0})
  BY DEF Firm
<1> HIDE DEF U
<1>2. (\E x \in U : \A y \in U : x <= y) /\ (\E x \in U : \A y \in U : y <= x)
  BY <1>1, Extremes
<1>3. /\ Min(U) \in U /\ \A y \in U : Min(U) <= y
      /\ Max(U) \in U /\ \A y \in U : y <= Max(U)
  BY <1>2 DEF Min, Max
<1>4. Min(U) \in Nat \ {0} /\ Max(U) \in Nat \ {0} /\ Min(U) <= Max(U)
  BY <1>1, <1>3
<1>5. Min(U) # Max(U) => Max(U) # 1
  BY <1>4
<1>6. QED
  BY <1>3, <1>4, <1>5 DEF Low, High, U

\* The experiment with the median size for n users.
More(contract, n) ==
    Point(<<"concurrency-p50", n>>, n, contract.input.p50, contract.output.p50, "warm")

LEMMA MoreIsMild ==
  ASSUME NEW contract, Firm(contract), NEW n \in Nat
  PROVE  More(contract, n) \in Mild(contract) /\ More(contract, n).id = <<"concurrency-p50", n>>
<1>1. "concurrency-p50" \in Label
  BY DEF Label
<1>2. <<"concurrency-p50", n>> \in Label \X Nat
  BY <1>1
<1>3. \A input, output, cache :
         /\ input \in {contract.input.p50, contract.input.p95, Largest(contract.input)}
         /\ output \in {contract.output.p50, contract.output.p95, Largest(contract.output)}
         /\ cache \in {"warm", "cold", "shared-prefix"}
         => Point(<<"concurrency-p50", n>>, n, input, output, cache) \in Mild(contract)
  BY <1>2, PointMild
<1>4. More(contract, n) \in Mild(contract)
  BY <1>3 DEF More
<1>5. QED
  BY <1>4 DEF More, Point

LEMMA MoreAre ==
  ASSUME NEW contract, Firm(contract), NEW S \in SUBSET Nat, IsFiniteSet(S),
         NEW more, more = Ascending(S),
         NEW e, e = [k \in DOMAIN more |-> More(contract, more[k])]
  PROVE  /\ Labelled(e, Mild(contract), {"concurrency-p50"} \X Nat)
         /\ \A n \in S : More(contract, n) \in ToSet(e)
<1>1. Sorts(more, S, Smaller(S)) /\ StrictOrder(S, Smaller(S))
  BY NumbersInOrder, NumbersOrdered
<1>2. PICK c : c = Cardinality(S)
  OBVIOUS
<1>3. /\ c \in Nat /\ more \in [1..c -> S]
      /\ \A x \in S : \E k \in 1..c : more[k] = x
      /\ \A i, j \in 1..c : i < j => more[i] # more[j]
  <2>1. /\ Cardinality(S) \in Nat /\ more \in [1..Cardinality(S) -> S]
        /\ \A x \in S : \E k \in 1..Cardinality(S) : more[k] = x
        /\ \A i, j \in 1..Cardinality(S) : i < j => <<more[i], more[j]>> \in Smaller(S) /\ more[i] # more[j]
    BY <1>1, SortedIs
  <2>2. QED
    BY <1>2, <2>1
<1>4. /\ DOMAIN e = 1..c
      /\ \A k \in 1..c : more[k] \in Nat /\ e[k] = More(contract, more[k])
  BY <1>3
<1>5. \A k \in 1..c : e[k] \in Mild(contract) /\ e[k].id = <<"concurrency-p50", more[k]>>
  BY <1>4, MoreIsMild
<1>6. e \in Seq(Mild(contract))
  <2>1. e = [k \in 1..c |-> e[k]]
    BY <1>4
  <2>2. e \in [1..c -> Mild(contract)]
    BY <1>5, <2>1
  <2>3. QED
    BY <1>3, <2>2
<1>7. ASSUME NEW i \in 1..c, NEW j \in 1..c, i # j PROVE e[i].id # e[j].id
  <2>1. i < j \/ j < i
    BY <1>3, <1>7
  <2>2. more[i] # more[j]
    BY <1>3, <2>1
  <2>3. QED
    BY <1>5, <2>2
<1>8. ASSUME NEW k \in 1..c PROVE e[k].id \in {"concurrency-p50"} \X Nat
  <2>1. more[k] \in Nat /\ e[k].id = <<"concurrency-p50", more[k]>>
    BY <1>4, <1>5
  <2>2. QED
    BY <2>1
<1>9. Labelled(e, Mild(contract), {"concurrency-p50"} \X Nat)
  BY <1>4, <1>6, <1>7, <1>8 DEF Labelled
<1>10. ASSUME NEW n \in S PROVE More(contract, n) \in ToSet(e)
  <2>1. PICK k \in 1..c : more[k] = n
    BY <1>3
  <2>2. QED
    BY <1>4, <2>1 DEF ToSet
<1>11. QED
  BY <1>9, <1>10

LEMMA OneIs ==
  ASSUME NEW T, NEW p \in T, NEW A, p.id \in A
  PROVE  Labelled(<<p>>, T, A) /\ ToSet(<<p>>) = {p}
<1>1. Once(TRUE, p) = <<p>>
  BY DEF Once
<1>2. Labelled(Once(TRUE, p), T, A) /\ \A x : x \in ToSet(Once(TRUE, p)) <=> TRUE /\ x = p
  BY OnceIs DEF Fits
<1>3. QED
  BY <1>1, <1>2

Suits(contract, id, n, input, output, cache) ==
    /\ id \in Label \X Nat /\ n \in Nat
    /\ input \in {contract.input.p50, contract.input.p95, Largest(contract.input)}
    /\ output \in {contract.output.p50, contract.output.p95, Largest(contract.output)}
    /\ cache \in {"warm", "cold", "shared-prefix"}

LEMMA TryIs ==
  ASSUME NEW contract, Firm(contract), NEW id, NEW n, NEW input, NEW output, NEW cache,
         Suits(contract, id, n, input, output, cache),
         NEW p, p = Point(id, n, input, output, cache)
  PROVE  p \in Mild(contract) /\ p.id = id /\ PointKey(p) = <<n, input, output, cache>>
<1>1. p \in Mild(contract)
  BY PointMild DEF Suits
<1>2. QED
  BY <1>1 DEF Point, PointKey

\* What a plan is asked to have, as the key of an experiment.
Asked(contract) ==
    LET in == contract.input
        out == contract.output
    IN {<<n, in.p50, out.p50, "warm">> : n \in ToSet(contract.users)}
       \cup {<<n, in.p95, out.p95, "warm">> : n \in {Low(contract), High(contract)}}
       \cup {<<Low(contract), in.p95, out.p95, "cold">>, <<Low(contract), Largest(in), Largest(out), "warm">>}
       \cup (IF contract.reuse THEN {<<Low(contract), in.p50, out.p50, "shared-prefix">>} ELSE {})

LEMMA ExperimentsAre ==
  ASSUME NEW contract, Firm(contract), NEW all, all = Experiments(contract)
  PROVE  /\ Labelled(all, Mild(contract), Label \X Nat)
         /\ \A q \in Asked(contract) : \E x \in ToSet(all) : PointKey(x) = q
<1>1. PICK lo, hi : lo = Low(contract) /\ hi = High(contract)
  OBVIOUS
<1>2. PICK in, out : in = contract.input /\ out = contract.output
  OBVIOUS
<1>3. PICK S : S = ToSet(contract.users) \ {lo}
  OBVIOUS
<1>4. PICK more : more = Ascending(S)
  OBVIOUS
<1>5. PICK baseline, tail, wide, widest, cold, shared, long :
         /\ baseline = Point(<<"baseline-p50", 1>>, lo, in.p50, out.p50, "warm")
         /\ tail = Point(<<"tail-p95", 1>>, lo, in.p95, out.p95, "warm")
         /\ wide = Point(<<"tail-p95", hi>>, hi, in.p95, out.p95, "warm")
         /\ widest = Point(<<"max-envelope", 1>>, lo, Largest(in), Largest(out), "warm")
         /\ cold = Point(<<"cold-p95", 1>>, lo, in.p95, out.p95, "cold")
         /\ shared = Point(<<"shared-prefix-p50", lo>>, lo, in.p50, out.p50, "shared-prefix")
         /\ long = Point(<<"shared-prefix-p95", hi>>, hi, in.p95, out.p50, "shared-prefix")
  OBVIOUS
<1>6. PICK e : e = [k \in DOMAIN more |-> More(contract, more[k])]
  OBVIOUS
<1>7. PICK larger : larger = (Largest(in) # in.p95 \/ Largest(out) # out.p95)
  OBVIOUS
<1>8. all = ((((((<<baseline>> \o e) \o <<tail>>) \o Once(hi # lo, wide)) \o Once(larger, widest))
              \o <<cold>>) \o Once(contract.reuse, shared)) \o Once(contract.reuse, long)
  BY <1>1, <1>2, <1>3, <1>4, <1>5, <1>6, <1>7 DEF Experiments, Once, More, Low, High
<1>9. /\ lo \in Nat /\ hi \in Nat /\ lo \in ToSet(contract.users) /\ hi \in ToSet(contract.users)
      /\ hi # lo => hi # 1
  BY <1>1, LowHigh
<1>10. /\ baseline \in Mild(contract) /\ baseline.id = <<"baseline-p50", 1>>
       /\ PointKey(baseline) = <<lo, in.p50, out.p50, "warm">>
  <2>1. <<"baseline-p50", 1>> \in Label \X Nat
    BY <1>9 DEF Label
  <2>2. Suits(contract, <<"baseline-p50", 1>>, lo, in.p50, out.p50, "warm")
    BY <1>2, <1>9, <2>1 DEF Suits
  <2>3. baseline = Point(<<"baseline-p50", 1>>, lo, in.p50, out.p50, "warm")
    BY <1>5
  <2>4. QED
    BY <2>2, <2>3, TryIs

<1>11. /\ tail \in Mild(contract) /\ tail.id = <<"tail-p95", 1>>
       /\ PointKey(tail) = <<lo, in.p95, out.p95, "warm">>
  <2>1. <<"tail-p95", 1>> \in Label \X Nat
    BY <1>9 DEF Label
  <2>2. Suits(contract, <<"tail-p95", 1>>, lo, in.p95, out.p95, "warm")
    BY <1>2, <1>9, <2>1 DEF Suits
  <2>3. tail = Point(<<"tail-p95", 1>>, lo, in.p95, out.p95, "warm")
    BY <1>5
  <2>4. QED
    BY <2>2, <2>3, TryIs

<1>12. /\ wide \in Mild(contract) /\ wide.id = <<"tail-p95", hi>>
       /\ PointKey(wide) = <<hi, in.p95, out.p95, "warm">>
  <2>1. <<"tail-p95", hi>> \in Label \X Nat
    BY <1>9 DEF Label
  <2>2. Suits(contract, <<"tail-p95", hi>>, hi, in.p95, out.p95, "warm")
    BY <1>2, <1>9, <2>1 DEF Suits
  <2>3. wide = Point(<<"tail-p95", hi>>, hi, in.p95, out.p95, "warm")
    BY <1>5
  <2>4. QED
    BY <2>2, <2>3, TryIs

<1>13. /\ widest \in Mild(contract) /\ widest.id = <<"max-envelope", 1>>
       /\ PointKey(widest) = <<lo, Largest(in), Largest(out), "warm">>
  <2>1. <<"max-envelope", 1>> \in Label \X Nat
    BY <1>9 DEF Label
  <2>2. Suits(contract, <<"max-envelope", 1>>, lo, Largest(in), Largest(out), "warm")
    BY <1>2, <1>9, <2>1 DEF Suits
  <2>3. widest = Point(<<"max-envelope", 1>>, lo, Largest(in), Largest(out), "warm")
    BY <1>5
  <2>4. QED
    BY <2>2, <2>3, TryIs

<1>14. /\ cold \in Mild(contract) /\ cold.id = <<"cold-p95", 1>>
       /\ PointKey(cold) = <<lo, in.p95, out.p95, "cold">>
  <2>1. <<"cold-p95", 1>> \in Label \X Nat
    BY <1>9 DEF Label
  <2>2. Suits(contract, <<"cold-p95", 1>>, lo, in.p95, out.p95, "cold")
    BY <1>2, <1>9, <2>1 DEF Suits
  <2>3. cold = Point(<<"cold-p95", 1>>, lo, in.p95, out.p95, "cold")
    BY <1>5
  <2>4. QED
    BY <2>2, <2>3, TryIs

<1>15. /\ shared \in Mild(contract) /\ shared.id = <<"shared-prefix-p50", lo>>
       /\ PointKey(shared) = <<lo, in.p50, out.p50, "shared-prefix">>
  <2>1. <<"shared-prefix-p50", lo>> \in Label \X Nat
    BY <1>9 DEF Label
  <2>2. Suits(contract, <<"shared-prefix-p50", lo>>, lo, in.p50, out.p50, "shared-prefix")
    BY <1>2, <1>9, <2>1 DEF Suits
  <2>3. shared = Point(<<"shared-prefix-p50", lo>>, lo, in.p50, out.p50, "shared-prefix")
    BY <1>5
  <2>4. QED
    BY <2>2, <2>3, TryIs

<1>16. /\ long \in Mild(contract) /\ long.id = <<"shared-prefix-p95", hi>>
       /\ PointKey(long) = <<hi, in.p95, out.p50, "shared-prefix">>
  <2>1. <<"shared-prefix-p95", hi>> \in Label \X Nat
    BY <1>9 DEF Label
  <2>2. Suits(contract, <<"shared-prefix-p95", hi>>, hi, in.p95, out.p50, "shared-prefix")
    BY <1>2, <1>9, <2>1 DEF Suits
  <2>3. long = Point(<<"shared-prefix-p95", hi>>, hi, in.p95, out.p50, "shared-prefix")
    BY <1>5
  <2>4. QED
    BY <2>2, <2>3, TryIs

<1>17. /\ Labelled(e, Mild(contract), {"concurrency-p50"} \X Nat)
       /\ \A n \in S : More(contract, n) \in ToSet(e)
  <2>1. ToSet(contract.users) \in SUBSET Nat /\ IsFiniteSet(ToSet(contract.users))
    BY DEF Firm
  <2>2. S \in SUBSET Nat /\ S \in SUBSET ToSet(contract.users)
    BY <1>3, <2>1
  <2>3. IsFiniteSet(S)
    BY <2>1, <2>2, FS_Subset
  <2>4. QED
    BY <1>4, <1>6, <2>2, <2>3, MoreAre
<1> DEFINE T == Mild(contract)
<1> HIDE DEF T
<1>18. PICK s1, s2, s3, s4, s5, s6, s7 :
         /\ Joins(s1, <<baseline>>, e) /\ Joins(s2, s1, <<tail>>) /\ Joins(s3, s2, Once(hi # lo, wide))
         /\ Joins(s4, s3, Once(larger, widest)) /\ Joins(s5, s4, <<cold>>)
         /\ Joins(s6, s5, Once(contract.reuse, shared)) /\ Joins(s7, s6, Once(contract.reuse, long))
  BY DEF Joins
<1>19. all = s7
  BY <1>8, <1>18 DEF Joins
<1> DEFINE L1 == {"baseline-p50"} \X Nat
           L2 == {"concurrency-p50"} \X Nat
           L3 == {"baseline-p50", "concurrency-p50"} \X Nat
           L4 == {"tail-p95"} \X {1}
           L5 == {"tail-p95"} \X (Nat \ {1})
           L6 == {"baseline-p50", "concurrency-p50", "tail-p95"} \X Nat
           L7 == {"max-envelope"} \X Nat
           L8 == {"baseline-p50", "concurrency-p50", "tail-p95", "max-envelope"} \X Nat
           L9 == {"cold-p95"} \X Nat
           L10 == {"baseline-p50", "concurrency-p50", "tail-p95", "max-envelope", "cold-p95"} \X Nat
           L11 == {"shared-prefix-p50"} \X Nat
           L12 == {"baseline-p50", "concurrency-p50", "tail-p95", "max-envelope", "cold-p95",
                   "shared-prefix-p50"} \X Nat
           L13 == {"shared-prefix-p95"} \X Nat
<1>20. /\ Apart(L1, L2, L3) /\ Apart(L3, L4, L3 \cup L4) /\ Apart(L3 \cup L4, L5, L6)
       /\ Apart(L6, L7, L8) /\ Apart(L8, L9, L10) /\ Apart(L10, L11, L12)
       /\ Apart(L12, L13, Label \X Nat)
  BY DEF Apart, Label
<1>21. /\ <<"baseline-p50", 1>> \in L1 /\ <<"tail-p95", 1>> \in L4 /\ (hi # 1 => <<"tail-p95", hi>> \in L5)
       /\ <<"max-envelope", 1>> \in L7 /\ <<"cold-p95", 1>> \in L9
       /\ <<"shared-prefix-p50", lo>> \in L11 /\ <<"shared-prefix-p95", hi>> \in L13
  BY <1>9
<1> HIDE DEF L1, L2, L3, L4, L5, L6, L7, L8, L9, L10, L11, L12, L13
<1>22. Labelled(<<baseline>>, T, L1) /\ ToSet(<<baseline>>) = {baseline}
  BY <1>10, <1>21, OneIs DEF T
<1>23. Labelled(e, T, L2)
  BY <1>17 DEF T, L2
<1>24. Labelled(s1, T, L3) /\ ToSet(s1) = {baseline} \cup ToSet(e)
  BY <1>18, <1>20, <1>22, <1>23, Chain
<1>25. Labelled(<<tail>>, T, L4) /\ ToSet(<<tail>>) = {tail}
  BY <1>11, <1>21, OneIs DEF T
<1>26. Labelled(s2, T, L3 \cup L4) /\ ToSet(s2) = ToSet(s1) \cup {tail}
  BY <1>18, <1>20, <1>24, <1>25, Chain
<1>27. Labelled(Once(hi # lo, wide), T, L5) /\ \A x : x \in ToSet(Once(hi # lo, wide)) <=> hi # lo /\ x = wide
  <2>1. Fits(hi # lo, wide, T, L5)
    BY <1>9, <1>12, <1>21 DEF T, Fits
  <2>2. QED
    BY <2>1, OnceIs
<1>28. Labelled(s3, T, L6) /\ ToSet(s3) = ToSet(s2) \cup ToSet(Once(hi # lo, wide))
  BY <1>18, <1>20, <1>26, <1>27, Chain
<1>29. Labelled(Once(larger, widest), T, L7) /\ \A x : x \in ToSet(Once(larger, widest)) <=> larger /\ x = widest
  <2>1. Fits(larger, widest, T, L7)
    BY <1>7, <1>13, <1>21 DEF T, Fits
  <2>2. QED
    BY <2>1, OnceIs
<1>30. Labelled(s4, T, L8) /\ ToSet(s4) = ToSet(s3) \cup ToSet(Once(larger, widest))
  BY <1>18, <1>20, <1>28, <1>29, Chain
<1>31. Labelled(<<cold>>, T, L9) /\ ToSet(<<cold>>) = {cold}
  BY <1>14, <1>21, OneIs DEF T
<1>32. Labelled(s5, T, L10) /\ ToSet(s5) = ToSet(s4) \cup {cold}
  BY <1>18, <1>20, <1>30, <1>31, Chain
<1>33. contract.reuse \in BOOLEAN
  BY DEF Firm
<1>34. /\ Labelled(Once(contract.reuse, shared), T, L11)
       /\ \A x : x \in ToSet(Once(contract.reuse, shared)) <=> contract.reuse /\ x = shared
  <2>1. Fits(contract.reuse, shared, T, L11)
    BY <1>15, <1>21, <1>33 DEF T, Fits
  <2>2. QED
    BY <2>1, OnceIs
<1>35. Labelled(s6, T, L12) /\ ToSet(s6) = ToSet(s5) \cup ToSet(Once(contract.reuse, shared))
  BY <1>18, <1>20, <1>32, <1>34, Chain
<1>36. Labelled(Once(contract.reuse, long), T, L13)
  <2>1. Fits(contract.reuse, long, T, L13)
    BY <1>16, <1>21, <1>33 DEF T, Fits
  <2>2. QED
    BY <2>1, OnceIs
<1>37. Labelled(s7, T, Label \X Nat) /\ ToSet(s7) = ToSet(s6) \cup ToSet(Once(contract.reuse, long))
  BY <1>18, <1>20, <1>35, <1>36, Chain
<1>38. /\ {baseline, tail, cold} \subseteq ToSet(all) /\ ToSet(e) \subseteq ToSet(all)
       /\ (hi # lo => wide \in ToSet(all)) /\ (larger => widest \in ToSet(all))
       /\ (contract.reuse => shared \in ToSet(all))
  BY <1>19, <1>24, <1>26, <1>27, <1>28, <1>29, <1>30, <1>32, <1>34, <1>35, <1>37
<1>39. ASSUME NEW q \in Asked(contract) PROVE \E x \in ToSet(all) : PointKey(x) = q
  <2>1. \/ \E n \in ToSet(contract.users) : q = <<n, in.p50, out.p50, "warm">>
        \/ q \in {<<lo, in.p95, out.p95, "warm">>, <<hi, in.p95, out.p95, "warm">>}
        \/ q = <<lo, in.p95, out.p95, "cold">>
        \/ q = <<lo, Largest(in), Largest(out), "warm">>
        \/ contract.reuse /\ q = <<lo, in.p50, out.p50, "shared-prefix">>
    BY <1>1, <1>2 DEF Asked
  <2>2. ASSUME NEW n \in ToSet(contract.users), q = <<n, in.p50, out.p50, "warm">>
        PROVE  \E x \in ToSet(all) : PointKey(x) = q
    <3>1. CASE n = lo
      BY <1>10, <1>38, <2>2, <3>1
    <3>2. CASE n # lo
      <4>1. More(contract, n) \in ToSet(all)
        BY <1>3, <1>17, <1>38, <3>2
      <4>2. PointKey(More(contract, n)) = q
        BY <1>2, <2>2 DEF More, Point, PointKey
      <4>3. QED
        BY <4>1, <4>2
    <3>3. QED
      BY <3>1, <3>2
  <2>3. CASE q \in {<<lo, in.p95, out.p95, "warm">>, <<hi, in.p95, out.p95, "warm">>}
    BY <1>11, <1>12, <1>38, <2>3
  <2>4. CASE q = <<lo, in.p95, out.p95, "cold">>
    BY <1>14, <1>38, <2>4
  <2>5. CASE q = <<lo, Largest(in), Largest(out), "warm">>
    BY <1>7, <1>11, <1>13, <1>38, <2>5
  <2>6. CASE contract.reuse /\ q = <<lo, in.p50, out.p50, "shared-prefix">>
    BY <1>15, <1>38, <2>6
  <2>7. QED
    BY <2>1, <2>2, <2>3, <2>4, <2>5, <2>6
<1>40. QED
  BY <1>19, <1>37, <1>39 DEF T

\* A plan, of a contract that is valid.
LEMMA PlanCovers ==
  ASSUME NEW contract, Firm(contract), NEW plan, plan = BuildPlan(contract)
  PROVE  /\ plan \in Seq(Trial) /\ Covers(plan, contract)
         /\ Given(contract.input.max) /\ Given(contract.output.max) => Runs(plan, contract)
<1>1. PICK all : all = Experiments(contract)
  OBVIOUS
<1>2. /\ Labelled(all, Mild(contract), Label \X Nat)
      /\ \A q \in Asked(contract) : \E x \in ToSet(all) : PointKey(x) = q
  BY <1>1, ExperimentsAre
<1>3. all \in Seq(Mild(contract)) /\ plan = Distinct(all, [i \in DOMAIN all |-> PointKey(all[i])])
  BY <1>1, <1>2 DEF Labelled, BuildPlan
<1>4. plan \in Seq(Mild(contract)) /\ Remains(plan, all)
  BY <1>3, PlanRemains
<1>5. \A i \in DOMAIN plan : plan[i] \in Mild(contract)
  BY <1>4
<1>6. plan \in Seq(Trial)
  <2>1. Mild(contract) \in SUBSET Trial
    BY DEF Mild
  <2>2. plan \in [1..Len(plan) -> Trial] /\ Len(plan) \in Nat
    BY <1>4, <2>1
  <2>3. QED
    BY <2>2
<1>7. ASSUME NEW q \in Asked(contract) PROVE \E i \in DOMAIN plan : PointKey(plan[i]) = q
  <2>1. PICK x \in ToSet(all) : PointKey(x) = q
    BY <1>2
  <2>2. PICK y \in ToSet(plan) : PointKey(y) = PointKey(x)
    BY <1>4 DEF Remains
  <2>3. QED
    BY <2>1, <2>2 DEF ToSet
<1>8. ASSUME NEW n, NEW input, NEW output, NEW cache, <<n, input, output, cache>> \in Asked(contract)
      PROVE  \E i \in DOMAIN plan : /\ plan[i].concurrency = n /\ plan[i].cache = cache
                                    /\ plan[i].input = input /\ plan[i].output = output
  <2>1. PICK i \in DOMAIN plan : PointKey(plan[i]) = <<n, input, output, cache>>
    BY <1>7, <1>8
  <2>2. QED
    BY <2>1 DEF PointKey
<1>9. ASSUME NEW i \in DOMAIN plan, NEW j \in DOMAIN plan, i # j
      PROVE  plan[i].id # plan[j].id /\ PointKey(plan[i]) # PointKey(plan[j])
  <2>1. PICK place \in [DOMAIN plan -> DOMAIN all] :
          /\ \A k \in DOMAIN plan : plan[k] = all[place[k]]
          /\ \A k, l \in DOMAIN plan : k # l => place[k] # place[l]
    BY <1>4 DEF Remains
  <2>2. all[place[i]].id # all[place[j]].id
    BY <1>2, <1>9, <2>1 DEF Labelled
  <2>3. QED
    BY <1>4, <1>9, <2>1, <2>2 DEF Remains
<1>10. Covers(plan, contract)
  <2> DEFINE in == contract.input
             out == contract.output
  <2>1. /\ \A n \in ToSet(contract.users) : <<n, in.p50, out.p50, "warm">> \in Asked(contract)
        /\ \A n \in {Low(contract), High(contract)} : <<n, in.p95, out.p95, "warm">> \in Asked(contract)
        /\ <<Low(contract), in.p95, out.p95, "cold">> \in Asked(contract)
        /\ <<Low(contract), Largest(in), Largest(out), "warm">> \in Asked(contract)
        /\ contract.reuse => <<Low(contract), in.p50, out.p50, "shared-prefix">> \in Asked(contract)
    BY DEF Asked
  <2>2. Given(in.max) => Largest(in) = in.max
    BY DEF Given, Largest
  <2>3. Given(out.max) => Largest(out) = out.max
    BY DEF Given, Largest
  <2> DEFINE Has(n, input, output, cache) ==
               \E i \in DOMAIN plan : /\ plan[i].concurrency = n /\ plan[i].cache = cache
                                      /\ plan[i].input = input /\ plan[i].output = output
  <2>4. \A n, input, output, cache : <<n, input, output, cache>> \in Asked(contract) => Has(n, input, output, cache)
    BY <1>8
  <2> HIDE DEF Has
  <2>5. \A n \in ToSet(contract.users) : Has(n, in.p50, out.p50, "warm")
    BY <2>1, <2>4
  <2>6. \A n \in {Low(contract), High(contract)} : Has(n, in.p95, out.p95, "warm")
    BY <2>1, <2>4
  <2>7. Has(Low(contract), in.p95, out.p95, "cold")
    BY <2>1, <2>4
  <2>8. Given(in.max) /\ Given(out.max) => Has(Low(contract), in.max, out.max, "warm")
    BY <2>1, <2>2, <2>3, <2>4
  <2>9. contract.reuse => Has(Low(contract), in.p50, out.p50, "shared-prefix")
    BY <2>1, <2>4
  <2>10. QED
    BY <1>9, <2>5, <2>6, <2>7, <2>8, <2>9, Zenon DEF Covers, Has, Low, High
<1>11. ASSUME Given(contract.input.max), Given(contract.output.max) PROVE Runs(plan, contract)
  <2>1. /\ contract.input.max \in Nat /\ contract.output.max \in Nat
        /\ contract.assistant \in Int /\ contract.output.max <= contract.assistant
        /\ contract.context # None =>
              contract.context \in Int /\ contract.input.max + contract.output.max <= contract.context
    BY <1>11 DEF Firm
  <2>2. ASSUME NEW i \in DOMAIN plan
        PROVE  /\ plan[i].output <= contract.assistant
               /\ contract.context # None => plan[i].input + plan[i].output <= contract.context
    <3>1. /\ plan[i].input \in Nat /\ plan[i].input <= contract.input.max
          /\ plan[i].output \in Nat /\ plan[i].output <= contract.output.max
      BY <1>5, <1>11 DEF Mild
    <3>2. QED
      BY <2>1, <3>1
  <2>3. QED
    BY <2>2 DEF Runs
<1>12. QED
  BY <1>6, <1>10, <1>11

-----------------------------------------------------------------------------
(* The contract an intake is translated into. *)

LEMMA Ceiled ==
  ASSUME NEW a \in Nat, NEW b \in Nat, a <= b, NEW d \in Nat, d > 0
  PROVE  Ceil(a, d) \in Nat /\ Ceil(a, d) <= Ceil(b, d) /\ (a > 0 => Ceil(a, d) > 0)
<1>1. \A i, j \in Nat : i <= j => i \div d \in Nat /\ i \div d <= j \div d
  OBVIOUS
<1>2. a + d - 1 \in Nat /\ b + d - 1 \in Nat /\ a + d - 1 <= b + d - 1
  OBVIOUS
<1>3. Ceil(a, d) \in Nat /\ Ceil(a, d) <= Ceil(b, d)
  BY <1>1, <1>2 DEF Ceil
<1>4. ASSUME a > 0 PROVE Ceil(a, d) > 0
  <2>1. d \in Nat /\ d <= a + d - 1
    BY <1>4
  <2>2. d \div d = 1
    OBVIOUS
  <2>3. d \div d <= (a + d - 1) \div d
    BY <1>1, <1>2, <2>1
  <2>4. QED
    BY <1>3, <2>2, <2>3 DEF Ceil
<1>5. QED
  BY <1>3, <1>4

Pair(S, a, b) == S = {a, b} /\ a \in Int /\ b \in Int

LEMMA OfTwo ==
  ASSUME NEW S, NEW a, NEW b, Pair(S, a, b)
  PROVE  /\ Max(S) \in {a, b} /\ Max(S) >= a /\ Max(S) >= b
         /\ Min(S) \in {a, b} /\ Min(S) <= a /\ Min(S) <= b
<1>1. (\E x \in S : \A y \in S : x <= y) /\ (\E x \in S : \A y \in S : y <= x)
  BY DEF Pair
<1>2. /\ Min(S) \in S /\ \A y \in S : Min(S) <= y
      /\ Max(S) \in S /\ \A y \in S : y <= Max(S)
  BY <1>1 DEF Min, Max
<1>3. QED
  BY <1>2 DEF Pair

\* The sizes of a graded distribution.
LEMMA GradedIs ==
  ASSUME NEW d \in Distribution \cup {None}, Graded(d)
  PROVE  {d.p50, d.p95, d.max} \subseteq Nat /\ 0 < d.p50 /\ d.p50 <= d.p95 /\ d.p95 <= d.max
<1>1. d \in Distribution /\ d.p50 # None /\ d.p95 # None /\ d.max \notin {None, Null}
  BY DEF Graded, Given
<1>2. d.p50 \in Int /\ d.p95 \in Int /\ d.max \in Int
  BY <1>1 DEF Distribution
<1>3. QED
  BY <1>2 DEF Graded

\* Tokens, of so many pages and of so many words.
PageTokens(n) == Ceil(n * WordsPerPage * TokensPerWord, 100) + Overhead
WordTokens(n) == Ceil(n * TokensPerWord, 100)

LEMMA SizesGrow ==
  ASSUME NEW a \in Nat, NEW b \in Nat, a <= b
  PROVE  /\ PageTokens(a) \in Nat /\ PageTokens(a) <= PageTokens(b) /\ (a > 0 => PageTokens(a) > 0)
         /\ WordTokens(a) \in Nat /\ WordTokens(a) <= WordTokens(b) /\ (a > 0 => WordTokens(a) > 0)
<1>1. WordsPerPage \in Nat \ {0} /\ TokensPerWord \in Nat \ {0} /\ Overhead \in Nat
  BY CapacityAssumption
<1>2. \A i, j, k \in Nat : i <= j => i * k \in Nat /\ i * k <= j * k /\ (i > 0 /\ k > 0 => i * k > 0)
  OBVIOUS
<1>3. a * WordsPerPage \in Nat /\ b * WordsPerPage \in Nat /\ a * WordsPerPage <= b * WordsPerPage
      /\ (a > 0 => a * WordsPerPage > 0)
  BY <1>1, <1>2
<1>4. PICK m, n : m = a * WordsPerPage * TokensPerWord /\ n = b * WordsPerPage * TokensPerWord
  OBVIOUS
<1>5. m \in Nat /\ n \in Nat /\ m <= n /\ (a > 0 => m > 0)
  BY <1>1, <1>2, <1>3, <1>4
<1>6. Ceil(m, 100) \in Nat /\ Ceil(m, 100) <= Ceil(n, 100) /\ (m > 0 => Ceil(m, 100) > 0)
      /\ Ceil(n, 100) \in Nat
  BY <1>5, Ceiled
<1>7. PageTokens(a) = Ceil(m, 100) + Overhead /\ PageTokens(b) = Ceil(n, 100) + Overhead
  BY <1>4 DEF PageTokens
<1>8. PageTokens(a) \in Nat /\ PageTokens(a) <= PageTokens(b) /\ (a > 0 => PageTokens(a) > 0)
  BY <1>1, <1>5, <1>6, <1>7
<1>9. a * TokensPerWord \in Nat /\ b * TokensPerWord \in Nat /\ a * TokensPerWord <= b * TokensPerWord
      /\ (a > 0 => a * TokensPerWord > 0)
  BY <1>1, <1>2
<1>10. WordTokens(a) \in Nat /\ WordTokens(a) <= WordTokens(b) /\ (a > 0 => WordTokens(a) > 0)
  BY <1>9, Ceiled DEF WordTokens
<1>11. QED
  BY <1>8, <1>10

\* What the contract of an intake is made of.
PagesOf(intake) == IF intake.retrieval THEN intake.retrieved ELSE intake.pages
Input(pages) == [p50 |-> PageTokens(pages.p50), p95 |-> PageTokens(pages.p95), max |-> PageTokens(pages.max)]
Output(words) == [p50 |-> WordTokens(words.p50), p95 |-> WordTokens(words.p95), max |-> WordTokens(words.max)]
Rate(intake, out) == Max({1000, (1000 * out.p50) \div (intake.complete - intake.first)})
Demands(intake, out) ==
    [ttfa_p95_ms |-> 1000 * intake.first, end_to_end_p95_ms |-> 1000 * intake.complete,
     answer_tokens_per_second_min |-> Rate(intake, out),
     error_rate_max |-> intake.errors, quality_minimum_score |-> intake.score]
UsersOf(intake) == IF intake.concurrent = 1 THEN <<1>> ELSE <<1, intake.concurrent>>
Repeats(intake) == intake.shared > 0 \/ intake.repeated > 0
Small(out) == Min({128, out.p50})

LEMMA TranslateMade ==
  ASSUME NEW intake, NEW in, NEW out, in = Input(PagesOf(intake)), out = Output(intake.words)
  PROVE  Translate(intake) =
            [identified |-> intake.identified, users |-> UsersOf(intake),
             input |-> in, output |-> out, objectives |-> Demands(intake, out),
             reuse |-> Repeats(intake), context |-> in.max + out.max, tools |-> FALSE, calls |-> FALSE,
             modes |-> {"probe", "assistant"}, mode |-> "assistant",
             probe |-> Small(out), assistant |-> out.max, null |-> FALSE]
<1>1. LET given == Input(PagesOf(intake))
          wanted == Output(intake.words)
      IN Translate(intake) =
            [identified |-> intake.identified, users |-> UsersOf(intake),
             input |-> given, output |-> wanted, objectives |-> Demands(intake, wanted),
             reuse |-> Repeats(intake), context |-> given.max + wanted.max, tools |-> FALSE, calls |-> FALSE,
             modes |-> {"probe", "assistant"}, mode |-> "assistant",
             probe |-> Small(wanted), assistant |-> wanted.max, null |-> FALSE]
  BY Zenon DEF Translate, Graduated, PageTokens, WordTokens, PagesOf, Input, Output, Rate, Demands, UsersOf,
            Repeats, Small
<1>2. QED
  BY <1>1

LEMMA SizesOf ==
  ASSUME NEW d \in Distribution \cup {None}, Graded(d)
  PROVE  /\ Input(d) \in [p50 : Nat, p95 : Nat, max : Nat] /\ Output(d) \in [p50 : Nat, p95 : Nat, max : Nat]
         /\ 0 < Input(d).p50 /\ Input(d).p50 <= Input(d).p95 /\ Input(d).p95 <= Input(d).max
         /\ 0 < Output(d).p50 /\ Output(d).p50 <= Output(d).p95 /\ Output(d).p95 <= Output(d).max
<1>1. {d.p50, d.p95, d.max} \subseteq Nat /\ 0 < d.p50 /\ d.p50 <= d.p95 /\ d.p95 <= d.max
  BY GradedIs
<1>2. PICK a, b, c : a = d.p50 /\ b = d.p95 /\ c = d.max
  OBVIOUS
<1>3. a \in Nat /\ b \in Nat /\ c \in Nat /\ 0 < a /\ a <= b /\ b <= c /\ c <= c
  BY <1>1, <1>2
<1>4. /\ PageTokens(a) \in Nat /\ PageTokens(a) > 0 /\ PageTokens(a) <= PageTokens(b)
      /\ PageTokens(b) \in Nat /\ PageTokens(b) <= PageTokens(c) /\ PageTokens(c) \in Nat
      /\ WordTokens(a) \in Nat /\ WordTokens(a) > 0 /\ WordTokens(a) <= WordTokens(b)
      /\ WordTokens(b) \in Nat /\ WordTokens(b) <= WordTokens(c) /\ WordTokens(c) \in Nat
  BY <1>3, SizesGrow
<1>5. /\ Input(d) = [p50 |-> PageTokens(a), p95 |-> PageTokens(b), max |-> PageTokens(c)]
      /\ Output(d) = [p50 |-> WordTokens(a), p95 |-> WordTokens(b), max |-> WordTokens(c)]
  BY <1>2 DEF Input, Output
<1>6. QED
  BY <1>4, <1>5

\* The translation of an intake that passes validation.
LEMMA TranslateIs ==
  ASSUME NEW intake \in Intake, IntakeOk(intake), NEW t, t = Translate(intake)
  PROVE  /\ t \in Contract /\ Valid(t)
         /\ ToSet(t.users) = {1, intake.concurrent}
         /\ {t.input.p95, t.input.max, t.output.p95, t.output.max} \subseteq Nat
         /\ t.objectives["ttfa_p95_ms"] \in Nat /\ t.objectives["end_to_end_p95_ms"] \in Nat
         /\ t.objectives["answer_tokens_per_second_min"] \in Nat \ {0}
<1> USE WorkloadAssumption
<1>1. PICK in, out : in = Input(PagesOf(intake)) /\ out = Output(intake.words)
  OBVIOUS
<1>2. t = [identified |-> intake.identified, users |-> UsersOf(intake),
           input |-> in, output |-> out, objectives |-> Demands(intake, out),
           reuse |-> Repeats(intake), context |-> in.max + out.max, tools |-> FALSE, calls |-> FALSE,
           modes |-> {"probe", "assistant"}, mode |-> "assistant",
           probe |-> Small(out), assistant |-> out.max, null |-> FALSE]
  BY <1>1, TranslateMade
<1>3. /\ intake.identified \in BOOLEAN /\ intake.concurrent \in Int /\ intake.first \in Int
      /\ intake.complete \in Int /\ intake.errors \in Int /\ intake.score \in Int
      /\ {intake.pages, intake.retrieved, intake.words} \subseteq Distribution \cup {None}
  BY DEF Intake
<1>4. /\ intake.identified /\ intake.concurrent >= 1 /\ 0 < intake.first /\ intake.first < intake.complete
      /\ Graded(intake.pages) /\ Graded(intake.retrieved) /\ Graded(intake.words)
  BY <1>3 DEF IntakeOk
<1>5. Graded(PagesOf(intake)) /\ PagesOf(intake) \in Distribution \cup {None}
  BY <1>3, <1>4 DEF PagesOf
<1>6. /\ in \in [p50 : Nat, p95 : Nat, max : Nat] /\ out \in [p50 : Nat, p95 : Nat, max : Nat]
      /\ 0 < in.p50 /\ in.p50 <= in.p95 /\ in.p95 <= in.max
      /\ 0 < out.p50 /\ out.p50 <= out.p95 /\ out.p95 <= out.max
  BY <1>1, <1>3, <1>4, <1>5, SizesOf
<1>7. in \in Distribution /\ out \in Distribution /\ in # None /\ out # None
  <2>1. in \in Distribution /\ out \in Distribution
    BY <1>6 DEF Distribution
  <2>2. QED
    BY <2>1
<1>8. Sound(in) /\ Sound(out) /\ Given(in.max) /\ Given(out.max)
  BY <1>6, <1>7 DEF Sound, Positive, Given
<1>9. PICK u : u = UsersOf(intake)
  OBVIOUS
<1>10. /\ u \in Seq(Int) /\ u # <<>> /\ IsInjective(u)
       /\ ToSet(u) = {1, intake.concurrent} /\ \A i \in DOMAIN u : u[i] >= 1
  <2>1. CASE intake.concurrent = 1
    <3>1. u = <<1>>
      BY <1>9, <2>1 DEF UsersOf
    <3>2. DOMAIN u = {1} /\ u[1] = 1 /\ u \in Seq(Int) /\ u # <<>>
      BY <3>1
    <3>3. QED
      BY <2>1, <3>2 DEF IsInjective, ToSet
  <2>2. CASE intake.concurrent # 1
    <3>1. u = <<1, intake.concurrent>>
      BY <1>9, <2>2 DEF UsersOf
    <3>2. DOMAIN u = {1, 2} /\ u[1] = 1 /\ u[2] = intake.concurrent /\ u \in Seq(Int) /\ u # <<>>
      BY <1>3, <3>1
    <3>3. IsInjective(u)
      BY <2>2, <3>2 DEF IsInjective
    <3>4. ToSet(u) = {1, intake.concurrent}
      BY <3>2 DEF ToSet
    <3>5. QED
      BY <1>3, <1>4, <3>2, <3>3, <3>4
  <2>3. QED
    BY <2>1, <2>2
<1>11. Rate(intake, out) \in Nat \ {0}
  <2>1. PICK d, n : d = intake.complete - intake.first /\ n = 1000 * out.p50
    OBVIOUS
  <2>2. d \in Nat /\ d > 0 /\ n \in Nat
    BY <1>3, <1>4, <1>6, <2>1
  <2>3. PICK q \in Int : q = n \div d
    BY <2>2
  <2>4. Max({1000, q}) \in {1000, q} /\ Max({1000, q}) >= 1000
    <3>1. Pair({1000, q}, 1000, q)
      BY <2>3 DEF Pair
    <3>2. QED
      BY <3>1, OfTwo
  <2>5. Rate(intake, out) = Max({1000, q})
    BY <2>1, <2>3 DEF Rate
  <2>6. QED
    BY <2>3, <2>4, <2>5
<1>12. PICK want : want = Demands(intake, out)
  OBVIOUS
<1>13. /\ want["ttfa_p95_ms"] = 1000 * intake.first /\ want["end_to_end_p95_ms"] = 1000 * intake.complete
       /\ want["answer_tokens_per_second_min"] = Rate(intake, out)
       /\ want["error_rate_max"] = intake.errors /\ want["quality_minimum_score"] = intake.score
       /\ want = [o \in Objective |-> want[o]]
  BY <1>12 DEF Demands, Objective
<1>14. want["ttfa_p95_ms"] \in Nat /\ want["end_to_end_p95_ms"] \in Nat
  BY <1>3, <1>4, <1>13
<1>15. want \in [Objective -> Int \cup {None}]
  <2>1. \A o \in Objective : want[o] \in Int
    BY <1>3, <1>11, <1>13, <1>14 DEF Objective
  <2>2. QED
    BY <1>13, <2>1
<1>16. Small(out) \in Int /\ Small(out) >= 1
  <2>1. PICK p \in Nat : p = out.p50 /\ p > 0
    BY <1>6
  <2>2. Min({128, p}) \in {128, p}
    <3>1. Pair({128, p}, 128, p)
      BY DEF Pair
    <3>2. QED
      BY <3>1, OfTwo
  <2>3. QED
    BY <2>1, <2>2 DEF Small
<1>17. Repeats(intake) \in BOOLEAN
  BY Zenon DEF Repeats
<1> DEFINE r == [identified |-> intake.identified, users |-> u, input |-> in, output |-> out,
                 objectives |-> want, reuse |-> Repeats(intake), context |-> in.max + out.max,
                 tools |-> FALSE, calls |-> FALSE,
                 modes |-> {"probe", "assistant"}, mode |-> "assistant",
                 probe |-> Small(out), assistant |-> out.max, null |-> FALSE]
<1>18. t = r
  BY <1>2, <1>9, <1>12
<1>19. r \in Contract
  BY <1>3, <1>6, <1>7, <1>10, <1>15, <1>16, <1>17 DEF Contract
<1>20. /\ r.identified = intake.identified /\ r.users = u /\ r.input = in /\ r.output = out
       /\ r.objectives = want /\ r.context = in.max + out.max /\ r.calls = FALSE
       /\ r.modes = {"probe", "assistant"} /\ r.mode = "assistant" /\ r.probe = Small(out)
       /\ r.assistant = out.max
  OBVIOUS
<1> HIDE DEF r
<1>21. DemandValid(r)
  <2>1. want["ttfa_p95_ms"] # None /\ "ttfa_p95_ms" \in Objective \ {"quality_minimum_score"}
    BY <1>14 DEF Objective
  <2>2. QED
    BY <1>4, <1>8, <1>10, <1>20, <2>1 DEF DemandValid
<1>22. LimitsValid(r)
  <2>1. /\ Positive(Small(out)) /\ Positive(out.max) /\ out.max <= out.max
        /\ in.max + out.max <= in.max + out.max
    BY <1>6, <1>16 DEF Positive
  <2>2. QED
    BY <1>20, <2>1 DEF LimitsValid
<1>23. t \in Contract /\ Valid(t)
  BY <1>18, <1>19, <1>21, <1>22 DEF Valid
<1>24. /\ ToSet(t.users) = {1, intake.concurrent}
       /\ {t.input.p95, t.input.max, t.output.p95, t.output.max} \subseteq Nat
  BY <1>6, <1>10, <1>18, <1>20
<1>25. t.objectives = want
  BY <1>18, <1>20
<1>26. QED
  BY <1>11, <1>13, <1>14, <1>23, <1>24, <1>25

-----------------------------------------------------------------------------
(* What is answered to a request for a plan. *)

\* The contract a plan is made of, and whether there is one.
Declared(c) == IF ask[c].kind = "plan" THEN Contracts[ask[c].contract] ELSE Translate(Intakes[ask[c].intake])
Sensible(c) ==
    IF ask[c].kind = "plan" THEN Valid(Contracts[ask[c].contract]) ELSE Plannable(Intakes[ask[c].intake])

\* What the program answers: whether the listing can be shown is of no matter for the plan.
LEMMA Programmed ==
  ASSUME NEW name \in DOMAIN Contracts, NEW contract, contract = Contracts[name]
  PROVE  \E shown : WorkloadAnswer[name] =
            IF contract.null THEN Plain("DROPPED")
            ELSE IF ~Valid(contract) THEN Plain("REFUSED")
            ELSE [verdict |-> IF shown THEN "PLANNED" ELSE "WRITTEN",
                  experiments |-> BuildPlan(contract), shortlist |-> <<>>]
<1>1. PICK plan : plan = BuildPlan(contract)
  OBVIOUS
<1>2. PICK shown : shown = (\A i \in DOMAIN plan : Null \notin {plan[i].input, plan[i].output})
  OBVIOUS
<1>3. WorkloadAnswer[name] =
            IF contract.null THEN Plain("DROPPED")
            ELSE IF ~Valid(contract) THEN Plain("REFUSED")
            ELSE [verdict |-> IF shown THEN "PLANNED" ELSE "WRITTEN",
                  experiments |-> BuildPlan(contract), shortlist |-> <<>>]
  BY <1>1, <1>2 DEF WorkloadAnswer
<1>4. QED
  BY <1>3

LEMMA PlanAnswered ==
  ASSUME LiveInv, NEW c \in Client, answer[c] # None, ask[c].kind \in {"plan", "capacity"}
  PROVE  /\ ask[c].kind = "plan" => Contracts[ask[c].contract] \in Contract
         /\ ask[c].kind = "capacity" => Intakes[ask[c].intake] \in Intake
         /\ answer[c].verdict \in {"PLANNED", "WRITTEN"} =>
              /\ Sensible(c) /\ answer[c].experiments = BuildPlan(Declared(c))
              /\ answer[c].shortlist = IF ask[c].kind = "plan" THEN <<>>
                                       ELSE Shortlist(Candidates(Intakes[ask[c].intake]),
                                                      ShortlistSize(Intakes[ask[c].intake]))
         /\ answer[c].verdict \notin {"PLANNED", "WRITTEN"} => answer[c] \in {Plain("REFUSED"), Plain("DROPPED")}
<1>1. Kept(c) /\ ask[c] \in Requests[c]
  BY DEF LiveInv, Kept, Stage
<1>2. /\ ask[c].kind = "plan" => ask[c].contract \in DOMAIN Contracts
      /\ ask[c].kind = "capacity" => ask[c].intake \in DOMAIN Intakes
  BY <1>1, RequestIs
<1>3. /\ ask[c].kind = "plan" => Contracts[ask[c].contract] \in Contract
      /\ ask[c].kind = "capacity" => Intakes[ask[c].intake] \in Intake
  BY <1>2, LiveAssumption
<1>4. \/ answer[c] \in {Plain("REFUSED"), Plain("DROPPED")}
      \/ ask[c].kind = "capacity" /\ answer[c] = CapacityAnswer[ask[c].intake]
      \/ ask[c].kind = "plan" /\ answer[c] = WorkloadAnswer[ask[c].contract]
  BY <1>1 DEF Kept, AnswerKept, Compares
<1>5. \A what : Plain(what).verdict = what
  BY DEF Plain
<1>6. CASE answer[c] \in {Plain("REFUSED"), Plain("DROPPED")}
  BY <1>3, <1>5, <1>6
<1>7. CASE ask[c].kind = "capacity" /\ answer[c] = CapacityAnswer[ask[c].intake]
  <2>1. PICK intake : intake = Intakes[ask[c].intake]
    OBVIOUS
  <2>2. answer[c] = IF Plannable(intake)
                    THEN [verdict |-> "PLANNED", experiments |-> BuildPlan(Translate(intake)),
                          shortlist |-> Shortlist(Candidates(intake), ShortlistSize(intake))]
                    ELSE Plain("REFUSED")
    BY <1>2, <1>7, <2>1 DEF CapacityAnswer
  <2>3. CASE Plannable(intake)
    BY <1>3, <1>7, <2>1, <2>2, <2>3 DEF Sensible, Declared
  <2>4. CASE ~Plannable(intake)
    BY <1>3, <1>5, <1>7, <2>2, <2>4
  <2>5. QED
    BY <2>3, <2>4
<1>8. CASE ask[c].kind = "plan" /\ answer[c] = WorkloadAnswer[ask[c].contract]
  <2>1. PICK contract : contract = Contracts[ask[c].contract]
    OBVIOUS
  <2>2. PICK shown : answer[c] = IF contract.null THEN Plain("DROPPED")
                                 ELSE IF ~Valid(contract) THEN Plain("REFUSED")
                                 ELSE [verdict |-> IF shown THEN "PLANNED" ELSE "WRITTEN",
                                       experiments |-> BuildPlan(contract), shortlist |-> <<>>]
    BY <1>2, <1>8, <2>1, Programmed
  <2>3. CASE ~contract.null /\ Valid(contract)
    <3>1. /\ answer[c].verdict \in {"PLANNED", "WRITTEN"}
          /\ answer[c].experiments = BuildPlan(contract) /\ answer[c].shortlist = <<>>
      BY <2>2, <2>3
    <3>2. QED
      BY <1>3, <1>8, <2>1, <2>3, <3>1 DEF Sensible, Declared
  <2>4. CASE contract.null \/ ~Valid(contract)
    BY <1>3, <1>5, <1>8, <2>2, <2>4
  <2>5. QED
    BY <2>3, <2>4
<1>9. QED
  BY <1>4, <1>6, <1>7, <1>8

LEMMA Covering == LiveInv => PlanCoversEnvelope
<1> SUFFICES ASSUME LiveInv, NEW c \in Client, answer[c] # None, ask[c].kind \in {"plan", "capacity"}
             PROVE  /\ answer[c].verdict \in {"PLANNED", "WRITTEN"} =>
                         /\ Covers(answer[c].experiments, Declared(c))
                         /\ Given(Declared(c).input.max) /\ Given(Declared(c).output.max) =>
                               Runs(answer[c].experiments, Declared(c))
                    /\ ask[c].kind = "capacity" /\ IntakeOk(Intakes[ask[c].intake]) => Valid(Declared(c))
  BY Zenon DEF PlanCoversEnvelope, Declared
<1>1. ASSUME ask[c].kind = "capacity", IntakeOk(Intakes[ask[c].intake]) PROVE Valid(Declared(c)) /\ Declared(c) \in Contract
  <2>1. Intakes[ask[c].intake] \in Intake /\ ask[c].kind # "plan"
    BY <1>1, PlanAnswered
  <2>2. QED
    BY <1>1, <2>1, TranslateIs DEF Declared
<1>2. ASSUME answer[c].verdict \in {"PLANNED", "WRITTEN"} PROVE Firm(Declared(c)) /\ answer[c].experiments = BuildPlan(Declared(c))
  <2>1. Sensible(c) /\ answer[c].experiments = BuildPlan(Declared(c))
        /\ (ask[c].kind = "plan" => Contracts[ask[c].contract] \in Contract)
    BY <1>2, PlanAnswered
  <2>2. CASE ask[c].kind = "plan"
    BY <2>1, <2>2, ValidIsFirm DEF Sensible, Declared
  <2>3. CASE ask[c].kind = "capacity"
    BY <1>1, <2>1, <2>3, ValidIsFirm DEF Sensible, Plannable
  <2>4. QED
    BY <2>1, <2>2, <2>3
<1>3. QED
  BY <1>1, <1>2, PlanCovers

\* Whatever the contracts and the intakes, what the planner answers covers the contract with
\* each experiment once and within its limits, and an intake that passes validation is
\* translated into a valid contract (PlanCoversEnvelope).
THEOREM PlansCover == Spec => []PlanCoversEnvelope
<1>1. Init => LiveInv
  BY LiveInit
<1>2. LiveInv /\ [Next]_vars => LiveInv'
  BY LiveStep
<1>3. LiveInv => PlanCoversEnvelope
  BY Covering
<1>4. QED
  BY <1>1, <1>2, <1>3, PTL DEF Spec

-----------------------------------------------------------------------------
(* The shortlist of feasible candidates F. *)

Ahead(F) == {xy \in F \X F : Better(xy[1], xy[2])}
Contest(F) == IsFiniteSet(F) /\ StrictOrder(F, Ahead(F)) /\ \A x \in F : x.score \in Int

\* The candidates, each better than those after it.
InOrder(F, e) ==
    /\ e \in Seq(F)
    /\ \A x \in F : \E k \in 1..Len(e) : e[k] = x
    /\ \A i, j \in 1..Len(e) : i < j => Better(e[i], e[j]) /\ e[i] # e[j]

LEMMA BestFirstIs ==
  ASSUME NEW F, Contest(F), NEW e, e = BestFirst(F)
  PROVE  InOrder(F, e) /\ Len(e) = Cardinality(F)
<1> DEFINE R == Ahead(F)
<1>1. IsFiniteSet(F) /\ StrictOrder(F, R)
  BY DEF Contest
<1>2. \A x, y \in F : <<x, y>> \in R <=> Better(x, y)
  BY DEF Ahead
<1> HIDE DEF R
<1>3. \A x \in F : {y \in F : Better(y, x)} = Below(F, R, x)
  BY <1>2 DEF Below
<1>4. e = [k \in 1..Cardinality(F) |-> CHOOSE x \in F : Cardinality({y \in F : Better(y, x)}) = k - 1]
  BY DEF BestFirst
<1>5. e = [k \in 1..Cardinality(F) |-> e[k]]
  BY <1>4
<1>6. ASSUME NEW k \in 1..Cardinality(F), \E x \in F : Cardinality(Below(F, R, x)) = k - 1
      PROVE  e[k] \in F /\ Cardinality(Below(F, R, e[k])) = k - 1
  <2>1. \E x \in F : Cardinality({y \in F : Better(y, x)}) = k - 1
    BY <1>3, <1>6
  <2>2. e[k] = CHOOSE x \in F : Cardinality({y \in F : Better(y, x)}) = k - 1
    BY <1>4
  <2>3. e[k] \in F /\ Cardinality({y \in F : Better(y, e[k])}) = k - 1
    BY <2>1, <2>2, Zenon
  <2>4. QED
    BY <1>3, <2>3
<1>7. Sorts(e, F, R)
  BY <1>5, <1>6 DEF Sorts
<1>8. /\ Cardinality(F) \in Nat /\ e \in [1..Cardinality(F) -> F]
      /\ \A x \in F : \E k \in 1..Cardinality(F) : e[k] = x
      /\ \A i, j \in 1..Cardinality(F) : i < j => <<e[i], e[j]>> \in R /\ e[i] # e[j]
  BY <1>1, <1>7, SortedIs
<1>9. PICK n : n = Cardinality(F)
  OBVIOUS
<1>10. n \in Nat /\ e \in Seq(F) /\ Len(e) = n /\ \A k \in 1..n : e[k] \in F
  BY <1>8, <1>9
<1>11. \A i, j \in 1..n : i < j => Better(e[i], e[j]) /\ e[i] # e[j]
  BY <1>2, <1>8, <1>9, <1>10
<1>12. QED
  BY <1>8, <1>9, <1>10, <1>11 DEF InOrder

\* The best candidate of each model, in order.
OfModels(best, e) == best = Distinct(e, [i \in DOMAIN e |-> e[i].model])
Bests(F, e, best) ==
    /\ best \in Seq(F)
    /\ \A i, j \in 1..Len(best) : i < j => Better(best[i], best[j])
    /\ \A i, j \in 1..Len(best) : i # j => best[i].model # best[j].model
    /\ \A x \in F : \E k \in 1..Len(best) : best[k].model = x.model
    /\ \A k \in 1..Len(best) : \A x \in F : x.model = best[k].model => x = best[k] \/ Better(best[k], x)
    /\ e # <<>> => Len(best) >= 1 /\ best[1] = e[1]

LEMMA BestsAre ==
  ASSUME NEW F, NEW e, InOrder(F, e), NEW best, OfModels(best, e)
  PROVE  Bests(F, e, best)
<1>1. PICK n : n = Len(e)
  OBVIOUS
<1>2. /\ n \in Nat /\ DOMAIN e = 1..n /\ e \in Seq(F) /\ \A i \in 1..n : e[i] \in F
      /\ \A x \in F : \E k \in 1..n : e[k] = x
      /\ \A i, j \in 1..n : i < j => Better(e[i], e[j])
  BY <1>1 DEF InOrder
<1>3. PICK key : key = [i \in 1..n |-> e[i].model]
  OBVIOUS
<1>4. DOMAIN key = 1..n /\ \A i \in 1..n : key[i] = e[i].model
  BY <1>3
<1>5. PICK E : E = Fresh(n, key)
  OBVIOUS
<1>6. PICK s : s = Ascending(E)
  OBVIOUS
<1>7. best = [k \in DOMAIN s |-> e[s[k]]]
  <2>1. {i \in DOMAIN key : \A j \in 1..(i - 1) : key[j] # key[i]} = E
    BY <1>4, <1>5 DEF Fresh
  <2>2. best = Distinct(e, key)
    BY <1>2, <1>3 DEF OfModels
  <2>3. QED
    BY <1>6, <2>1, <2>2 DEF Distinct
<1>8. E \in SUBSET Nat
  BY <1>2, <1>5 DEF Fresh
<1>9. Sorts(s, E, Smaller(E))
  BY <1>6, <1>8, NumbersInOrder
<1>10. PICK m : m = Cardinality(E)
  OBVIOUS
<1>11. /\ m \in Nat /\ s \in [1..m -> 1..n]
       /\ \A i \in 1..n : \E k \in 1..m : key[s[k]] = key[i]
       /\ \A i, j \in 1..m : i < j => s[i] < s[j]
       /\ \A i, j \in 1..m : i # j => key[s[i]] # key[s[j]]
       /\ \A k \in 1..m : \A j \in 1..(s[k] - 1) : key[j] # key[s[k]]
  BY <1>2, <1>5, <1>9, <1>10, FreshIs
<1>12. /\ best \in Seq(F) /\ Len(best) = m
       /\ \A k \in 1..m : s[k] \in 1..n /\ best[k] = e[s[k]] /\ best[k].model = key[s[k]] /\ best[k] \in F
  <2>1. \A k \in 1..m : s[k] \in 1..n /\ best[k] = e[s[k]]
    BY <1>7, <1>11
  <2>2. best = [k \in 1..m |-> best[k]]
    BY <1>7, <1>11
  <2>3. \A k \in 1..m : best[k] \in F
    BY <1>2, <2>1
  <2>4. best \in [1..m -> F]
    BY <2>2, <2>3
  <2>5. best \in Seq(F) /\ Len(best) = m
    BY <1>11, <2>4
  <2>6. QED
    BY <1>4, <2>1, <2>3, <2>5
<1>13. ASSUME NEW i \in 1..m, NEW j \in 1..m, i < j PROVE Better(best[i], best[j])
  <2>1. s[i] < s[j] /\ s[i] \in 1..n /\ s[j] \in 1..n
    BY <1>11, <1>12, <1>13
  <2>2. best[i] = e[s[i]] /\ best[j] = e[s[j]]
    BY <1>12
  <2>3. QED
    BY <1>2, <2>1, <2>2
<1>14. ASSUME NEW i \in 1..m, NEW j \in 1..m, i # j PROVE best[i].model # best[j].model
  <2>1. key[s[i]] # key[s[j]]
    BY <1>11, <1>14
  <2>2. QED
    BY <1>12, <2>1
<1>15. ASSUME NEW x \in F PROVE \E k \in 1..m : best[k].model = x.model
  <2>1. PICK i \in 1..n : e[i] = x
    BY <1>2
  <2>2. PICK k \in 1..m : key[s[k]] = key[i]
    BY <1>11
  <2>3. QED
    BY <1>4, <1>12, <2>1, <2>2
<1>16. ASSUME NEW k \in 1..m, NEW x \in F, x.model = best[k].model PROVE x = best[k] \/ Better(best[k], x)
  <2>1. PICK i \in 1..n : e[i] = x
    BY <1>2
  <2>2. key[i] = key[s[k]]
    BY <1>4, <1>12, <1>16, <2>1
  <2>3. ~(i \in 1..(s[k] - 1))
    BY <1>11, <2>2
  <2>4. s[k] \in 1..n
    BY <1>12
  <2>5. i = s[k] \/ s[k] < i
    BY <1>2, <2>3, <2>4
  <2>6. QED
    BY <1>2, <1>12, <2>1, <2>4, <2>5
<1>17. ASSUME e # <<>> PROVE m >= 1 /\ best[1] = e[1]
  <2>1. n >= 1 /\ 1 \in 1..n
    <3>1. n # 0
      BY <1>1, <1>2, <1>17
    <3>2. QED
      BY <1>2, <3>1
  <2>2. PICK k \in 1..m : key[s[k]] = key[1]
    BY <1>11, <2>1
  <2>3. s[k] \in 1..n /\ ~(1 \in 1..(s[k] - 1))
    BY <1>11, <1>12, <2>2
  <2>4. s[k] = 1
    BY <1>2, <2>3
  <2>5. m >= 1 /\ 1 \in 1..m
    BY <1>11
  <2>6. s[1] \in 1..n /\ (1 < k => s[1] < s[k])
    BY <1>11, <2>5
  <2>7. k = 1
    BY <1>2, <1>11, <2>4, <2>6
  <2>8. QED
    BY <1>12, <2>4, <2>5, <2>7
<1>18. QED
  BY <1>12, <1>13, <1>14, <1>15, <1>16, <1>17 DEF Bests

\* What stands for the best candidate b of its model.
StandsFor(r, b) == r.model = b.model /\ r.status = b.status /\ r.score >= b.score - 1500

LEMMA RepresentativeIs ==
  ASSUME NEW F, Contest(F), NEW e, InOrder(F, e), NEW b \in F, NEW so, NEW r, r = Representative(e, b, so)
  PROVE  /\ r \in F /\ StandsFor(r, b)
         /\ so = <<>> /\ e # <<>> /\ b = e[1] => r = e[1]
<1>1. PICK n : n = Len(e)
  OBVIOUS
<1>2. n \in Nat /\ DOMAIN e = 1..n /\ e \in Seq(F) /\ \A i \in 1..n : e[i] \in F
  BY <1>1 DEF InOrder
<1>3. PICK D : D = {i \in 1..n : /\ e[i].model = b.model /\ Comparable(e[i], b)
                                 /\ e[i].hardware \notin Devices(so)}
  OBVIOUS
<1>4. r = IF D = {} THEN b ELSE e[Min(D)]
  BY <1>2, <1>3 DEF Representative
<1>5. b.score \in Int /\ b.score >= b.score - 1500
  <2>1. b.score \in Int
    BY DEF Contest
  <2>2. QED
    BY <2>1
<1>6. D # {} => Min(D) \in D /\ \A v \in D : Min(D) <= v
  <2>1. D \in SUBSET Nat
    BY <1>2, <1>3
  <2>2. QED
    BY <2>1, MinIs
<1>7. r \in F /\ StandsFor(r, b)
  <2>1. CASE D = {}
    BY <1>4, <1>5, <2>1 DEF StandsFor
  <2>2. CASE D # {}
    <3>1. PICK i \in D : r = e[i]
      BY <1>4, <1>6, <2>2
    <3>2. i \in 1..n /\ e[i].model = b.model /\ Comparable(e[i], b)
      BY <1>3, <3>1
    <3>3. QED
      BY <1>2, <3>1, <3>2 DEF StandsFor, Comparable
  <2>3. QED
    BY <2>1, <2>2
<1>8. ASSUME so = <<>>, e # <<>>, b = e[1] PROVE r = e[1]
  <2>1. n # 0
    BY <1>1, <1>2, <1>8
  <2>2. 1 \in 1..n
    BY <1>2, <2>1
  <2>3. Devices(so) = {}
    BY <1>8 DEF Devices
  <2>4. Comparable(e[1], b)
    BY <1>5, <1>8 DEF Comparable
  <2>5. 1 \in D
    BY <1>3, <1>8, <2>2, <2>3, <2>4
  <2>6. Min(D) \in 1..n /\ Min(D) <= 1
    BY <1>3, <1>6, <2>5
  <2>7. Min(D) = 1
    BY <1>2, <2>6
  <2>8. QED
    BY <1>4, <2>5, <2>7
<1>9. QED
  BY <1>7, <1>8

\* OnePerModel's loop, and Fill's.
Rounds(e, best) ==
    CHOOSE f : f = [k \in 0..Len(best) |->
        IF k = 0 THEN <<>> ELSE LET so == f[k - 1] IN Append(so, Representative(e, best[k], so))]

Filling(e, start, size, mark) ==
    CHOOSE f : f = [k \in 0..Len(e) |->
        IF k = 0 THEN start
        ELSE LET so == f[k - 1] IN
             IF k > 1 /\ Len(so) = size THEN so
             ELSE IF \E i \in DOMAIN so : mark[so[i]] = mark[e[k]] THEN so
             ELSE Append(so, e[k])]

LEMMA RoundsIs ==
  ASSUME NEW e, NEW size, NEW best, OfModels(best, e)
  PROVE  OnePerModel(e, size) = Rounds(e, best)[Min({size, Len(best)})]
<1>1. OnePerModel(e, size) =
        LET all == Distinct(e, [i \in DOMAIN e |-> e[i].model]) IN Rounds(e, all)[Min({size, Len(all)})]
  BY Zenon DEF OnePerModel, Rounds
<1>2. QED
  BY <1>1 DEF OfModels

LEMMA FillingIs ==
  ASSUME NEW e, NEW start, NEW size, NEW mark
  PROVE  Fill(e, start, size, mark) = Filling(e, start, size, mark)[Len(e)]
  BY Zenon DEF Fill, Filling

LEMMA RoundsLoop ==
  ASSUME NEW F, Contest(F), NEW e, InOrder(F, e), NEW best \in Seq(F), NEW f, f = Rounds(e, best)
  PROVE  /\ f[0] = <<>>
         /\ \A k \in 1..Len(best) : f[k] = Append(f[k - 1], Representative(e, best[k], f[k - 1]))
<1>1. PICK m \in Nat : m = Len(best)
  OBVIOUS
<1> DEFINE step == [p \in (1..m) \X Seq(F) |-> Append(p[2], Representative(e, best[p[1]], p[2]))]
           Runs1(g) == g = [k \in 0..m |-> IF k = 0 THEN <<>>
                              ELSE LET so == g[k - 1] IN Append(so, Representative(e, best[k], so))]
<1>2. \A k \in 1..m : best[k] \in F
  BY <1>1
<1>3. ASSUME NEW k \in 1..m, NEW so \in Seq(F) PROVE Append(so, Representative(e, best[k], so)) \in Seq(F)
  <2>1. Representative(e, best[k], so) \in F
    BY <1>2, RepresentativeIs
  <2>2. QED
    BY <2>1
<1>4. Steps(step, m, Seq(F))
  BY <1>3 DEF Steps
<1>5. \A k \in 1..m : \A so \in Seq(F) : step[<<k, so>>] = Append(so, Representative(e, best[k], so))
  OBVIOUS
<1> HIDE DEF step
<1>6. PICK g \in [0..m -> Seq(F)] : g[0] = <<>> /\ \A k \in 1..m : g[k] = step[<<k, g[k - 1]>>]
  <2>1. <<>> \in Seq(F)
    OBVIOUS
  <2>2. QED
    <3>1. PICK g : Loops(g, m, Seq(F), <<>>, step)
      BY <1>4, <2>1, LoopRuns
    <3>2. QED
      BY <3>1 DEF Loops
<1>7. \A k \in 1..m : g[k] = Append(g[k - 1], Representative(e, best[k], g[k - 1]))
  <2>1. \A k \in 1..m : k - 1 \in 0..m
    OBVIOUS
  <2>2. \A k \in 1..m : g[k - 1] \in Seq(F)
    BY <2>1
  <2>3. QED
    BY <1>5, <1>6, <2>2
<1>8. Runs1(g)
  <2>1. \A k \in 0..m : k # 0 => k \in 1..m
    OBVIOUS
  <2>2. \A k \in 0..m : g[k] = IF k = 0 THEN <<>> ELSE Append(g[k - 1], Representative(e, best[k], g[k - 1]))
    BY <1>6, <1>7, <2>1
  <2>3. g = [k \in 0..m |-> g[k]]
    OBVIOUS
  <2>4. QED
    BY <2>2, <2>3
<1>9. f = CHOOSE h : Runs1(h)
  BY <1>1, Zenon DEF Rounds
<1>10. Runs1(f)
  <2> HIDE DEF Runs1
  <2>1. QED
    BY <1>8, <1>9, Zenon
<1>11. f[0] = <<>>
  <2>1. 0 \in 0..m
    OBVIOUS
  <2>2. QED
    BY <1>10, <2>1
<1>12. ASSUME NEW k \in 1..m PROVE f[k] = Append(f[k - 1], Representative(e, best[k], f[k - 1]))
  <2>1. k \in 0..m /\ k # 0
    OBVIOUS
  <2>2. QED
    BY <1>10, <2>1
<1>13. QED
  BY <1>1, <1>11, <1>12

\* After k rounds, one for each of the first k models.
Standing(F, e, best, so, k) ==
    /\ so \in Seq(F) /\ Len(so) = k
    /\ \A i \in 1..k : StandsFor(so[i], best[i])
    /\ k >= 1 => so[1] = e[1]

LEMMA StandingOn ==
  ASSUME NEW F, Contest(F), NEW e, InOrder(F, e), NEW best, Bests(F, e, best),
         NEW k \in 1..Len(best), NEW so, Standing(F, e, best, so, k - 1),
         NEW next, next = Append(so, Representative(e, best[k], so))
  PROVE  Standing(F, e, best, next, k)
<1>1. /\ best \in Seq(F) /\ Len(best) \in Nat /\ best[k] \in F /\ k \in Nat /\ k >= 1
      /\ e # <<>> => best[1] = e[1]
  BY DEF Bests
<1>2. e # <<>>
  <2>1. PICK i \in 1..Len(e) : e[i] = best[k]
    BY <1>1 DEF InOrder
  <2>2. QED
    BY <2>1 DEF InOrder
<1>3. PICK r : r = Representative(e, best[k], so)
  OBVIOUS
<1>4. r \in F /\ StandsFor(r, best[k]) /\ (so = <<>> /\ best[k] = e[1] => r = e[1])
  BY <1>1, <1>2, <1>3, RepresentativeIs
<1>5. so \in Seq(F) /\ Len(so) = k - 1 /\ \A i \in 1..(k - 1) : StandsFor(so[i], best[i])
      /\ (k - 1 >= 1 => so[1] = e[1])
  BY DEF Standing
<1>6. /\ next \in Seq(F) /\ Len(next) = k /\ next[k] = r
      /\ \A i \in 1..(k - 1) : next[i] = so[i]
  BY <1>1, <1>3, <1>4, <1>5
<1>7. \A i \in 1..k : i = k \/ i \in 1..(k - 1)
  BY <1>1
<1>8. next[1] = e[1]
  <2>1. CASE k = 1
    <3>1. so = <<>>
      BY <1>5, <2>1
    <3>2. QED
      BY <1>1, <1>2, <1>4, <1>6, <2>1, <3>1
  <2>2. CASE k # 1
    <3>1. 1 \in 1..(k - 1) /\ k - 1 >= 1
      BY <1>1, <2>2
    <3>2. QED
      BY <1>5, <1>6, <3>1
  <2>3. QED
    BY <2>1, <2>2
<1>9. QED
  BY <1>4, <1>5, <1>6, <1>7, <1>8 DEF Standing

LEMMA RoundsStand ==
  ASSUME NEW F, Contest(F), NEW e, InOrder(F, e), NEW best, Bests(F, e, best), NEW f, f = Rounds(e, best),
         NEW n \in 0..Len(best)
  PROVE  Standing(F, e, best, f[n], n)
<1>1. best \in Seq(F)
  BY DEF Bests
<1>2. PICK m \in Nat : m = Len(best)
  BY <1>1
<1>3. f[0] = <<>> /\ \A k \in 1..m : f[k] = Append(f[k - 1], Representative(e, best[k], f[k - 1]))
  BY <1>1, <1>2, RoundsLoop
<1> DEFINE S == {k \in 0..m : Standing(F, e, best, f[k], k)}
<1>4. 0 \in S
  <2>1. <<>> \in Seq(F) /\ Len(<<>>) = 0 /\ 1..0 = {} /\ ~(0 >= 1)
    OBVIOUS
  <2>2. Standing(F, e, best, <<>>, 0)
    BY <2>1 DEF Standing
  <2>3. 0 \in 0..m
    OBVIOUS
  <2>4. QED
    BY <1>3, <2>2, <2>3
<1>5. ASSUME NEW k \in 1..m, k - 1 \in S PROVE k \in S
  <2>1. Standing(F, e, best, f[k - 1], k - 1)
    BY <1>5
  <2>2. Standing(F, e, best, f[k], k)
    BY <1>2, <1>3, <2>1, StandingOn
  <2>3. k \in 0..m
    OBVIOUS
  <2>4. QED
    BY <2>2, <2>3
<1>6. \A k \in 0..m : k \in S
  <2> HIDE DEF S
  <2>1. QED
    BY <1>4, <1>5, CountUp
<1>7. QED
  BY <1>2, <1>6

-----------------------------------------------------------------------------
(* Filling up. *)

Unlike(so, e, k, mark) == \A i \in DOMAIN so : mark[so[i]] # mark[e[k]]
Filled(so, e, k, size, mark) ==
    IF (k > 1 /\ Len(so) = size) \/ ~Unlike(so, e, k, mark) THEN so ELSE Append(so, e[k])

LEMMA FillLoop ==
  ASSUME NEW F, NEW e \in Seq(F), NEW start \in Seq(F), NEW size, NEW mark,
         NEW f, f = Filling(e, start, size, mark)
  PROVE  /\ f[0] = start
         /\ \A k \in 1..Len(e) : f[k] = Filled(f[k - 1], e, k, size, mark)
<1>1. PICK m \in Nat : m = Len(e)
  OBVIOUS
<1> DEFINE step == [p \in (1..m) \X Seq(F) |-> Filled(p[2], e, p[1], size, mark)]
           Loop(g) == g = [k \in 0..m |->
                 IF k = 0 THEN start
                 ELSE LET so == g[k - 1] IN
                      IF k > 1 /\ Len(so) = size THEN so
                      ELSE IF \E i \in DOMAIN so : mark[so[i]] = mark[e[k]] THEN so
                      ELSE Append(so, e[k])]
<1>2. \A k \in 1..m : \A so :
        Filled(so, e, k, size, mark) = IF k > 1 /\ Len(so) = size THEN so
                                      ELSE IF \E i \in DOMAIN so : mark[so[i]] = mark[e[k]] THEN so
                                      ELSE Append(so, e[k])
  BY DEF Filled, Unlike
<1>3. ASSUME NEW k \in 1..m, NEW so \in Seq(F) PROVE Filled(so, e, k, size, mark) \in Seq(F)
  <2>1. e[k] \in F
    BY <1>1
  <2>2. Append(so, e[k]) \in Seq(F)
    BY <2>1
  <2>3. QED
    BY <2>2 DEF Filled
<1>4. Steps(step, m, Seq(F))
  BY <1>3 DEF Steps
<1>5. \A k \in 1..m : \A so \in Seq(F) : step[<<k, so>>] = Filled(so, e, k, size, mark)
  OBVIOUS
<1> HIDE DEF step
<1>6. PICK g : Loops(g, m, Seq(F), start, step)
  BY <1>4, LoopRuns
<1>7. \A k \in 1..m : g[k] = Filled(g[k - 1], e, k, size, mark)
  <2>1. \A k \in 1..m : k - 1 \in 0..m
    OBVIOUS
  <2>2. \A k \in 1..m : g[k - 1] \in Seq(F)
    BY <1>6, <2>1 DEF Loops
  <2>3. QED
    BY <1>5, <1>6, <2>2 DEF Loops
<1>8. Loop(g)
  <2>1. \A k \in 0..m : k # 0 => k \in 1..m
    OBVIOUS
  <2>2. g[0] = start /\ g = [k \in 0..m |-> g[k]]
    BY <1>6 DEF Loops
  <2>3. \A k \in 0..m : g[k] = IF k = 0 THEN start
                 ELSE IF k > 1 /\ Len(g[k - 1]) = size THEN g[k - 1]
                      ELSE IF \E i \in DOMAIN g[k - 1] : mark[g[k - 1][i]] = mark[e[k]] THEN g[k - 1]
                      ELSE Append(g[k - 1], e[k])
    BY <1>2, <1>7, <2>1, <2>2
  <2>4. QED
    BY <2>2, <2>3
<1>9. f = CHOOSE h : Loop(h)
  BY <1>1, Zenon DEF Filling
<1>10. Loop(f)
  <2> HIDE DEF Loop
  <2>1. QED
    BY <1>8, <1>9, Zenon
<1>11. f[0] = start
  <2>1. 0 \in 0..m
    OBVIOUS
  <2>2. QED
    BY <1>10, <2>1
<1>12. ASSUME NEW k \in 1..m PROVE f[k] = Filled(f[k - 1], e, k, size, mark)
  <2>1. k \in 0..m /\ k # 0
    OBVIOUS
  <2>2. f[k] = IF k > 1 /\ Len(f[k - 1]) = size THEN f[k - 1]
                      ELSE IF \E i \in DOMAIN f[k - 1] : mark[f[k - 1][i]] = mark[e[k]] THEN f[k - 1]
                      ELSE Append(f[k - 1], e[k])
    BY <1>10, <2>1
  <2>3. QED
    BY <1>2, <2>2
<1>13. QED
  BY <1>1, <1>11, <1>12

\* A list filled up from one that is not longer than wanted.
Grown(F, start, so, size) ==
    /\ so \in Seq(F) /\ Len(start) <= Len(so) /\ Len(so) <= size
    /\ \A i \in 1..Len(start) : so[i] = start[i]
    /\ \A i, j \in 1..Len(so) : i # j => so[i] # so[j]

\* It begins with the best candidate.
Begun(F, e, start, size) ==
    /\ e \in Seq(F) /\ size \in Nat
    /\ Grown(F, start, start, size) /\ (e # <<>> => Len(start) >= 1 /\ start[1] = e[1])

\* It has one with the mark of the k-th candidate.
Marked(so, e, k, mark) == \E i \in 1..Len(so) : mark[so[i]] = mark[e[k]]

\* The next list is the same, or has one candidate more, unlike those there are.
Extended(so, e, k, mark, next) ==
    next # so => /\ Len(next) = Len(so) + 1 /\ next[Len(so) + 1] = e[k]
                 /\ \A i \in 1..Len(so) : mark[so[i]] # mark[e[k]]

LEMMA GrownOn ==
  ASSUME NEW F, NEW e, NEW start, NEW size, Begun(F, e, start, size), NEW mark,
         NEW k \in 1..Len(e), NEW so, Grown(F, start, so, size),
         NEW next, next = Filled(so, e, k, size, mark)
  PROVE  /\ Grown(F, start, next, size)
         /\ \A i \in 1..Len(so) : i \in 1..Len(next) /\ next[i] = so[i]
         /\ Len(so) = size => next = so
         /\ Len(so) # size => Marked(next, e, k, mark)
         /\ Extended(so, e, k, mark, next)
<1>1. /\ e \in Seq(F) /\ size \in Nat /\ start \in Seq(F)
      /\ e # <<>> => Len(start) >= 1 /\ start[1] = e[1]
  BY DEF Begun, Grown
<1>2. /\ so \in Seq(F) /\ Len(start) <= Len(so) /\ Len(so) <= size
      /\ \A i \in 1..Len(start) : so[i] = start[i]
      /\ \A i, j \in 1..Len(so) : i # j => so[i] # so[j]
  BY DEF Grown
<1>3. PICK l \in Nat, p \in Nat : l = Len(so) /\ p = Len(start)
  BY <1>1, <1>2
<1>4. k \in Nat /\ k >= 1 /\ e[k] \in F /\ e # <<>>
  BY <1>1
<1>5. p >= 1 /\ l >= 1 /\ 1 \in 1..l /\ so[1] = e[1]
  <2>1. p >= 1 /\ start[1] = e[1] /\ l >= p
    BY <1>1, <1>2, <1>3, <1>4
  <2>2. 1 \in 1..p /\ 1 \in 1..l
    BY <2>1
  <2>3. QED
    BY <1>2, <1>3, <2>1, <2>2
<1>6. DOMAIN so = 1..l
  BY <1>2, <1>3
<1>7. CASE next = so
  <2>1. Len(so) # size => ~Unlike(so, e, k, mark)
    <3>1. ASSUME Len(so) # size, Unlike(so, e, k, mark) PROVE FALSE
      <4>1. Append(so, e[k]) = so
        BY <1>7, <3>1 DEF Filled
      <4>2. Len(Append(so, e[k])) = l + 1
        BY <1>2, <1>3, <1>4
      <4>3. QED
        BY <1>3, <4>1, <4>2
    <3>2. QED
      BY <3>1, Zenon
  <2>2. Len(so) # size => Marked(so, e, k, mark)
    BY <1>3, <1>6, <2>1 DEF Unlike, Marked
  <2>3. QED
    BY <1>3, <1>7, <2>2 DEF Extended
<1>8. CASE next # so
  <2>1. next = Append(so, e[k]) /\ Unlike(so, e, k, mark) /\ ~(k > 1 /\ l = size)
    BY <1>3, <1>8 DEF Filled
  <2>2. \A i \in 1..l : mark[so[i]] # mark[e[k]]
    BY <1>6, <2>1 DEF Unlike
  <2>3. k # 1
    BY <1>5, <2>2
  <2>4. l # size /\ l + 1 <= size
    BY <1>1, <1>2, <1>3, <1>4, <2>1, <2>3
  <2>5. /\ next \in Seq(F) /\ Len(next) = l + 1 /\ next[l + 1] = e[k]
        /\ \A i \in 1..l : next[i] = so[i] /\ i \in 1..(l + 1)
    BY <1>2, <1>3, <1>4, <2>1
  <2>6. \A i \in 1..(l + 1) : i = l + 1 \/ i \in 1..l
    BY <1>3
  <2>7. ASSUME NEW i \in 1..(l + 1), NEW j \in 1..(l + 1), i # j PROVE next[i] # next[j]
    <3>1. CASE i \in 1..l /\ j \in 1..l
      BY <1>2, <1>3, <2>5, <2>7, <3>1
    <3>2. CASE i = l + 1 /\ j \in 1..l
      BY <2>2, <2>5, <3>2
    <3>3. CASE j = l + 1 /\ i \in 1..l
      BY <2>2, <2>5, <3>3
    <3>4. QED
      BY <2>6, <2>7, <3>1, <3>2, <3>3
  <2>8. \A i \in 1..p : next[i] = start[i]
    <3>1. \A i \in 1..p : i \in 1..l
      BY <1>2, <1>3
    <3>2. QED
      BY <1>2, <1>3, <2>5, <3>1
  <2>9. Grown(F, start, next, size)
    <3>1. p <= l + 1
      BY <1>2, <1>3
    <3>2. QED
      BY <1>3, <2>4, <2>5, <2>7, <2>8, <3>1 DEF Grown
  <2>10. l + 1 \in 1..Len(next) /\ mark[next[l + 1]] = mark[e[k]]
    BY <1>3, <2>5
  <2>11. \A i \in 1..Len(so) : i \in 1..Len(next) /\ next[i] = so[i]
    BY <1>3, <2>5
  <2>12. Len(so) # size
    BY <1>3, <2>4
  <2>13. Marked(next, e, k, mark)
    BY <2>10 DEF Marked
  <2>14. /\ Len(next) = Len(so) + 1 /\ next[Len(so) + 1] = e[k]
         /\ \A i \in 1..Len(so) : mark[so[i]] # mark[e[k]]
    BY <1>3, <2>2, <2>5
  <2>15. QED
    BY <2>9, <2>11, <2>12, <2>13, <2>14 DEF Extended
<1>9. QED
  BY <1>7, <1>8

\* The i-th of the list is the first candidate whose mark the list before it did not have.
DueBy(e, so, i, mark, p) ==
    /\ so[i] = e[p] /\ \A j \in 1..(i - 1) : mark[so[j]] # mark[e[p]]
    /\ \A q \in 1..(p - 1) : \E j \in 1..(i - 1) : mark[so[j]] = mark[e[q]]
Due(e, so, i, mark) == \E p \in 1..Len(e) : DueBy(e, so, i, mark, p)
AllDue(e, start, so, mark) == \A i \in 1..Len(so) : i > Len(start) => Due(e, so, i, mark)

LEMMA DueStays ==
  ASSUME NEW e, NEW mark, NEW so, NEW i \in Nat, Due(e, so, i, mark), i >= 1,
         NEW next, \A j \in 1..i : next[j] = so[j]
  PROVE  Due(e, next, i, mark)
<1>1. PICK p \in 1..Len(e) : DueBy(e, so, i, mark, p)
  BY DEF Due
<1>2. \A j \in 1..(i - 1) : next[j] = so[j]
  OBVIOUS
<1>3. next[i] = so[i]
  OBVIOUS
<1>4. DueBy(e, next, i, mark, p)
  BY <1>1, <1>2, <1>3 DEF DueBy
<1>5. QED
  BY <1>4 DEF Due

LEMMA DueOn ==
  ASSUME NEW F, NEW e \in Seq(F), NEW start \in Seq(F), NEW so \in Seq(F), NEW next, NEW mark,
         NEW k \in 1..Len(e), AllDue(e, start, so, mark),
         Len(start) <= Len(so), Len(next) = Len(so) + 1, next[Len(so) + 1] = e[k],
         \A i \in 1..Len(so) : next[i] = so[i] /\ mark[so[i]] # mark[e[k]],
         \A q \in 1..(k - 1) : Marked(so, e, q, mark)
  PROVE  AllDue(e, start, next, mark)
<1>1. PICK l \in Nat, a \in Nat : l = Len(so) /\ a = Len(start)
  OBVIOUS
<1>2. ASSUME NEW i \in 1..l, i > a PROVE Due(e, next, i, mark)
  <2>1. Due(e, so, i, mark) /\ i \in Nat /\ i >= 1
    BY <1>1, <1>2 DEF AllDue
  <2>2. \A j \in 1..i : j \in 1..l
    BY <1>1, <1>2
  <2>3. \A j \in 1..i : next[j] = so[j]
    BY <1>1, <2>2
  <2>4. QED
    BY <2>1, <2>3, DueStays
<1>3. Due(e, next, l + 1, mark)
  <2>1. \A j \in 1..(l + 1 - 1) : j \in 1..l
    BY <1>1
  <2>2. next[l + 1] = e[k] /\ \A j \in 1..(l + 1 - 1) : mark[next[j]] # mark[e[k]]
    BY <1>1, <2>1
  <2>3. ASSUME NEW q \in 1..(k - 1) PROVE \E j \in 1..(l + 1 - 1) : mark[next[j]] = mark[e[q]]
    <3>1. PICK j \in 1..l : mark[so[j]] = mark[e[q]]
      BY <1>1 DEF Marked
    <3>2. j \in 1..(l + 1 - 1) /\ next[j] = so[j]
      BY <1>1, <3>1
    <3>3. QED
      BY <3>1, <3>2
  <2>4. DueBy(e, next, l + 1, mark, k)
    BY <2>2, <2>3 DEF DueBy
  <2>5. QED
    BY <2>4 DEF Due
<1>4. \A i \in 1..Len(next) : i \in 1..l \/ i = l + 1
  BY <1>1
<1>5. QED
  BY <1>1, <1>2, <1>3, <1>4 DEF AllDue

\* Filled up with each mark, it has the size wanted or a candidate of every mark.
LEMMA FillIs ==
  ASSUME NEW F, NEW e, NEW start, NEW size, Begun(F, e, start, size), NEW mark,
         NEW list, list = Fill(e, start, size, mark)
  PROVE  /\ Grown(F, start, list, size)
         /\ \/ Len(list) = size
            \/ \A k \in 1..Len(e) : Marked(list, e, k, mark)
         /\ AllDue(e, start, list, mark)
<1>1. e \in Seq(F) /\ start \in Seq(F) /\ Grown(F, start, start, size)
  BY DEF Begun, Grown
<1>2. PICK n \in Nat : n = Len(e)
  BY <1>1
<1>3. PICK f : f = Filling(e, start, size, mark)
  OBVIOUS
<1>4. f[0] = start /\ \A k \in 1..n : f[k] = Filled(f[k - 1], e, k, size, mark)
  BY <1>1, <1>2, <1>3, FillLoop
<1> DEFINE Has(so, k) == Marked(so, e, k, mark)
           Stands(so, k) == /\ Grown(F, start, so, size)
                            /\ Len(so) = size \/ \A l \in 1..k : Has(so, l)
                            /\ AllDue(e, start, so, mark)
           S == {k \in 0..n : Stands(f[k], k)}
<1>5. 0 \in S
  <2>1. 1..0 = {} /\ 0 \in 0..n
    OBVIOUS
  <2>2. AllDue(e, start, start, mark)
    <3>1. Len(start) \in Nat
      BY <1>1
    <3>2. QED
      BY <3>1 DEF AllDue
  <2>3. Stands(start, 0)
    BY <1>1, <2>1, <2>2
  <2> HIDE DEF Stands
  <2>4. QED
    BY <1>4, <2>1, <2>3
<1>6. ASSUME NEW k \in 1..n, k - 1 \in S PROVE k \in S
  <2>1. PICK so : so = f[k - 1]
    OBVIOUS
  <2>2. PICK next : next = f[k]
    OBVIOUS
  <2>3. /\ Grown(F, start, so, size) /\ (Len(so) = size \/ \A l \in 1..(k - 1) : Has(so, l))
        /\ AllDue(e, start, so, mark)
    BY <1>6, <2>1
  <2>4. next = Filled(so, e, k, size, mark)
    BY <1>4, <2>1, <2>2
  <2>5. /\ Grown(F, start, next, size)
        /\ \A i \in 1..Len(so) : i \in 1..Len(next) /\ next[i] = so[i]
        /\ Len(so) = size => next = so
        /\ Len(so) # size => Has(next, k)
        /\ Extended(so, e, k, mark, next)
    <3>1. k \in 1..Len(e) /\ Grown(F, start, so, size)
      BY <1>2, <2>3
    <3>2. /\ Grown(F, start, next, size)
          /\ \A i \in 1..Len(so) : i \in 1..Len(next) /\ next[i] = so[i]
      BY <2>4, <3>1, GrownOn
    <3>3. /\ Len(so) = size => next = so
          /\ Len(so) # size => Marked(next, e, k, mark)
      BY <2>4, <3>1, GrownOn
    <3>4. Extended(so, e, k, mark, next)
      BY <2>4, <3>1, GrownOn
    <3>5. QED
      BY <3>2, <3>3, <3>4
  <2>6. ASSUME Len(next) # size, NEW l \in 1..k PROVE Has(next, l)
    <3>1. Len(so) # size
      BY <2>5, <2>6
    <3>2. l = k \/ l \in 1..(k - 1)
      OBVIOUS
    <3>3. CASE l \in 1..(k - 1)
      <4>1. PICK i \in 1..Len(so) : mark[so[i]] = mark[e[l]]
        BY <2>3, <3>1, <3>3 DEF Marked
      <4>2. QED
        BY <2>5, <4>1 DEF Marked
    <3>4. Has(next, k)
      BY <2>5, <3>1
    <3>5. QED
      BY <3>2, <3>3, <3>4
  <2>7. AllDue(e, start, next, mark)
    <3>1. CASE next = so
      BY <2>3, <3>1
    <3>2. CASE next # so
      <4>1. so \in Seq(F) /\ Len(start) <= Len(so)
        BY <2>3 DEF Grown
      <4>2. \A q \in 1..(k - 1) : Has(so, q)
        BY <2>3, <2>5, <3>2
      <4>3. \A i \in 1..Len(so) : next[i] = so[i] /\ mark[so[i]] # mark[e[k]]
        BY <2>5, <3>2 DEF Extended
      <4>4. Len(next) = Len(so) + 1 /\ next[Len(so) + 1] = e[k] /\ k \in 1..Len(e)
        BY <1>2, <2>5, <3>2 DEF Extended
      <4>5. QED
        BY <1>1, <2>3, <4>1, <4>2, <4>3, <4>4, DueOn
    <3>3. QED
      BY <3>1, <3>2
  <2>8. Stands(next, k)
    BY <2>5, <2>6, <2>7
  <2>9. k \in 0..n
    OBVIOUS
  <2> HIDE DEF Stands
  <2>10. QED
    BY <2>2, <2>8, <2>9
<1>7. Stands(f[n], n)
  <2> HIDE DEF Stands
  <2>1. \A k \in 0..n : k \in S
    <3> HIDE DEF S
    <3>1. QED
      BY <1>5, <1>6, CountUp
  <2>2. n \in 0..n
    OBVIOUS
  <2>3. QED
    BY <2>1, <2>2
<1>8. list = f[n]
  BY <1>2, <1>3, FillingIs
<1>9. QED
  BY <1>2, <1>7, <1>8

\* Who is passed over for the i-th of the list loses to a new model, or to a new device.
NewModel(list, i) == \A j \in 1..(i - 1) : list[j].model # list[i].model
NewDevice(list, i, x) ==
    /\ \A j \in 1..(i - 1) : list[j].hardware # list[i].hardware
    /\ \E j \in 1..(i - 1) : list[j].hardware = x.hardware
Earned(list, F) ==
    \A i \in DOMAIN list : \A x \in F \ ToSet(list) :
        Better(x, list[i]) => NewModel(list, i) \/ NewDevice(list, i, x)

\* What a shortlist of feasible candidates is, given their order and the best of each model.
Listed(F, e, best, size, list) ==
    /\ list \in Seq(F) /\ Len(list) <= size
    /\ \A i, j \in 1..Len(list) : i # j => list[i] # list[j]
    /\ Len(list) = size \/ \A x \in F : \E i \in 1..Len(list) : list[i] = x
    /\ e # <<>> => Len(list) >= 1 /\ list[1] = e[1]
    /\ \A i \in 1..Len(best) : i <= size => i <= Len(list) /\ StandsFor(list[i], best[i])
    /\ size <= Len(best) => \A i \in 1..Len(list) : i <= Len(best) /\ list[i].model = best[i].model
    /\ Earned(list, F)

LEMMA ModelsBegin ==
  ASSUME NEW F, Contest(F), NEW e, InOrder(F, e), NEW best, Bests(F, e, best), NEW size \in Nat \ {0},
         OfModels(best, e), NEW models, models = OnePerModel(e, size)
  PROVE  /\ Begun(F, e, models, size)
         /\ Len(models) <= Len(best) /\ (Len(models) = size \/ Len(models) = Len(best))
         /\ \A i \in 1..Len(models) : StandsFor(models[i], best[i])
<1>1. best \in Seq(F) /\ e \in Seq(F)
  BY DEF Bests, InOrder
<1>2. PICK m \in Nat : m = Len(best)
  BY <1>1
<1>3. PICK p : p = Min({size, m})
  OBVIOUS
<1>4. p \in {size, m} /\ p <= size /\ p <= m
  <2>1. Pair({size, m}, size, m)
    BY DEF Pair
  <2>2. QED
    BY <1>3, <2>1, OfTwo
<1>5. PICK f : f = Rounds(e, best)
  OBVIOUS
<1>6. models = f[p]
  BY <1>2, <1>3, <1>5, RoundsIs
<1>7. p \in Nat /\ p \in 0..m
  BY <1>4
<1>8. Standing(F, e, best, models, p)
  BY <1>2, <1>5, <1>6, <1>7, RoundsStand
<1>9. /\ models \in Seq(F) /\ Len(models) = p
      /\ \A i \in 1..p : StandsFor(models[i], best[i])
      /\ p >= 1 => models[1] = e[1]
  BY <1>8 DEF Standing
<1>10. ASSUME NEW i \in 1..p, NEW j \in 1..p, i # j PROVE models[i] # models[j]
  <2>1. models[i].model = best[i].model /\ models[j].model = best[j].model
    BY <1>9 DEF StandsFor
  <2>2. i \in 1..m /\ j \in 1..m
    BY <1>4, <1>7
  <2>3. best[i].model # best[j].model
    BY <1>2, <1>10, <2>2 DEF Bests
  <2>4. QED
    BY <2>1, <2>3
<1>11. Grown(F, models, models, size)
  BY <1>4, <1>7, <1>9, <1>10 DEF Grown
<1>12. e # <<>> => p >= 1
  BY <1>2, <1>4 DEF Bests
<1>13. QED
  BY <1>1, <1>2, <1>4, <1>9, <1>11, <1>12 DEF Begun

LEMMA GrownBegins ==
  ASSUME NEW F, NEW e, NEW start, NEW size, Begun(F, e, start, size), NEW so, Grown(F, start, so, size)
  PROVE  Begun(F, e, so, size)
<1>1. /\ e \in Seq(F) /\ size \in Nat /\ start \in Seq(F)
      /\ e # <<>> => Len(start) >= 1 /\ start[1] = e[1]
  BY DEF Begun, Grown
<1>2. /\ so \in Seq(F) /\ Len(start) <= Len(so) /\ Len(so) <= size
      /\ \A i \in 1..Len(start) : so[i] = start[i]
      /\ \A i, j \in 1..Len(so) : i # j => so[i] # so[j]
  BY DEF Grown
<1>3. PICK l \in Nat, p \in Nat : l = Len(so) /\ p = Len(start)
  BY <1>1, <1>2
<1>4. Grown(F, so, so, size)
  BY <1>2, <1>3 DEF Grown
<1>5. ASSUME e # <<>> PROVE Len(so) >= 1 /\ so[1] = e[1]
  <2>1. p >= 1 /\ start[1] = e[1]
    BY <1>1, <1>3, <1>5
  <2>2. 1 \in 1..p /\ l >= 1
    BY <1>2, <1>3, <2>1
  <2>3. QED
    BY <1>2, <1>3, <2>1, <2>2
<1>6. QED
  BY <1>1, <1>4, <1>5 DEF Begun

Itself(F, mark) == \A x \in F : mark[x] = x

LEMMA FilledUp ==
  ASSUME NEW F, NEW e, InOrder(F, e), NEW start, NEW size, Begun(F, e, start, size),
         NEW mark, Itself(F, mark), NEW list, list = Fill(e, start, size, mark)
  PROVE  /\ Grown(F, start, list, size)
         /\ Len(list) = size \/ \A x \in F : \E i \in 1..Len(list) : list[i] = x
         /\ AllDue(e, start, list, mark)
<1>1. /\ Grown(F, start, list, size)
      /\ \/ Len(list) = size
         \/ \A k \in 1..Len(e) : Marked(list, e, k, mark)
      /\ AllDue(e, start, list, mark)
  BY FillIs
<1>2. list \in Seq(F) /\ e \in Seq(F)
  BY <1>1 DEF Grown, InOrder
<1>3. ASSUME Len(list) # size, NEW x \in F PROVE \E i \in 1..Len(list) : list[i] = x
  <2>1. PICK k \in 1..Len(e) : e[k] = x
    BY DEF InOrder
  <2>2. PICK i \in 1..Len(list) : mark[list[i]] = mark[e[k]]
    BY <1>1, <1>3 DEF Marked
  <2>3. list[i] \in F
    BY <1>2
  <2>4. QED
    BY <2>1, <2>2, <2>3 DEF Itself
<1>4. QED
  BY <1>1, <1>3

LEMMA Earlier ==
  ASSUME NEW F, Contest(F), NEW e, InOrder(F, e), NEW p \in 1..Len(e), NEW q \in 1..Len(e),
         Better(e[q], e[p])
  PROVE  q \in 1..(p - 1)
<1>1. e \in Seq(F) /\ e[p] \in F /\ e[q] \in F
  BY DEF InOrder
<1>2. ASSUME p <= q PROVE FALSE
  <2>1. p = q \/ Better(e[p], e[q])
    BY <1>2 DEF InOrder
  <2>2. <<e[q], e[p]>> \in Ahead(F)
    BY <1>1 DEF Ahead
  <2>3. p = q \/ <<e[p], e[q]>> \in Ahead(F)
    BY <1>1, <2>1 DEF Ahead
  <2>4. <<e[p], e[p]>> \in Ahead(F)
    BY <1>1, <2>2, <2>3 DEF Contest, StrictOrder
  <2>5. QED
    BY <1>1, <2>4 DEF Contest, StrictOrder
<1>3. QED
  BY <1>2

\* What is filled up with devices passes over a better candidate for a new device only.
LEMMA DevicesEarned ==
  ASSUME NEW F, Contest(F), NEW e, InOrder(F, e), NEW device, device = [x \in F |-> x.hardware],
         NEW so \in Seq(F), NEW i \in 1..Len(so), Due(e, so, i, device),
         NEW list, \A j \in 1..i : list[j] = so[j], NEW x \in F, Better(x, list[i])
  PROVE  NewDevice(list, i, x)
<1>1. PICK p \in 1..Len(e) :
        /\ so[i] = e[p] /\ \A j \in 1..(i - 1) : device[so[j]] # device[e[p]]
        /\ \A q \in 1..(p - 1) : \E j \in 1..(i - 1) : device[so[j]] = device[e[q]]
  BY DEF Due, DueBy
<1>2. i \in Nat /\ i >= 1 /\ \A j \in 1..(i - 1) : j \in 1..i /\ j \in 1..Len(so)
  OBVIOUS
<1>3. \A j \in 1..(i - 1) : so[j] \in F /\ list[j] = so[j]
  BY <1>2
<1>4. e \in Seq(F)
  BY DEF InOrder
<1>5. list[i] = e[p] /\ e[p] \in F
  BY <1>1, <1>2, <1>4
<1>6. PICK q \in 1..Len(e) : e[q] = x
  BY DEF InOrder
<1>7. q \in 1..(p - 1)
  BY <1>5, <1>6, Earlier
<1>8. PICK j \in 1..(i - 1) : device[so[j]] = device[x]
  BY <1>1, <1>6, <1>7
<1>9. list[j].hardware = x.hardware
  BY <1>3, <1>8
<1>10. \A k \in 1..(i - 1) : list[k].hardware # list[i].hardware
  BY <1>1, <1>3, <1>5
<1>11. QED
  BY <1>9, <1>10 DEF NewDevice

\* What is filled up at the end passes over nobody.
LEMMA RestEarned ==
  ASSUME NEW F, Contest(F), NEW e, InOrder(F, e), NEW mark, Itself(F, mark),
         NEW list \in Seq(F), NEW i \in 1..Len(list), Due(e, list, i, mark),
         NEW x \in F, Better(x, list[i])
  PROVE  x \in ToSet(list)
<1>1. PICK p \in 1..Len(e) :
        /\ list[i] = e[p]
        /\ \A q \in 1..(p - 1) : \E j \in 1..(i - 1) : mark[list[j]] = mark[e[q]]
  BY DEF Due, DueBy
<1>2. PICK q \in 1..Len(e) : e[q] = x
  BY DEF InOrder
<1>3. q \in 1..(p - 1)
  BY <1>1, <1>2, Earlier
<1>4. PICK j \in 1..(i - 1) : mark[list[j]] = mark[x]
  BY <1>1, <1>2, <1>3
<1>5. j \in DOMAIN list /\ list[j] \in F
  OBVIOUS
<1>6. list[j] = x
  BY <1>4, <1>5 DEF Itself
<1>7. QED
  BY <1>5, <1>6 DEF ToSet

\* A list of candidates in order e, as _shortlist goes on from there.
TakenFrom(F, e, size, list) ==
    LET models == OnePerModel(e, size)
        diverse == Fill(e, models, size, [x \in F |-> x.hardware])
    IN list = IF Len(models) = size THEN models ELSE Fill(e, diverse, size, [x \in F |-> x])

LEMMA TakenIs ==
  ASSUME NEW F, Contest(F), NEW e, InOrder(F, e), NEW best, Bests(F, e, best), OfModels(best, e),
         NEW size \in Nat \ {0}, NEW list, TakenFrom(F, e, size, list)
  PROVE  Listed(F, e, best, size, list)
<1>1. PICK models : models = OnePerModel(e, size)
  OBVIOUS
<1>2. PICK device : device = [x \in F |-> x.hardware]
  OBVIOUS
<1>3. PICK diverse : diverse = Fill(e, models, size, device)
  OBVIOUS
<1>4. PICK mark : mark = [x \in F |-> x]
  OBVIOUS
<1>5. list = IF Len(models) = size THEN models ELSE Fill(e, diverse, size, mark)
  BY <1>1, <1>2, <1>3, <1>4 DEF TakenFrom
<1>6. /\ Begun(F, e, models, size)
      /\ Len(models) <= Len(best) /\ (Len(models) = size \/ Len(models) = Len(best))
      /\ \A i \in 1..Len(models) : StandsFor(models[i], best[i])
  BY <1>1, ModelsBegin
<1>7. Grown(F, models, diverse, size) /\ AllDue(e, models, diverse, device)
  BY <1>3, <1>6, FillIs
<1>8. Begun(F, e, diverse, size)
  BY <1>6, <1>7, GrownBegins
<1>9. /\ Grown(F, models, list, size) /\ Begun(F, e, list, size)
      /\ Len(list) = size \/ \A x \in F : \E i \in 1..Len(list) : list[i] = x
  <2>1. CASE Len(models) = size
    BY <1>5, <1>6, <2>1 DEF Begun
  <2>2. CASE Len(models) # size
    <3>1. list = Fill(e, diverse, size, mark) /\ Itself(F, mark)
      BY <1>4, <1>5, <2>2 DEF Itself
    <3>2. /\ Grown(F, diverse, list, size)
          /\ Len(list) = size \/ \A x \in F : \E i \in 1..Len(list) : list[i] = x
      BY <1>8, <3>1, FilledUp
    <3>3. Begun(F, e, list, size)
      BY <1>8, <3>2, GrownBegins
    <3>4. Grown(F, models, list, size)
      <4>1. /\ Len(models) <= Len(diverse) /\ Len(diverse) <= Len(list)
            /\ \A i \in 1..Len(models) : diverse[i] = models[i]
            /\ \A i \in 1..Len(diverse) : list[i] = diverse[i]
            /\ diverse \in Seq(F) /\ list \in Seq(F)
        BY <1>7, <3>2 DEF Grown
      <4>2. models \in Seq(F)
        BY <1>6 DEF Begun, Grown
      <4>3. PICK a \in Nat, b \in Nat, c \in Nat : a = Len(models) /\ b = Len(diverse) /\ c = Len(list)
        BY <4>1, <4>2
      <4>4. a <= b /\ b <= c /\ \A i \in 1..a : i \in 1..b
        BY <4>1, <4>3
      <4>5. \A i \in 1..a : list[i] = models[i]
        BY <4>1, <4>3, <4>4
      <4>6. a <= c
        BY <4>4
      <4>7. QED
        BY <3>2, <4>3, <4>5, <4>6 DEF Grown
    <3>5. QED
      BY <3>2, <3>3, <3>4
  <2>3. QED
    BY <2>1, <2>2
<1>10. /\ list \in Seq(F) /\ Len(list) <= size
       /\ \A i, j \in 1..Len(list) : i # j => list[i] # list[j]
       /\ e # <<>> => Len(list) >= 1 /\ list[1] = e[1]
  BY <1>9 DEF Begun, Grown
<1>11. PICK a \in Nat, c \in Nat, m \in Nat : a = Len(models) /\ c = Len(list) /\ m = Len(best)
  <2>1. models \in Seq(F) /\ best \in Seq(F)
    BY <1>6 DEF Begun, Grown, Bests
  <2>2. Len(models) \in Nat /\ Len(best) \in Nat /\ Len(list) \in Nat
    BY <1>10, <2>1
  <2>3. QED
    BY <2>2
<1>12. a <= c /\ \A i \in 1..a : list[i] = models[i]
  BY <1>9, <1>11 DEF Grown
<1>13. ASSUME NEW i \in 1..m, i <= size PROVE i <= c /\ StandsFor(list[i], best[i])
  <2>1. i \in 1..a
    BY <1>6, <1>11, <1>13
  <2>2. QED
    BY <1>6, <1>11, <1>12, <2>1
<1>14. ASSUME size <= m, NEW i \in 1..c PROVE i <= m /\ list[i].model = best[i].model
  <2>1. i <= size /\ i \in 1..m
    BY <1>10, <1>11, <1>14
  <2>2. QED
    BY <1>13, <2>1 DEF StandsFor
<1>15. ASSUME NEW i \in 1..a PROVE NewModel(list, i)
  <2>1. \A j \in 1..i : j \in 1..a /\ j \in 1..m
    BY <1>6, <1>11
  <2>2. \A j \in 1..i : list[j].model = best[j].model
    BY <1>6, <1>11, <1>12, <2>1 DEF StandsFor
  <2>3. ASSUME NEW j \in 1..(i - 1) PROVE list[j].model # list[i].model
    <3>1. j \in 1..i /\ i \in 1..i /\ j # i
      OBVIOUS
    <3>2. best[j].model # best[i].model
      BY <1>11, <2>1, <3>1 DEF Bests
    <3>3. QED
      BY <2>2, <3>1, <3>2
  <2>4. QED
    BY <2>3 DEF NewModel
<1>16. ASSUME NEW i \in 1..c, NEW x \in F \ ToSet(list), Better(x, list[i])
       PROVE  NewModel(list, i) \/ NewDevice(list, i, x)
  <2>1. CASE i <= a
    BY <1>15, <2>1
  <2>2. CASE i > a
    <3>1. Len(models) # size
      BY <1>5, <1>11, <2>2
    <3>2. list = Fill(e, diverse, size, mark) /\ Itself(F, mark)
      BY <1>4, <1>5, <3>1 DEF Itself
    <3>3. Grown(F, diverse, list, size) /\ AllDue(e, diverse, list, mark)
      BY <1>8, <3>2, FilledUp
    <3>4. /\ diverse \in Seq(F) /\ \A j \in 1..Len(diverse) : list[j] = diverse[j]
      BY <1>7, <3>3 DEF Grown
    <3>5. PICK b \in Nat : b = Len(diverse)
      BY <3>4
    <3>6. CASE i <= b
      <4>1. Due(e, diverse, i, device) /\ i \in 1..Len(diverse)
        BY <1>7, <1>11, <2>2, <3>5, <3>6 DEF AllDue
      <4>2. \A j \in 1..i : list[j] = diverse[j]
        <5>1. \A j \in 1..i : j \in 1..b
          BY <3>6
        <5>2. QED
          BY <3>4, <3>5, <5>1
      <4>3. NewDevice(list, i, x)
        BY <1>2, <1>16, <3>4, <4>1, <4>2, DevicesEarned
      <4>4. QED
        BY <4>3
    <3>7. CASE i > b
      <4>1. Due(e, list, i, mark) /\ i \in 1..Len(list)
        BY <1>11, <3>3, <3>5, <3>7 DEF AllDue
      <4>2. x \in ToSet(list)
        BY <1>10, <1>16, <3>2, <4>1, RestEarned
      <4>3. QED
        BY <1>16, <4>2
    <3>8. QED
      BY <3>6, <3>7
  <2>3. QED
    BY <2>1, <2>2
<1>17. Earned(list, F)
  <2>1. DOMAIN list = 1..c
    BY <1>10, <1>11
  <2>2. QED
    BY <1>16, <2>1 DEF Earned
<1>18. QED
  BY <1>9, <1>10, <1>11, <1>13, <1>14, <1>17 DEF Listed

Feasible(C) == {x \in C : x.status # "NOT_FEASIBLE"}

LEMMA ShortlistIs ==
  ASSUME NEW C, NEW F, F = Feasible(C), Contest(F), NEW size \in Nat \ {0}, NEW list, list = Shortlist(C, size)
  PROVE  /\ Cardinality(F) \in Nat
         /\ \E e, best : InOrder(F, e) /\ Len(e) = Cardinality(F) /\ Bests(F, e, best) /\ Listed(F, e, best, size, list)
<1>1. PICK e : e = BestFirst(F)
  OBVIOUS
<1>2. PICK best : OfModels(best, e)
  BY DEF OfModels
<1>3. InOrder(F, e) /\ Len(e) = Cardinality(F)
  BY <1>1, BestFirstIs
<1>4. Bests(F, e, best)
  BY <1>2, <1>3, BestsAre
<1>5. TakenFrom(F, e, size, list)
  <2>1. TakenFrom(Feasible(C), BestFirst(Feasible(C)), size, Shortlist(C, size))
    BY Zenon DEF TakenFrom, Shortlist, Feasible
  <2>2. QED
    BY <1>1, <2>1
<1>6. Listed(F, e, best, size, list)
  BY <1>2, <1>3, <1>4, <1>5, TakenIs
<1>7. Cardinality(F) \in Nat
  BY FS_CardinalityType DEF Contest
<1>8. QED
  BY <1>3, <1>4, <1>6, <1>7

-----------------------------------------------------------------------------
(* The candidates of an intake. *)

Larger(a, b) == Max({a, b})
Smallest(a, b) == Min({a, b})

LEMMA LargerIs ==
  ASSUME NEW a \in Int, NEW b \in Int
  PROVE  /\ Larger(a, b) \in Int /\ Larger(a, b) >= a /\ Larger(a, b) >= b
         /\ Smallest(a, b) \in Int
<1>1. Pair({a, b}, a, b)
  BY DEF Pair
<1>2. Max({a, b}) \in {a, b} /\ Max({a, b}) >= a /\ Max({a, b}) >= b /\ Min({a, b}) \in {a, b}
  BY <1>1, OfTwo
<1>3. QED
  BY <1>2 DEF Larger, Smallest

LEMMA Limited ==
  ASSUME NEW a \in Int
  PROVE  /\ Larger(a, 1) \in Int /\ Larger(a, 1) > 0
         /\ Larger(a, 100) \in Int /\ Larger(a, 100) > 0
         /\ Larger(a, 1000) \in Int /\ Larger(a, 1000) > 0
         /\ Larger(-5000, a) \in Int /\ Smallest(5000, a) \in Int
<1>1. 1 \in Int /\ 100 \in Int /\ 1000 \in Int /\ -5000 \in Int /\ 5000 \in Int
  OBVIOUS
<1>2. /\ Larger(a, 1) \in Int /\ Larger(a, 1) >= 1
      /\ Larger(a, 100) \in Int /\ Larger(a, 100) >= 100
      /\ Larger(a, 1000) \in Int /\ Larger(a, 1000) >= 1000
  BY <1>1, LargerIs
<1>3. Larger(-5000, a) \in Int
  BY <1>1, LargerIs
<1>4. Smallest(5000, a) \in Int
  BY <1>1, LargerIs
<1>5. QED
  BY <1>2, <1>3, <1>4

LEMMA Quotients ==
  ASSUME NEW a \in Int, NEW b \in Int
  PROVE  a * b \in Int /\ (b > 0 => a \div b \in Int) /\ (a >= 0 /\ b >= 0 => a * b >= 0)
         /\ (a >= 0 /\ b > 0 => a \div b >= 0)
  OBVIOUS

\* What a catalog and a contract give an estimate.
Measures(contract) ==
    /\ contract.input.p95 \in Nat /\ contract.output.p95 \in Nat
    /\ contract.objectives["end_to_end_p95_ms"] \in Nat
    /\ contract.objectives["answer_tokens_per_second_min"] \in Nat \ {0}
    /\ Max(ToSet(contract.users)) \in Nat

LEMMA MemoryIs ==
  ASSUME NEW model \in ModelItem, NEW bits \in Nat, NEW contract, Measures(contract)
  PROVE  MemoryOf(model, bits, contract) \in Int
<1> DEFINE w == (model.parameters * bits * 27) \div 200
           s == (model.perToken * (contract.input.p95 + contract.output.p95) * Max(ToSet(contract.users))) \div 1024
<1>1. MemoryOf(model, bits, contract) = w + s + Larger(4096, (w * 12) \div 100)
  BY Zenon DEF MemoryOf, Larger
<1>2. w \in Int
  <2>1. PICK p \in Nat : p = model.parameters
    BY DEF ModelItem
  <2>2. p * bits \in Int
    BY Quotients
  <2>3. QED
    BY <2>1, <2>2
<1>3. s \in Int
  <2>1. PICK u \in Nat : u = Max(ToSet(contract.users))
    BY DEF Measures
  <2>2. PICK t \in Nat : t = contract.input.p95 + contract.output.p95
    BY DEF Measures
  <2>3. PICK k \in Nat : k = model.perToken
    BY DEF ModelItem
  <2>4. k * t \in Int
    BY Quotients
  <2>5. k * t * u \in Int
    BY <2>4, Quotients
  <2>6. QED
    BY <2>1, <2>2, <2>3, <2>5
<1> HIDE DEF w, s
<1>4. (w * 12) \div 100 \in Int
  BY <1>2
<1>5. Larger(4096, (w * 12) \div 100) \in Int
  BY <1>4, LargerIs
<1>6. QED
  BY <1>1, <1>2, <1>3, <1>5

LEMMA ElementIs ==
  ASSUME NEW S, NEW s \in Seq(S), NEW u \in DOMAIN s
  PROVE  s[u] \in S
  OBVIOUS

LEMMA ProjectedIs ==
  ASSUME NEW hardware \in HardwareItem, NEW single \in Nat, NEW contract, Measures(contract),
         NEW u, u = Max(ToSet(contract.users)),
         u \in DOMAIN hardware.keepDecode, u \in DOMAIN hardware.keepPrefill
  PROVE  /\ Projected(hardware, single, contract).e2e \in Int
         /\ Projected(hardware, single, contract).rate \in Int
<1> DEFINE rate == (single * hardware.keepDecode[Max(ToSet(contract.users))]) \div 100
           prefill == (single * hardware.multiplier * hardware.keepPrefill[Max(ToSet(contract.users))]) \div 100
           ttfa == hardware.latency + (contract.input.p95 * 1000000) \div Larger(prefill, 1000)
           more == (contract.output.p95 * 1000000) \div Larger(rate, 100)
<1>1. Projected(hardware, single, contract) = [ttfa |-> ttfa, e2e |-> ttfa + more, rate |-> rate]
  BY SMT DEF Projected, Larger
<1>2. /\ hardware.keepDecode \in Seq(1..100) /\ hardware.keepPrefill \in Seq(1..100)
      /\ hardware.multiplier \in Nat /\ hardware.latency \in Nat
  BY DEF HardwareItem
<1>3. hardware.keepDecode[u] \in Nat /\ hardware.keepPrefill[u] \in Nat
  <2>1. hardware.keepDecode[u] \in 1..100 /\ hardware.keepPrefill[u] \in 1..100
    BY Zenon, <1>2, ElementIs
  <2>2. QED
    BY <2>1
<1>4. rate \in Int
  <2>1. single * hardware.keepDecode[u] \in Int
    BY <1>3, Quotients
  <2>2. QED
    BY <2>1
<1>5. prefill \in Int
  <2>1. single * hardware.multiplier \in Int
    BY <1>2, Quotients
  <2>2. single * hardware.multiplier * hardware.keepPrefill[u] \in Int
    BY <1>3, <2>1, Quotients
  <2>3. QED
    BY <2>2
<1>6. contract.input.p95 * 1000000 \in Int /\ contract.output.p95 * 1000000 \in Int
  BY DEF Measures
<1> HIDE DEF rate, prefill
<1>7. Larger(prefill, 1000) \in Int /\ Larger(prefill, 1000) > 0 /\ Larger(rate, 100) \in Int /\ Larger(rate, 100) > 0
  BY <1>4, <1>5, Limited
<1>8. (contract.input.p95 * 1000000) \div Larger(prefill, 1000) \in Int /\ more \in Int
  BY <1>6, <1>7, Quotients
<1>9. ttfa \in Int
  BY <1>2, <1>8
<1> HIDE DEF ttfa, more
<1>10. QED
  BY <1>1, <1>4, <1>8, <1>9

LEMMA PointsAre ==
  ASSUME NEW usable \in Nat \ {0}, NEW spare \in Int, NEW metrics, metrics.e2e \in Int, metrics.rate \in Int,
         NEW contract, Measures(contract)
  PROVE  Points(usable, spare, metrics, contract.objectives) \in Int
<1>1. PICK least \in Nat \ {0} : least = contract.objectives["answer_tokens_per_second_min"]
  BY DEF Measures
<1>2. PICK most \in Nat : most = contract.objectives["end_to_end_p95_ms"]
  BY DEF Measures
<1>3. Larger(metrics.e2e, 1) \in Int /\ Larger(metrics.e2e, 1) > 0
  BY Limited
<1>4. 5000 * spare \in Int /\ 2500 * most \in Int /\ 2500 * metrics.rate \in Int
  OBVIOUS
<1>5. /\ (5000 * spare) \div usable \in Int /\ (2500 * most) \div Larger(metrics.e2e, 1) \in Int
      /\ (2500 * metrics.rate) \div least \in Int
  BY <1>3, <1>4, Quotients
<1>6. /\ Larger(-5000, (5000 * spare) \div usable) \in Int
      /\ Smallest(5000, (2500 * most) \div Larger(metrics.e2e, 1)) \in Int
      /\ Smallest(5000, (2500 * metrics.rate) \div least) \in Int
  BY <1>5, Limited
<1>7. Points(usable, spare, metrics, contract.objectives) =
        Larger(-5000, (5000 * spare) \div usable)
        + Smallest(5000, (2500 * contract.objectives["end_to_end_p95_ms"]) \div Larger(metrics.e2e, 1))
        + Smallest(5000, (2500 * metrics.rate) \div contract.objectives["answer_tokens_per_second_min"])
  BY Zenon DEF Points, Larger, Smallest
<1>8. QED
  BY <1>1, <1>2, <1>6, <1>7

\* A device keeps a share for the users of the intake.
Priced(intake) ==
    \A h \in Device : /\ intake.concurrent \in DOMAIN HardwareItems[h].keepDecode
                      /\ intake.concurrent \in DOMAIN HardwareItems[h].keepPrefill

Candidate(x, h, m, bits) ==
    /\ x.hardware = h /\ x.model = m /\ x.bits = bits
    /\ x \in [hardware : Device, model : Model, bits : Nat, status : Status, score : Int]

LEMMA EstimateIs ==
  ASSUME NEW intake \in Intake, IntakeOk(intake), Priced(intake),
         NEW h \in Device, NEW m \in Model, NEW bits \in Nat, NEW x,
         x = Estimate(h, m, bits, Translate(intake), intake.power)
  PROVE  Candidate(x, h, m, bits)
<1>1. PICK contract : contract = Translate(intake)
  OBVIOUS
<1>2. /\ ToSet(contract.users) = {1, intake.concurrent}
      /\ {contract.input.p95, contract.output.p95} \subseteq Nat
      /\ contract.objectives["end_to_end_p95_ms"] \in Nat
      /\ contract.objectives["answer_tokens_per_second_min"] \in Nat \ {0}
  BY <1>1, TranslateIs
<1>3. Max(ToSet(contract.users)) = intake.concurrent /\ intake.concurrent \in Nat
  <2>1. intake.concurrent \in Int /\ intake.concurrent >= 1
    BY DEF Intake, IntakeOk
  <2>2. Pair(ToSet(contract.users), 1, intake.concurrent)
    BY <1>2, <2>1 DEF Pair
  <2>3. Max(ToSet(contract.users)) \in {1, intake.concurrent} /\ Max(ToSet(contract.users)) >= intake.concurrent
    BY <2>2, OfTwo
  <2>4. QED
    BY <2>1, <2>3
<1>4. Measures(contract)
  BY <1>2, <1>3 DEF Measures
<1>5. PICK hardware \in HardwareItem, model \in ModelItem : hardware = HardwareItems[h] /\ model = ModelItems[m]
  BY CapacityAssumption
<1>6. PICK possible : possible = Possible(hardware, model, bits, contract, intake.power)
  OBVIOUS
<1>7. PICK metrics : metrics = Projected(hardware, SingleUserRate[<<h, m, bits>>], contract)
  OBVIOUS
<1>8. PICK spare : spare = hardware.usable - MemoryOf(model, bits, contract)
  OBVIOUS
<1>9. PICK points : points = Points(hardware.usable, spare, metrics, contract.objectives)
  OBVIOUS
<1>10. ASSUME possible PROVE points \in Int
  <2>1. bits \in model.bits
    BY <1>6, <1>10 DEF Possible
  <2>2. SingleUserRate[<<h, m, bits>>] \in Nat
    BY <1>5, <2>1, CapacityAssumption
  <2>3. metrics.e2e \in Int /\ metrics.rate \in Int
    <3>1. /\ Max(ToSet(contract.users)) \in DOMAIN hardware.keepDecode
          /\ Max(ToSet(contract.users)) \in DOMAIN hardware.keepPrefill
      BY <1>3, <1>5 DEF Priced
    <3>2. QED
      BY <1>4, <1>7, <2>2, <3>1, ProjectedIs
  <2>4. hardware.usable \in Nat \ {0}
    BY DEF HardwareItem
  <2>5. spare \in Int
    BY <1>4, <1>8, <2>4, MemoryIs
  <2>6. QED
    BY <1>4, <1>9, <2>3, <2>4, <2>5, PointsAre
<1>11. /\ x.hardware = h /\ x.model = m /\ x.bits = bits /\ x.status \in Status
       /\ x.score = IF possible THEN points ELSE -100000
       /\ x = [hardware |-> x.hardware, model |-> x.model, bits |-> x.bits, status |-> x.status, score |-> x.score]
  BY SMT, <1>1, <1>5, <1>6, <1>7, <1>8, <1>9 DEF Estimate, Status
<1>12. x.score \in Int
  BY <1>10, <1>11
<1>13. QED
  BY SMT, <1>11, <1>12 DEF Candidate

-----------------------------------------------------------------------------
(* The candidates that are compared. *)

Screened == [hardware : Device, model : Model, bits : Nat, status : Status, score : Int]

\* Where a candidate of an intake comes from.
Comes(x, intake) ==
    /\ x \in Screened
    /\ x.hardware \in ToSet(intake.hardware) /\ x.model \in ToSet(intake.models) /\ x.bits \in ToSet(intake.bits)
    /\ x = Estimate(x.hardware, x.model, x.bits, Translate(intake), intake.power)

LEMMA ExploredAre ==
  ASSUME NEW intake \in Intake, Plannable(intake)
  PROVE  /\ IntakeOk(intake)
         /\ ToSet(intake.hardware) \subseteq Device /\ IsFiniteSet(ToSet(intake.hardware))
         /\ ToSet(intake.models) \subseteq Model /\ IsFiniteSet(ToSet(intake.models))
         /\ ToSet(intake.bits) \subseteq Nat /\ IsFiniteSet(ToSet(intake.bits))
<1>1. IntakeOk(intake) /\ ToSet(intake.hardware) \subseteq Device /\ ToSet(intake.models) \subseteq Model
  BY DEF Plannable
<1>2. intake.hardware \in Seq(Nat) /\ intake.models \in Seq(Nat) /\ intake.bits \in Seq(Int)
  BY DEF Intake
<1>3. IsFiniteSet(ToSet(intake.hardware)) /\ IsFiniteSet(ToSet(intake.models)) /\ IsFiniteSet(ToSet(intake.bits))
  BY <1>2, ToSetIs
<1>4. \A i \in DOMAIN intake.bits : intake.bits[i] \in Nat
  <2>1. \A i \in DOMAIN intake.bits : intake.bits[i] > 0
    BY <1>1 DEF IntakeOk
  <2>2. \A i \in DOMAIN intake.bits : intake.bits[i] \in Int
    BY <1>2, ElementIs
  <2>3. QED
    BY <2>1, <2>2
<1>5. ToSet(intake.bits) \subseteq Nat
  BY <1>4 DEF ToSet
<1>6. QED
  BY <1>1, <1>3, <1>5

LEMMA CandidatesCome ==
  ASSUME NEW intake \in Intake, Plannable(intake), Priced(intake), NEW x \in Candidates(intake)
  PROVE  Comes(x, intake)
<1>1. PICK h \in ToSet(intake.hardware), m \in ToSet(intake.models), bits \in ToSet(intake.bits) :
         x = Estimate(h, m, bits, Translate(intake), intake.power)
  <2>1. PICK y \in ToSet(intake.hardware) \X ToSet(intake.models) \X ToSet(intake.bits) :
           x = Estimate(y[1], y[2], y[3], Translate(intake), intake.power)
    BY Zenon DEF Candidates
  <2>2. /\ y[1] \in ToSet(intake.hardware) /\ y[2] \in ToSet(intake.models) /\ y[3] \in ToSet(intake.bits)
    BY <2>1
  <2>3. QED
    BY Zenon, <2>1, <2>2
<1>2. h \in Device /\ m \in Model /\ bits \in Nat /\ IntakeOk(intake)
  BY ExploredAre
<1>3. Candidate(x, h, m, bits)
  BY <1>1, <1>2, EstimateIs
<1>4. x.hardware = h /\ x.model = m /\ x.bits = bits /\ x \in Screened
  BY <1>3 DEF Candidate, Screened
<1>5. QED
  BY Zenon, <1>1, <1>4 DEF Comes

LEMMA CandidatesFinite ==
  ASSUME NEW intake \in Intake, Plannable(intake)
  PROVE  IsFiniteSet(Candidates(intake))
<1> DEFINE H == ToSet(intake.hardware)
           M == ToSet(intake.models)
           B == ToSet(intake.bits)
           made == [y \in (H \X M) \X B |-> Estimate(y[1][1], y[1][2], y[2], Translate(intake), intake.power)]
<1>1. IsFiniteSet(H) /\ IsFiniteSet(M) /\ IsFiniteSet(B)
  BY ExploredAre
<1>2. Candidates(intake) = {Estimate(x[1], x[2], x[3], Translate(intake), intake.power) : x \in H \X M \X B}
  BY Zenon DEF Candidates
<1>3. IsFiniteSet((H \X M) \X B)
  <2> HIDE DEF H, M, B
  <2>1. IsFiniteSet(H \X M)
    BY <1>1, FS_Product
  <2>2. QED
    BY <1>1, <2>1, FS_Product
<1> HIDE DEF H, M, B
<1>4. ASSUME NEW y \in (H \X M) \X B PROVE made[y] \in Candidates(intake)
  <2>1. PICK h \in H, m \in M, b \in B : y = <<<<h, m>>, b>>
    BY <1>4
  <2>2. made[y] = Estimate(h, m, b, Translate(intake), intake.power)
    BY <2>1
  <2>3. <<h, m, b>> \in H \X M \X B /\ <<h, m, b>>[1] = h /\ <<h, m, b>>[2] = m /\ <<h, m, b>>[3] = b
    BY <2>1
  <2>4. QED
    BY <1>2, <2>2, <2>3
<1>5. ASSUME NEW x \in Candidates(intake) PROVE \E y \in (H \X M) \X B : made[y] = x
  <2>1. PICK z \in H \X M \X B : x = Estimate(z[1], z[2], z[3], Translate(intake), intake.power)
    BY <1>2, <1>5
  <2>2. <<<<z[1], z[2]>>, z[3]>> \in (H \X M) \X B
    BY <2>1
  <2>3. QED
    BY <2>1, <2>2
<1>6. made \in Surjection((H \X M) \X B, Candidates(intake))
  BY <1>4, <1>5 DEF Surjection
<1>7. QED
  BY <1>3, <1>6, FS_Surjection

LEMMA UpTo ==
  ASSUME NEW n \in Nat
  PROVE  IsFiniteSet(1..n) /\ Cardinality(1..n) = n
<1>1. \A a, b \in Int : IsFiniteSet(a..b) /\ Cardinality(a..b) = IF a > b THEN 0 ELSE b - a + 1
  BY FS_Interval
<1>2. 1 \in Int /\ n \in Int /\ (1 > n => n = 0) /\ n - 1 + 1 = n
  OBVIOUS
<1>3. QED
  BY <1>1, <1>2

LEMMA FiveLong ==
  ASSUME NEW S, NEW s \in Seq(S), Len(s) = 5
  PROVE  s \in [1..5 -> S]
<1>1. s \in [1..Len(s) -> S]
  OBVIOUS
<1>2. QED
  BY Zenon, <1>1

\* What candidates are compared by.
Key(x) == <<Rank[x.status], -x.score, x.hardware, x.model, x.bits>>

LEMMA KeyIs ==
  ASSUME NEW x \in Screened, x.status # "NOT_FEASIBLE"
  PROVE  /\ Key(x) \in [1..5 -> Value]
         /\ Key(x)[3] = x.hardware /\ Key(x)[4] = x.model /\ Key(x)[5] = x.bits
<1>1. /\ x.hardware \in Int /\ x.model \in Int /\ x.bits \in Int /\ x.score \in Int
      /\ x.status \in {"STRONG_FIT", "CONDITIONAL_FIT", "BORDERLINE_FIT", "UNLIKELY_FIT"}
  <2>1. /\ x.hardware \in Device /\ x.model \in Model /\ x.bits \in Nat /\ x.score \in Int
        /\ x.status \in Status
    BY DEF Screened
  <2>2. Device \subseteq Nat /\ Model \subseteq Nat
    BY CapacityAssumption
  <2>3. x.status \in {"STRONG_FIT", "CONDITIONAL_FIT", "BORDERLINE_FIT", "UNLIKELY_FIT"}
    BY <2>1 DEF Status
  <2>4. x.hardware \in Nat /\ x.model \in Nat
    BY Zenon, <2>1, <2>2
  <2>5. QED
    BY <2>1, <2>3, <2>4
<1>2. Rank[x.status] \in Int
  BY <1>1 DEF Rank
<1>3. PICK a \in Int, b \in Int, h \in Int, m \in Int, n \in Int :
         a = Rank[x.status] /\ b = -x.score /\ h = x.hardware /\ m = x.model /\ n = x.bits
  BY <1>1, <1>2
<1>4. Key(x) = <<a, b, h, m, n>>
  BY <1>3 DEF Key
<1>5. PICK k : k = <<a, b, h, m, n>>
  OBVIOUS
<1>6. k \in Seq(Value) /\ Len(k) = 5 /\ k[3] = h /\ k[4] = m /\ k[5] = n
  BY <1>5 DEF Value
<1>7. k \in [1..5 -> Value]
  BY <1>6, FiveLong
<1>8. QED
  BY <1>3, <1>4, <1>5, <1>6, <1>7

LEMMA ContestIs ==
  ASSUME NEW intake \in Intake, Plannable(intake), Priced(intake), NEW F, F = Feasible(Candidates(intake))
  PROVE  /\ Contest(F) /\ F \subseteq Screened
         /\ \A x \in F : x.model \in ToSet(intake.models)
<1>1. \A x \in F : x \in Candidates(intake) /\ x.status # "NOT_FEASIBLE"
  BY DEF Feasible
<1>2. \A x \in F : Comes(x, intake)
  BY <1>1, CandidatesCome
<1>3. \A x \in F : x \in Screened /\ x.model \in ToSet(intake.models) /\ x.score \in Int
  BY <1>2 DEF Comes, Screened
<1>4. IsFiniteSet(F)
  <2>1. F \in SUBSET Candidates(intake)
    BY <1>1
  <2>2. QED
    BY <2>1, CandidatesFinite, FS_Subset
<1>5. PICK K : K = [1..5 -> Value]
  OBVIOUS
<1>6. Lined(K)
  BY <1>5, TuplesLined
<1>7. \A x \in F : Key(x) \in K
  BY <1>1, <1>3, <1>5, KeyIs
<1>8. ASSUME NEW x \in F, NEW y \in F, Key(x) = Key(y) PROVE x = y
  <2>1. x.hardware = y.hardware /\ x.model = y.model /\ x.bits = y.bits
    BY <1>1, <1>3, <1>8, KeyIs
  <2>2. QED
    BY Zenon, <1>2, <2>1 DEF Comes
<1>9. \A x, y \in F : Better(x, y) <=> Precedes(Key(x), Key(y))
  BY Zenon DEF Better, Key
<1>10. \A x, y \in F : <<x, y>> \in Ahead(F) <=> Precedes(Key(x), Key(y))
  BY <1>9 DEF Ahead
<1>11. StrictOrder(F, Ahead(F))
  <2>1. \A x \in F : <<x, x>> \notin Ahead(F)
    BY <1>6, <1>7, <1>10 DEF Lined
  <2>2. \A x, y, z \in F : <<x, y>> \in Ahead(F) /\ <<y, z>> \in Ahead(F) => <<x, z>> \in Ahead(F)
    BY <1>6, <1>7, <1>10 DEF Lined
  <2>3. \A x, y \in F : x # y => <<x, y>> \in Ahead(F) \/ <<y, x>> \in Ahead(F)
    BY <1>6, <1>7, <1>8, <1>10 DEF Lined
  <2>4. QED
    BY <2>1, <2>2, <2>3 DEF StrictOrder
<1>12. QED
  BY <1>3, <1>4, <1>11 DEF Contest

\* No more are the best of their model than models are asked for.
LEMMA BestsAreFew ==
  ASSUME NEW F, NEW e, NEW best, Bests(F, e, best), NEW models \in Seq(Nat),
         \A x \in F : x.model \in ToSet(models)
  PROVE  Len(best) <= Len(models)
<1>1. best \in Seq(F) /\ \A i, j \in 1..Len(best) : i # j => best[i].model # best[j].model
  BY DEF Bests
<1>2. PICK n \in Nat, k \in Nat : n = Len(best) /\ k = Len(models)
  BY <1>1
<1>3. \A i \in 1..n : best[i].model \in ToSet(models)
  BY <1>1, <1>2
<1>4. \A i \in 1..n : \E j \in 1..k : models[j] = best[i].model
  BY <1>2, <1>3 DEF ToSet
<1> DEFINE f == [i \in 1..n |-> CHOOSE j \in 1..k : models[j] = best[i].model]
<1>5. \A i \in 1..n : f[i] \in 1..k /\ models[f[i]] = best[i].model
  BY Zenon, <1>4
<1>6. f \in Injection(1..n, 1..k)
  <2>1. f \in [1..n -> 1..k]
    BY <1>5
  <2>2. ASSUME NEW i \in 1..n, NEW j \in 1..n, f[i] = f[j] PROVE i = j
    <3>1. best[i].model = best[j].model
      BY <1>5, <2>2
    <3>2. QED
      BY <1>1, <1>2, <3>1
  <2> HIDE DEF f
  <2>3. QED
    BY <2>1, <2>2 DEF Injection, IsInjective
<1>7. IsFiniteSet(1..k) /\ Cardinality(1..k) = k /\ Cardinality(1..n) = n
  BY UpTo
<1>8. Cardinality(1..n) <= Cardinality(1..k)
  BY <1>6, <1>7, FS_Injection
<1>9. QED
  BY <1>2, <1>7, <1>8

\* A list without repetitions that is full or holds everything is as long as it can be.
LEMMA AsLong ==
  ASSUME NEW F, IsFiniteSet(F), NEW list \in Seq(F), NEW size \in Nat, Len(list) <= size,
         \A i, j \in 1..Len(list) : i # j => list[i] # list[j],
         Len(list) = size \/ \A x \in F : \E i \in 1..Len(list) : list[i] = x
  PROVE  Len(list) = Min({size, Cardinality(F)})
<1>1. PICK n \in Nat, k \in Nat : n = Len(list) /\ k = Cardinality(F)
  BY FS_CardinalityType
<1>2. list \in [1..n -> F]
  BY <1>1
<1>3. list \in Injection(1..n, F)
  BY <1>1, <1>2 DEF Injection, IsInjective
<1>4. Cardinality(1..n) = n /\ IsFiniteSet(1..n)
  BY UpTo
<1>5. n <= k
  BY <1>1, <1>3, <1>4, FS_Injection
<1>6. CASE n = size
  <2>1. Pair({size, k}, size, k)
    BY DEF Pair
  <2>2. Min({size, k}) \in {size, k} /\ Min({size, k}) <= size /\ Min({size, k}) <= k
    BY <2>1, OfTwo
  <2>3. QED
    BY <1>1, <1>5, <1>6, <2>2
<1>7. CASE n # size
  <2>1. list \in Surjection(1..n, F)
    BY <1>1, <1>2, <1>7 DEF Surjection
  <2>2. k <= n
    BY <1>1, <1>4, <2>1, FS_Surjection
  <2>3. Pair({size, k}, size, k)
    BY DEF Pair
  <2>4. Min({size, k}) \in {size, k} /\ Min({size, k}) <= size /\ Min({size, k}) <= k
    BY <2>3, OfTwo
  <2>5. QED
    BY <1>1, <1>5, <1>7, <2>2, <2>4
<1>8. QED
  BY <1>6, <1>7

-----------------------------------------------------------------------------
(* What the shortlist is good for. *)

Foremost(S) == CHOOSE x \in S : \A y \in S \ {x} : Better(x, y)
OfModel(F, model) == {x \in F : x.model = model}

Leading(b, S, F) == S \subseteq F /\ b \in S /\ \A y \in S : y = b \/ Better(b, y)

LEMMA ForemostIs ==
  ASSUME NEW F, Contest(F), NEW S, NEW b, Leading(b, S, F)
  PROVE  Foremost(S) = b
<1>1. S \subseteq F /\ b \in S /\ \A y \in S \ {b} : Better(b, y)
  BY DEF Leading
<1>2. PICK x : x = Foremost(S)
  OBVIOUS
<1>3. x \in S /\ \A y \in S \ {x} : Better(x, y)
  BY Zenon, <1>1, <1>2 DEF Foremost
<1>4. ASSUME x # b PROVE FALSE
  <2>1. Better(b, x) /\ Better(x, b) /\ x \in F /\ b \in F
    BY <1>1, <1>3, <1>4
  <2>2. <<b, x>> \in Ahead(F) /\ <<x, b>> \in Ahead(F)
    BY <2>1 DEF Ahead
  <2>3. <<b, b>> \in Ahead(F)
    BY <2>1, <2>2 DEF Contest, StrictOrder
  <2>4. QED
    BY <2>1, <2>3 DEF Contest, StrictOrder
<1>5. QED
  BY <1>2, <1>4

\* The model of x is on the list as good as b, the best of it, is.
OnList(list, x, b) ==
    \E i \in DOMAIN list : /\ list[i].model = x.model /\ list[i].status = b.status
                           /\ list[i].score >= b.score - 1500

\* The list is of the best of as many models as it is long, b not among them.
Surpassed(list, F, b) ==
    /\ Len(list) = Longest
    /\ \A i \in DOMAIN list :
         /\ Better(Foremost(OfModel(F, list[i].model)), b)
         /\ \A j \in DOMAIN list \ {i} : list[j].model # list[i].model

SoundList(list, F, size) ==
    /\ Len(list) = Min({size, Cardinality(F)})
    /\ IsInjective(list) /\ ToSet(list) \subseteq F
    /\ list # <<>> => list[1] = Foremost(F)
    /\ \A x \in F : \/ OnList(list, x, Foremost(OfModel(F, x.model)))
                    \/ Surpassed(list, F, Foremost(OfModel(F, x.model)))
    /\ Earned(list, F)

LEMMA ListIsSound ==
  ASSUME NEW F, Contest(F), NEW e, InOrder(F, e), NEW best, Bests(F, e, best),
         NEW size \in Nat \ {0}, size < Len(best) => size = Longest,
         NEW list, Listed(F, e, best, size, list)
  PROVE  SoundList(list, F, size)
<1>1. /\ list \in Seq(F) /\ Len(list) <= size
      /\ \A i, j \in 1..Len(list) : i # j => list[i] # list[j]
      /\ Len(list) = size \/ \A x \in F : \E i \in 1..Len(list) : list[i] = x
  BY DEF Listed
<1>2. PICK l \in Nat, m \in Nat, n \in Nat : l = Len(list) /\ m = Len(best) /\ n = Len(e)
  <2>1. best \in Seq(F) /\ e \in Seq(F)
    BY DEF Bests, InOrder
  <2>2. QED
    BY <1>1, <2>1
<1>3. DOMAIN list = 1..l /\ \A i \in 1..l : list[i] \in F
  BY <1>1, <1>2
<1>4. Len(list) = Min({size, Cardinality(F)})
  BY <1>1, AsLong DEF Contest
<1>5. IsInjective(list) /\ ToSet(list) \subseteq F
  BY <1>1, <1>2, <1>3 DEF IsInjective, ToSet
<1>6. ASSUME list # <<>> PROVE list[1] = Foremost(F)
  <2>1. l > 0 /\ 1 \in 1..l
    BY <1>1, <1>2, <1>6
  <2>2. PICK k \in 1..n : e[k] = list[1]
    BY <1>2, <1>3, <2>1 DEF InOrder
  <2>3. e # <<>> /\ 1 \in 1..n
    BY <1>2, <2>2
  <2>4. list[1] = e[1]
    BY <2>3 DEF Listed
  <2>5. \A y \in F : y = e[1] \/ Better(e[1], y)
    <3>1. ASSUME NEW y \in F PROVE y = e[1] \/ Better(e[1], y)
      <4>1. PICK i \in 1..n : e[i] = y
        BY <1>2 DEF InOrder
      <4>2. i = 1 \/ 1 < i
        BY <4>1
      <4>3. QED
        BY <1>2, <2>3, <4>1, <4>2 DEF InOrder
    <3>2. QED
      BY <3>1
  <2>6. e[1] \in F
    BY <1>3, <2>1, <2>4
  <2>7. Leading(e[1], F, F)
    BY <2>5, <2>6 DEF Leading
  <2>8. QED
    BY <2>4, <2>7, ForemostIs
<1>7. ASSUME NEW k \in 1..m PROVE Foremost(OfModel(F, best[k].model)) = best[k]
  <2>1. best[k] \in F /\ \A x \in F : x.model = best[k].model => x = best[k] \/ Better(best[k], x)
    <3>1. best \in Seq(F)
      BY DEF Bests
    <3>2. best[k] \in F
      BY <1>2, <3>1
    <3>3. QED
      BY <1>2, <3>2 DEF Bests
  <2>2. Leading(best[k], OfModel(F, best[k].model), F)
    BY <2>1 DEF Leading, OfModel
  <2>3. QED
    BY <2>2, ForemostIs
<1>8. ASSUME NEW x \in F
      PROVE  \/ OnList(list, x, Foremost(OfModel(F, x.model)))
             \/ Surpassed(list, F, Foremost(OfModel(F, x.model)))
  <2>1. PICK k \in 1..m : best[k].model = x.model
    BY <1>2 DEF Bests
  <2>2. Foremost(OfModel(F, x.model)) = best[k]
    BY <1>7, <2>1
  <2>3. CASE k <= size
    <3>1. k \in 1..l /\ StandsFor(list[k], best[k])
      BY <1>2, <2>3 DEF Listed
    <3>2. OnList(list, x, best[k])
      BY <1>3, <2>1, <3>1 DEF OnList, StandsFor
    <3>3. QED
      BY <2>2, <3>2
  <2>4. CASE k > size
    <3>1. size < m /\ size = Longest /\ size \in 1..m
      BY <1>2, <2>4
    <3>2. l = size
      BY <1>1, <1>2, <3>1 DEF Listed
    <3>3. \A i \in 1..l : i \in 1..m /\ list[i].model = best[i].model
      BY <1>2, <3>1, <3>2 DEF Listed
    <3>4. ASSUME NEW i \in 1..l PROVE Better(Foremost(OfModel(F, list[i].model)), best[k])
      <4>1. i \in 1..m /\ list[i].model = best[i].model /\ i < k
        BY <2>4, <3>2, <3>3
      <4>2. Foremost(OfModel(F, list[i].model)) = best[i]
        BY <1>7, <4>1
      <4>3. Better(best[i], best[k])
        BY <1>2, <4>1 DEF Bests
      <4>4. QED
        BY <4>2, <4>3
    <3>5. ASSUME NEW i \in 1..l, NEW j \in 1..l, i # j PROVE list[j].model # list[i].model
      <4>1. best[j].model # best[i].model
        BY <1>2, <3>3, <3>5 DEF Bests
      <4>2. QED
        BY <3>3, <4>1
    <3>6. Surpassed(list, F, best[k])
      BY <1>2, <1>3, <3>1, <3>2, <3>4, <3>5 DEF Surpassed
    <3>7. QED
      BY <2>2, <3>6
  <2>5. QED
    BY <2>3, <2>4
<1>9. Earned(list, F)
  BY DEF Listed
<1>10. QED
  BY <1>4, <1>5, <1>6, <1>8, <1>9 DEF SoundList

LEMMA SizeIs ==
  ASSUME NEW intake \in Intake
  PROVE  /\ ShortlistSize(intake) \in Nat \ {0}
         /\ ShortlistSize(intake) < Len(intake.models) => ShortlistSize(intake) = Longest
<1>1. PICK n \in Nat : n = Len(intake.models)
  BY DEF Intake
<1>2. Shortest \in Nat \ {0} /\ Longest \in Nat \ {0}
  BY CapacityAssumption
<1>3. PICK a : a = Larger(Shortest, n)
  OBVIOUS
<1>4. Pair({Shortest, n}, Shortest, n)
  BY <1>2 DEF Pair
<1>5. a \in {Shortest, n} /\ a >= n /\ a >= Shortest
  BY <1>3, <1>4, OfTwo DEF Larger
<1>6. a \in Nat \ {0}
  BY <1>2, <1>5
<1>7. Pair({Longest, a}, Longest, a)
  BY <1>2, <1>6 DEF Pair
<1>8. Min({Longest, a}) \in {Longest, a}
  BY <1>7, OfTwo
<1>9. ShortlistSize(intake) = Min({Longest, a})
  BY <1>1, <1>3 DEF ShortlistSize, Larger
<1>10. QED
  BY <1>1, <1>2, <1>5, <1>6, <1>8, <1>9

LEMMA ShortlistIsSound ==
  ASSUME NEW intake \in Intake, Plannable(intake), Priced(intake)
  PROVE  SoundList(Shortlist(Candidates(intake), ShortlistSize(intake)), Feasible(Candidates(intake)),
                   ShortlistSize(intake))
<1>1. PICK F : F = Feasible(Candidates(intake))
  OBVIOUS
<1>2. PICK size \in Nat \ {0} : size = ShortlistSize(intake) /\ (size < Len(intake.models) => size = Longest)
  BY SizeIs
<1>3. PICK list : list = Shortlist(Candidates(intake), size)
  OBVIOUS
<1>4. Contest(F) /\ \A x \in F : x.model \in ToSet(intake.models)
  BY <1>1, ContestIs
<1>5. PICK e, best : InOrder(F, e) /\ Bests(F, e, best) /\ Listed(F, e, best, size, list)
  BY <1>1, <1>3, <1>4, ShortlistIs
<1>6. intake.models \in Seq(Nat)
  BY DEF Intake
<1>7. Len(best) <= Len(intake.models)
  BY <1>4, <1>5, <1>6, BestsAreFew
<1>8. size < Len(best) => size = Longest
  <2>1. Len(best) \in Nat /\ Len(intake.models) \in Nat
    BY <1>5, <1>6 DEF Bests
  <2>2. QED
    BY <1>2, <1>7, <2>1
<1>9. SoundList(list, F, size)
  BY <1>4, <1>5, <1>8, ListIsSound
<1>10. QED
  BY <1>1, <1>2, <1>3, <1>9

LEMMA PricedAre ==
  ASSUME LiveInv, NEW c \in Client, answer[c] # None, ask[c].kind = "capacity", IntakeOk(Intakes[ask[c].intake])
  PROVE  Priced(Intakes[ask[c].intake])
<1>1. ask[c] \in Requests[c]
  BY DEF LiveInv, Kept, Stage
<1>2. ask[c].intake \in DOMAIN Intakes
  BY <1>1, RequestIs
<1>3. \A name \in DOMAIN Intakes, h \in Device : IntakeOk(Intakes[name]) =>
         /\ Intakes[name].concurrent \in DOMAIN HardwareItems[h].keepDecode
         /\ Intakes[name].concurrent \in DOMAIN HardwareItems[h].keepPrefill
  BY LiveAssumption
<1>4. QED
  BY Zenon, <1>2, <1>3 DEF Priced

Shortlisted(c) ==
    LET intake == Intakes[ask[c].intake] IN
    SoundList(answer[c].shortlist, Feasible(Candidates(intake)), ShortlistSize(intake))

LEMMA SoundlyIs ==
  ShortlistSound <=>
    \A c \in Client : answer[c] # None /\ ask[c].kind = "capacity" /\ answer[c].verdict = "PLANNED" => Shortlisted(c)
  BY Zenon DEF ShortlistSound, Shortlisted, SoundList, Surpassed, OnList, OfModel, Foremost, Feasible,
            Earned, NewModel, NewDevice

LEMMA ListedSoundly == LiveInv => ShortlistSound
<1> SUFFICES ASSUME LiveInv, NEW c \in Client, answer[c] # None, ask[c].kind = "capacity",
                    answer[c].verdict = "PLANNED"
             PROVE  Shortlisted(c)
  BY SoundlyIs
<1>1. PICK intake : intake = Intakes[ask[c].intake]
  OBVIOUS
<1>2. /\ intake \in Intake /\ Plannable(intake)
      /\ answer[c].shortlist = Shortlist(Candidates(intake), ShortlistSize(intake))
  BY <1>1, PlanAnswered DEF Sensible
<1>3. Priced(intake)
  BY <1>1, <1>2, PricedAre DEF Plannable
<1>4. QED
  BY <1>1, <1>2, <1>3, ShortlistIsSound DEF Shortlisted

\* Whatever the catalogs and the intake, the shortlist is as long as it can be, of feasible
\* candidates each once, the best first, leaves out only models behind all that are on
\* a list of full length, and passes nobody over for a lesser candidate but for a model or
\* a device the list did not have (ShortlistSound).
THEOREM ShortlistIsTheBest == Spec => []ShortlistSound
<1>1. Init => LiveInv
  BY LiveInit
<1>2. LiveInv /\ [Next]_vars => LiveInv'
  BY LiveStep
<1>3. LiveInv => ShortlistSound
  BY ListedSoundly
<1>4. QED
  BY <1>1, <1>2, <1>3, PTL DEF Spec

-----------------------------------------------------------------------------
(* What is answered. *)

ScreenedList(list) == list \in Seq(Screened)

LEMMA ShortlistOfScreened ==
  ASSUME NEW intake \in Intake, Plannable(intake), Priced(intake)
  PROVE  ScreenedList(Shortlist(Candidates(intake), ShortlistSize(intake)))
<1>1. PICK F : F = Feasible(Candidates(intake))
  OBVIOUS
<1>2. PICK size \in Nat \ {0} : size = ShortlistSize(intake)
  BY SizeIs
<1>3. PICK list : list = Shortlist(Candidates(intake), size)
  OBVIOUS
<1>4. Contest(F) /\ F \subseteq Screened
  BY <1>1, ContestIs
<1>5. PICK e, best : Listed(F, e, best, size, list)
  BY <1>1, <1>3, <1>4, ShortlistIs
<1>6. list \in Seq(F)
  BY <1>5 DEF Listed
<1>7. list \in Seq(Screened)
  BY <1>4, <1>6
<1>8. QED
  BY <1>2, <1>3, <1>7 DEF ScreenedList

LEMMA PlannedIs ==
  ASSUME NEW plan \in Seq(Trial), NEW list, ScreenedList(list)
  PROVE  \A verdict \in {"PLANNED", "WRITTEN"} :
            [verdict |-> verdict, experiments |-> plan, shortlist |-> list] \in Planned
  BY DEF ScreenedList, Screened, Trial, Planned

LEMMA AnswerIsTyped ==
  ASSUME LiveInv, NEW c \in Client, answer[c] # None
  PROVE  answer[c] \in Answer \cup Planned
<1>1. Kept(c) /\ at[c] = "done" /\ ask[c] \in Requests[c]
  BY DEF LiveInv, Kept, Stage
<1>2. \A what \in {"REFUSED", "DROPPED", "MEASURED"} : Plain(what) \in Answer
  BY DEF Plain, Answer
<1>3. CASE answer[c] \in {Plain("REFUSED"), Plain("DROPPED"), Plain("MEASURED")}
  BY <1>2, <1>3
<1>4. CASE /\ Compares(c) /\ Wanted(ask[c]) /\ Len(rows[c]) = Len(ask[c].candidates)
           /\ answer[c] = Report(rows[c], ask[c].repetitions)
  <2>1. ask[c] \in Comparison
    BY <1>1, <1>4, RequestIs DEF Compares
  <2>2. PICK list \in Seq(Row) : list = rows[c]
    BY DEF LiveInv, Typed
  <2>3. ListStands(list, Objectives(c))
    BY <1>4, <2>1, <2>2, RowsStand
  <2>4. PICK report : report = Report(list, ask[c].repetitions)
    OBVIOUS
  <2>5. /\ report.verdict \in {"INSUFFICIENT_EVIDENCE", "RECOMMENDED", "NO_DEPLOYMENT_MEETS_REQUIREMENTS"}
        /\ \E k, r \in DOMAIN list : /\ report.closest = list[k].print
                                     /\ report.recommended \in {None, list[r].print}
    BY <2>3, <2>4, ReportHolds DEF FitRows
  <2>6. \A k \in DOMAIN list : list[k].print \in Fingerprint
    <3>1. \A row \in Row : row.print \in Fingerprint
      BY DEF Row
    <3>2. QED
      BY Zenon, <3>1, ElementIs
  <2>7. report = [verdict |-> report.verdict, recommended |-> report.recommended, closest |-> report.closest]
    BY Zenon, <2>4 DEF Report
  <2>8. report \in Answer
    BY <2>5, <2>6, <2>7 DEF Answer
  <2>9. QED
    BY <1>4, <2>2, <2>4, <2>8
<1>5. CASE ask[c].kind = "capacity" /\ answer[c] = CapacityAnswer[ask[c].intake]
  <2>1. PICK intake : intake = Intakes[ask[c].intake]
    OBVIOUS
  <2>2. ask[c].intake \in DOMAIN Intakes /\ intake \in Intake
    BY <1>1, <1>5, <2>1, RequestIs, LiveAssumption
  <2>3. answer[c] = IF Plannable(intake)
                    THEN [verdict |-> "PLANNED", experiments |-> BuildPlan(Translate(intake)),
                          shortlist |-> Shortlist(Candidates(intake), ShortlistSize(intake))]
                    ELSE Plain("REFUSED")
    BY <1>5, <2>1, <2>2 DEF CapacityAnswer
  <2>4. CASE Plannable(intake)
    <3>1. IntakeOk(intake) /\ Priced(intake)
      BY <1>5, <2>1, <2>4, PricedAre DEF Plannable
    <3>2. BuildPlan(Translate(intake)) \in Seq(Trial)
      <4>1. Translate(intake) \in Contract /\ Valid(Translate(intake))
        BY <2>2, <3>1, TranslateIs
      <4>2. QED
        BY <4>1, ValidIsFirm, PlanCovers
    <3>3. ScreenedList(Shortlist(Candidates(intake), ShortlistSize(intake)))
      BY <2>2, <2>4, <3>1, ShortlistOfScreened
    <3>4. QED
      BY <2>3, <2>4, <3>2, <3>3, PlannedIs
  <2>5. CASE ~Plannable(intake)
    BY <1>2, <2>3, <2>5
  <2>6. QED
    BY <2>4, <2>5
<1>6. CASE ask[c].kind = "plan" /\ answer[c] = WorkloadAnswer[ask[c].contract]
  <2>1. PICK contract : contract = Contracts[ask[c].contract]
    OBVIOUS
  <2>2. ask[c].contract \in DOMAIN Contracts /\ contract \in Contract
    BY <1>1, <1>6, <2>1, RequestIs, LiveAssumption
  <2>3. PICK shown : answer[c] = IF contract.null THEN Plain("DROPPED")
                                 ELSE IF ~Valid(contract) THEN Plain("REFUSED")
                                 ELSE [verdict |-> IF shown THEN "PLANNED" ELSE "WRITTEN",
                                       experiments |-> BuildPlan(contract), shortlist |-> <<>>]
    BY <1>6, <2>1, <2>2, Programmed
  <2>4. CASE ~contract.null /\ Valid(contract)
    <3>1. BuildPlan(contract) \in Seq(Trial)
      BY <2>2, <2>4, ValidIsFirm, PlanCovers
    <3>2. ScreenedList(<<>>)
      BY DEF ScreenedList
    <3>3. PICK verdict \in {"PLANNED", "WRITTEN"} : verdict = IF shown THEN "PLANNED" ELSE "WRITTEN"
      OBVIOUS
    <3>4. QED
      BY <2>3, <2>4, <3>1, <3>2, <3>3, PlannedIs
  <2>5. CASE contract.null \/ ~Valid(contract)
    BY <1>2, <2>3, <2>5
  <2>6. QED
    BY <2>4, <2>5
<1>7. QED
  BY <1>1, <1>3, <1>4, <1>5, <1>6 DEF Kept, AnswerKept

\* There is one place for the answer of each client.
OneAnswer == answer = [c \in Client |-> answer[c]]

LEMMA AnswersPut == OneAnswer /\ [Next]_vars => OneAnswer'
<1> SUFFICES ASSUME OneAnswer, [Next]_vars PROVE OneAnswer'
  OBVIOUS
<1>1. CASE UNCHANGED answer
  BY <1>1 DEF OneAnswer
<1>2. ASSUME NEW c, NEW what, answer' = [answer EXCEPT ![c] = what] PROVE OneAnswer'
  BY <1>2 DEF OneAnswer
<1>3. ASSUME NEW c \in Client, Main(c) PROVE OneAnswer'
  <2>1. CASE AcceptComparison(c) \/ Discover(c) \/ NextCandidate(c) \/ Conclude(c)
    BY <1>1, <1>2, <2>1 DEF AcceptComparison, Discover, NextCandidate, Conclude
  <2>2. CASE AcceptBenchmark(c) \/ Summarise(c) \/ MakePlan(c)
    BY <1>1, <1>2, <2>2 DEF AcceptBenchmark, Summarise, MakePlan
  <2>3. CASE Observe(c) \/ Baseline(c) \/ WorkDone(c) \/ Join(c) \/ ReadPower(c)
    BY <1>1, <2>3 DEF Observe, Baseline, WorkDone, Join, ReadPower
  <2>4. QED
    BY Zenon, <1>3, <2>1, <2>2, <2>3 DEF Main
<1>4. ASSUME NEW c \in Client, Ask(c) \/ Traffic(c) \/ Sampling(c) \/ Incident(c) PROVE OneAnswer'
  BY <1>1, <1>4 DEF Ask, Traffic, Send, Answered, Returns, Sampling, Incident, AnsweredOddly, BaselineHangs
<1>5. CASE Change \/ Time
  BY <1>1, <1>5 DEF Change, Time
<1>6. QED
  BY <1>1, <1>3, <1>4, <1>5 DEF Next, vars

LEMMA TypesFollow == LiveInv /\ MeterTypeOK /\ OneAnswer => TypeOK
<1> SUFFICES ASSUME LiveInv, MeterTypeOK, OneAnswer PROVE TypeOK
  OBVIOUS
<1>1. answer \in [Client -> Answer \cup Planned \cup {None}]
  <2>1. \A c \in Client : answer[c] \in Answer \cup Planned \cup {None}
    BY AnswerIsTyped
  <2>2. QED
    BY <2>1 DEF OneAnswer
<1>2. \A c \in Client : at[c] \in {"work", "join"} =>
         open[c] \in 0..ask[c].concurrency /\ (at[c] = "work" => open[c] + Len(runs[c]) <= Total(c))
  BY DEF LiveInv, Kept, Pool
<1>3. QED
  BY <1>1, <1>2 DEF LiveInv, Typed, TypeOK

-----------------------------------------------------------------------------
(* The power samples. *)

\* A sample that is still being taken once the benchmark waits was begun before, and so
\* has taken longer than the benchmark waited; what has been read is what there is.
PowerInv ==
    /\ MeterTypeOK
    /\ at \in [Client -> At]
    /\ \A c \in Client : Stopped(c) /\ monitor[c] = "sampling" => waited[c] <= elapsed[c]
    /\ \A c \in Client : at[c] \in {"work", "join"} => power[c] = <<>>
    /\ \A c \in Client : at[c] = "read" \/ power[c] # <<>> => Joined(c)
    /\ \A c \in Client : \A i \in DOMAIN power[c] : power[c][i] = samples[c]

USE PowerAssumption DEF MeterTypeOK, Monitor, NotStopped, Stopped, Joined

LEMMA PowerInit == Init => PowerInv
  BY DEF Init, MeterInit, PowerInv, At

\* The steps of the benchmark's own thread.
LEMMA PowerMain ==
  ASSUME PowerInv, NEW c \in Client, Main(c)
  PROVE  PowerInv'
<1> USE DEF PowerInv
<1>1. CASE UNCHANGED meter /\ \E there \in At \ {"work", "join", "read"} : Go(c, there)
  BY <1>1
<1>2. CASE Baseline(c)
  BY <1>2 DEF Baseline, Start, At
<1>3. CASE WorkDone(c)
  <2>1. at[c] = "work" /\ at' = [at EXCEPT ![c] = "join"] /\ waited' = [waited EXCEPT ![c] = 0]
        /\ UNCHANGED <<monitor, elapsed, samples, power>>
    BY <1>3 DEF WorkDone, Stop
  <2>2. power[c] = <<>> /\ 0 <= elapsed[c] /\ 0 \in 0..NotStopped
    BY <2>1
  <2>3. MeterTypeOK' /\ at' \in [Client -> At]
    BY <2>1, <2>2 DEF At
  <2>4. \A d \in Client : d # c => at'[d] = at[d] /\ waited'[d] = waited[d]
    BY <2>1
  <2>5. at'[c] = "join" /\ waited'[c] = 0
    BY <2>1
  <2>6. \A d \in Client : Stopped(d)' /\ monitor'[d] = "sampling" => waited'[d] <= elapsed'[d]
    BY <2>1, <2>2, <2>4, <2>5
  <2>7. \A d \in Client : at'[d] \in {"work", "join"} => power'[d] = <<>>
    BY <2>1, <2>2, <2>4
  <2>8. \A d \in Client : at'[d] = "read" \/ power'[d] # <<>> => Joined(d)'
    BY <2>1, <2>2, <2>4, <2>5
  <2>9. QED
    BY <2>1, <2>3, <2>6, <2>7, <2>8
<1>4. CASE Join(c)
  BY <1>4 DEF Join, At
<1>5. CASE ReadPower(c)
  <2>1. UNCHANGED <<at, monitor, elapsed, samples, waited>> /\ Joined(c)
        /\ power' = [power EXCEPT ![c] = Append(@, samples[c])]
    BY <1>5 DEF ReadPower, Read
  <2>2. power[c] \in Seq(0..MaxSamples) /\ samples[c] \in 0..MaxSamples
    OBVIOUS
  <2>3. Append(power[c], samples[c]) \in Seq(0..MaxSamples)
        /\ \A i \in DOMAIN Append(power[c], samples[c]) : Append(power[c], samples[c])[i] = samples[c]
    BY <2>2
  <2>4. power' \in [Client -> Seq(0..MaxSamples)]
    BY <2>1, <2>3
  <2>5. at[c] = "read"
    BY <1>5 DEF ReadPower
  <2>6. QED
    BY <2>1, <2>3, <2>4, <2>5
<1>6. QED
  BY <1>1, <1>2, <1>3, <1>4, <1>5
  DEF Main, AcceptComparison, Discover, NextCandidate, Conclude, AcceptBenchmark, Observe, Summarise,
      MakePlan, At

\* The request is taken, and its requests to the runtime go out and come back.
LEMMA PowerTraffic ==
  ASSUME PowerInv, NEW c \in Client, Ask(c) \/ Traffic(c) \/ AnsweredOddly(c) \/ BaselineHangs(c)
  PROVE  PowerInv'
<1> USE DEF PowerInv
<1>1. UNCHANGED meter
  BY DEF Ask, Traffic, Send, Answered, AnsweredOddly, Returns, BaselineHangs
<1>2. CASE UNCHANGED at
  BY <1>1, <1>2
<1>3. CASE Ask(c)
  BY <1>1, <1>3 DEF Ask, At
<1>4. CASE BaselineHangs(c)
  BY <1>1, <1>4 DEF BaselineHangs, At
<1>5. QED
  BY <1>2, <1>3, <1>4 DEF Traffic, Send, Answered, AnsweredOddly, Returns

\* The steps of the sampling thread.
LEMMA PowerSampling ==
  ASSUME PowerInv, NEW c \in Client, UNCHANGED at, Check(c) \/ Sampled(c) \/ Hang(c) \/ Die(c)
  PROVE  PowerInv'
<1> USE DEF PowerInv
<1>1. CASE Check(c)
  BY <1>1 DEF Check
<1>2. CASE Sampled(c)
  <2>1. monitor[c] = "sampling" /\ monitor' = [monitor EXCEPT ![c] = "loop"]
        /\ UNCHANGED <<elapsed, waited, power>>
    BY <1>2 DEF Sampled
  <2>2. ~Joined(c)
    <3>1. SUFFICES ASSUME Stopped(c), waited[c] = JoinLimit PROVE FALSE
      BY <2>1
    <3>2. waited[c] <= elapsed[c] /\ elapsed[c] <= SampleLimit
      BY <2>1, <3>1
    <3>3. QED
      BY <3>1, <3>2
  <2>3. power[c] = <<>> /\ at[c] # "read"
    BY <2>2
  <2>4. samples' \in [Client -> 0..MaxSamples] /\ \A d \in Client : d # c => samples'[d] = samples[d]
    <3>1. CASE samples[c] < MaxSamples /\ samples' = [samples EXCEPT ![c] = @ + 1]
      BY <3>1
    <3>2. CASE UNCHANGED samples
      BY <3>2
    <3>3. QED
      BY <1>2, <3>1, <3>2 DEF Sampled
  <2>5. MeterTypeOK' /\ at' \in [Client -> At]
    BY <2>1, <2>4
  <2>6. \A d \in Client : Joined(d) => Joined(d)'
    BY <2>1, <2>2
  <2>7. \A d \in Client : Stopped(d)' /\ monitor'[d] = "sampling" => waited'[d] <= elapsed'[d]
    BY <2>1
  <2>8. \A d \in Client : \A i \in DOMAIN power'[d] : power'[d][i] = samples'[d]
    BY <2>1, <2>3, <2>4
  <2>9. QED
    BY <2>1, <2>5, <2>6, <2>7, <2>8
<1>3. CASE Hang(c)
  BY <1>3 DEF Hang
<1>4. CASE Die(c)
  BY <1>4 DEF Die
<1>5. QED
  BY <1>1, <1>2, <1>3, <1>4

\* Time passes for the sample and for the benchmark alike.
LEMMA PowerTick ==
  ASSUME PowerInv, UNCHANGED at, Tick
  PROVE  PowerInv'
<1> USE DEF PowerInv
<1>1. UNCHANGED <<monitor, samples, power>>
  BY DEF Tick
<1>2. elapsed' \in [Client -> 0..SampleLimit]
      /\ \A c \in Client : elapsed'[c] = IF c \in Passing THEN elapsed[c] + 1 ELSE elapsed[c]
  BY DEF Tick, Passing
<1>3. waited' \in [Client -> 0..NotStopped]
      /\ \A c \in Client : waited'[c] = IF c \in Waiting THEN waited[c] + 1 ELSE waited[c]
  BY DEF Tick, Waiting
<1>4. \A c \in Client : monitor[c] = "sampling" => c \in Passing
  BY DEF Tick, Passing
<1>5. ASSUME NEW c \in Client, Stopped(c)', monitor'[c] = "sampling"
      PROVE  waited'[c] <= elapsed'[c]
  <2>1. Stopped(c) /\ waited[c] <= elapsed[c]
    BY <1>1, <1>3, <1>5 DEF Waiting
  <2>2. elapsed'[c] = elapsed[c] + 1
    BY <1>1, <1>2, <1>4, <1>5
  <2>3. waited[c] \in Nat /\ waited'[c] <= waited[c] + 1
    <3>1. waited[c] \in 0..NotStopped
      OBVIOUS
    <3>2. waited[c] \in Nat
      BY <3>1
    <3>3. waited'[c] = waited[c] \/ waited'[c] = waited[c] + 1
      BY <1>3
    <3> HIDE DEF PowerInv, MeterTypeOK
    <3>4. QED
      BY <3>2, <3>3
  <2>4. QED
    BY <1>2, <1>3, <2>1, <2>2, <2>3
<1>6. ASSUME NEW c \in Client, Joined(c)
      PROVE  Joined(c)'
  BY <1>1, <1>3, <1>6 DEF Waiting
<1>7. QED
  BY <1>1, <1>2, <1>3, <1>5, <1>6

LEMMA PowerStep == PowerInv /\ [Next]_vars => PowerInv'
<1> SUFFICES ASSUME PowerInv, [Next]_vars PROVE PowerInv'
  OBVIOUS
<1>1. CASE UNCHANGED <<meter, at>>
  BY <1>1 DEF PowerInv
<1>2. ASSUME NEW c \in Client, Ask(c) \/ Main(c) \/ Traffic(c) \/ Sampling(c) \/ Incident(c)
      PROVE  PowerInv'
  BY <1>2, PowerMain, PowerTraffic, PowerSampling DEF Sampling, Incident
<1>3. CASE Time
  BY <1>3, PowerTick DEF Time
<1>4. QED
  BY <1>1, <1>2, <1>3 DEF Next, Change, vars

\* Average, number and peak of a power reading are taken of the same samples, for any
\* time limits with the sample's below the join's (local_runtime.py: 3 s and 4 s), and
\* with nvidia-smi as slow or as stuck as it may be.
THEOREM PowerIsOfOneSet == Spec => []PowerOfOneSet
<1>1. PowerInv => PowerOfOneSet
  BY DEF PowerInv, PowerOfOneSet
<1>2. QED
  BY <1>1, PowerInit, PowerStep, PTL DEF Spec

\* Everything the server keeps of its requests, and everything it answers, has its type,
\* and no more requests of a benchmark are out than its pool allows (TypeOK).
THEOREM TypeCorrect == Spec => []TypeOK
<1>1. Init => LiveInv /\ PowerInv /\ OneAnswer
  BY LiveInit, PowerInit DEF Init, OneAnswer
<1>2. LiveInv /\ [Next]_vars => LiveInv'
  BY LiveStep
<1>3. PowerInv /\ [Next]_vars => PowerInv'
  BY PowerStep
<1>4. OneAnswer /\ [Next]_vars => OneAnswer'
  BY AnswersPut
<1>5. LiveInv /\ PowerInv /\ OneAnswer => TypeOK
  BY TypesFollow DEF PowerInv
<1>6. QED
  BY <1>1, <1>2, <1>3, <1>4, <1>5, PTL DEF Spec
=============================================================================
