------------------------------- MODULE Orders -------------------------------
(***************************************************************************)
(* Facts about finite sets, orders and numbers that the proofs share: the  *)
(* places of a sorted set, least and greatest elements.                    *)
(***************************************************************************)
EXTENDS Integers, FiniteSets, FiniteSetTheorems, TLAPS

(* Places in a finite ordered set. *)

Below(E, R, x) == {y \in E : <<y, x>> \in R}

StrictOrder(E, R) ==
    /\ \A x \in E : <<x, x>> \notin R
    /\ \A x, y, z \in E : <<x, y>> \in R /\ <<y, z>> \in R => <<x, z>> \in R
    /\ \A x, y \in E : x # y => <<x, y>> \in R \/ <<y, x>> \in R

\* A larger set has at least as many elements.
LEMMA Count ==
  ASSUME NEW E, IsFiniteSet(E), NEW A \in SUBSET E, NEW B \in SUBSET A
  PROVE  /\ IsFiniteSet(A) /\ Cardinality(A) \in Nat /\ Cardinality(B) \in Nat
         /\ Cardinality(B) <= Cardinality(A)
         /\ \A x \in A \ B : Cardinality(B) < Cardinality(A)
<1>1. IsFiniteSet(A) /\ IsFiniteSet(B)
  BY FS_Subset
<1>2. Cardinality(B) <= Cardinality(A) /\ Cardinality(A) \in Nat /\ Cardinality(B) \in Nat
  BY <1>1, FS_Subset, FS_CardinalityType
<1>3. ASSUME NEW x \in A \ B PROVE Cardinality(B) < Cardinality(A)
  <2>1. Cardinality(B) # Cardinality(A)
    BY <1>1, <1>3, FS_Subset
  <2>2. QED
    BY <1>2, <2>1
<1>4. QED
  BY <1>1, <1>2, <1>3

LEMMA BelowOrder ==
  ASSUME NEW E, IsFiniteSet(E), NEW R, StrictOrder(E, R), NEW x \in E, NEW y \in E, <<x, y>> \in R
  PROVE  Cardinality(Below(E, R, x)) < Cardinality(Below(E, R, y))
<1>1. Below(E, R, x) \in SUBSET Below(E, R, y)
  BY DEF Below, StrictOrder
<1>2. x \in Below(E, R, y) \ Below(E, R, x)
  BY DEF Below, StrictOrder
<1>3. Below(E, R, y) \in SUBSET E
  BY DEF Below
<1>4. QED
  BY <1>1, <1>2, <1>3, Count

\* Every place is taken, and by one element only.
LEMMA Places ==
  ASSUME NEW E, IsFiniteSet(E), NEW R, StrictOrder(E, R)
  PROVE  /\ Cardinality(E) \in Nat
         /\ \A x \in E : Cardinality(Below(E, R, x)) \in 0..(Cardinality(E) - 1)
         /\ \A j \in 0..(Cardinality(E) - 1) : \E x \in E : Cardinality(Below(E, R, x)) = j
         /\ \A x, y \in E : Cardinality(Below(E, R, x)) = Cardinality(Below(E, R, y)) => x = y
<1> DEFINE n == Cardinality(E)
           P == 0..(n - 1)
           f == [x \in E |-> Cardinality(Below(E, R, x))]
<1>1. n \in Nat
  BY FS_CardinalityType
<1>2. ASSUME NEW x \in E PROVE Cardinality(Below(E, R, x)) \in P
  <2>1. Below(E, R, x) \in SUBSET E /\ x \in E \ Below(E, R, x) /\ E \in SUBSET E
    BY <1>2 DEF Below, StrictOrder
  <2>2. Cardinality(Below(E, R, x)) \in Nat /\ Cardinality(Below(E, R, x)) < n
    BY <2>1, Count
  <2>3. QED
    BY <1>1, <2>2
<1>3. ASSUME NEW x \in E, NEW y \in E,
             Cardinality(Below(E, R, x)) = Cardinality(Below(E, R, y))
      PROVE  x = y
  <2>1. SUFFICES ASSUME x # y PROVE FALSE
    OBVIOUS
  <2>2. <<x, y>> \in R \/ <<y, x>> \in R
    BY <2>1 DEF StrictOrder
  <2>3. Cardinality(Below(E, R, x)) \in Int
    BY <1>2, <1>1
  <2>4. QED
    BY <1>3, <2>2, <2>3, BelowOrder
<1>4. f \in Injection(E, P)
  <2>1. f \in [E -> P]
    BY <1>2
  <2>2. ASSUME NEW x \in E, NEW y \in E, f[x] = f[y] PROVE x = y
    BY <2>2, <1>3
  <2>3. QED
    BY <2>1, <2>2 DEF Injection, IsInjective
<1>5. IsFiniteSet(P) /\ Cardinality(P) = n
  <2>1. \A a, b \in Int : IsFiniteSet(a..b) /\ Cardinality(a..b) = IF a > b THEN 0 ELSE b - a + 1
    BY FS_Interval
  <2>2. 0 \in Int /\ n - 1 \in Int /\ (0 > n - 1 => n = 0) /\ (n - 1) - 0 + 1 = n
    BY <1>1
  <2>3. QED
    BY <2>1, <2>2
<1>6. f \in Surjection(E, P)
  <2> HIDE DEF f, P, n
  <2>1. Cardinality(E) = Cardinality(P)
    BY <1>5 DEF n
  <2>2. QED
    BY <1>5, <1>4, <2>1, FS_Injection
<1>7. ASSUME NEW j \in P PROVE \E x \in E : Cardinality(Below(E, R, x)) = j
  <2>1. PICK x \in E : f[x] = j
    BY <1>6 DEF Surjection
  <2>2. QED
    BY <2>1
<1>8. QED
  BY <1>1, <1>2, <1>3, <1>7

LEMMA PlaceTaken ==
  ASSUME NEW E, IsFiniteSet(E), NEW R, StrictOrder(E, R), NEW j \in 0..(Cardinality(E) - 1)
  PROVE  \E x \in E : Cardinality(Below(E, R, x)) = j
  BY Places

LEMMA FirstPlace ==
  ASSUME NEW E, IsFiniteSet(E), NEW R, StrictOrder(E, R), NEW x \in E,
         Cardinality(Below(E, R, x)) = 0
  PROVE  \A y \in E : y # x => <<x, y>> \in R
<1>1. Below(E, R, x) = {}
  <2>1. IsFiniteSet(Below(E, R, x))
    BY FS_Subset DEF Below
  <2>2. QED
    BY <2>1, FS_EmptySet
<1>2. QED
  BY <1>1 DEF Below, StrictOrder

-----------------------------------------------------------------------------
(* Least and greatest of a finite set of numbers. *)

Smaller(S) == {xy \in S \X S : xy[1] < xy[2]}

LEMMA NumbersOrdered == ASSUME NEW S \in SUBSET Nat PROVE StrictOrder(S, Smaller(S))
  BY DEF StrictOrder, Smaller

LEMMA Extremes ==
  ASSUME NEW S \in SUBSET Nat, IsFiniteSet(S), S # {}
  PROVE  /\ \E x \in S : \A y \in S : x <= y
         /\ \E x \in S : \A y \in S : y <= x
<1>1. StrictOrder(S, Smaller(S))
  BY NumbersOrdered
<1>2. Cardinality(S) \in Nat \ {0}
  BY FS_CardinalityType, FS_EmptySet
<1>3. 0 \in 0..(Cardinality(S) - 1) /\ Cardinality(S) - 1 \in 0..(Cardinality(S) - 1)
  BY <1>2
<1>4. PICK x \in S : Cardinality(Below(S, Smaller(S), x)) = 0
  BY <1>1, <1>3, PlaceTaken
<1>5. \A y \in S : x <= y
  <2>1. \A y \in S : y # x => <<x, y>> \in Smaller(S)
    BY <1>1, <1>4, FirstPlace
  <2>2. \A y \in S : y # x => x < y
    BY <2>1 DEF Smaller
  <2>3. QED
    BY <2>2
<1>6. PICK z \in S : Cardinality(Below(S, Smaller(S), z)) = Cardinality(S) - 1
  BY <1>1, <1>3, PlaceTaken
<1>7. ASSUME NEW y \in S, z < y PROVE FALSE
  <2>1. <<z, y>> \in Smaller(S)
    BY <1>7 DEF Smaller
  <2>2. Cardinality(Below(S, Smaller(S), z)) < Cardinality(Below(S, Smaller(S), y))
    BY <1>1, <2>1, BelowOrder
  <2>3. Cardinality(Below(S, Smaller(S), y)) \in 0..(Cardinality(S) - 1)
    BY <1>1, Places
  <2>4. QED
    BY <1>2, <1>6, <2>2, <2>3
<1>8. \A y \in S : y <= z
  BY <1>7
<1>9. QED
  BY <1>5, <1>8

\* A set of numbers has a least element, finite or not, and a greatest if it has a bound.
LEMMA LeastNumber ==
  ASSUME NEW S \in SUBSET Nat, S # {}
  PROVE  \E x \in S : \A y \in S : x <= y
<1>1. PICK n \in S : TRUE
  OBVIOUS
<1> DEFINE T == {y \in S : y <= n}
<1>2. T \in SUBSET (0..n) /\ n \in T /\ n \in Nat
  <2>1. n \in Nat /\ n <= n
    BY <1>1
  <2>2. \A y \in S : y <= n => y \in 0..n
    BY <2>1
  <2>3. QED
    BY <1>1, <2>1, <2>2
<1>3. IsFiniteSet(0..n)
  BY <1>2, FS_Interval
<1>4. IsFiniteSet(T) /\ T \in SUBSET Nat /\ T # {}
  BY <1>2, <1>3, FS_Subset
<1>5. PICK x \in T : \A y \in T : x <= y
  <2> HIDE DEF T
  <2> QED BY <1>4, Extremes
<1>6. ASSUME NEW y \in S PROVE x <= y
  <2>1. y <= n => y \in T
    OBVIOUS
  <2>2. x <= n /\ x \in Nat /\ y \in Nat
    BY <1>5
  <2>3. QED
    BY <1>1, <1>5, <2>1, <2>2
<1>7. QED
  BY <1>5, <1>6

LEMMA GreatestNumber ==
  ASSUME NEW S \in SUBSET Int, S # {}, NEW n \in Int, \A x \in S : x <= n
  PROVE  \E x \in S : \A y \in S : y <= x
<1> DEFINE T == {n - x : x \in S}
<1>1. T \in SUBSET Nat /\ T # {}
  <2>1. \A x \in S : n - x \in Nat
    OBVIOUS
  <2>2. PICK x \in S : TRUE
    OBVIOUS
  <2>3. n - x \in T
    OBVIOUS
  <2>4. QED
    BY <2>1, <2>3
<1>2. PICK y \in T : \A z \in T : y <= z
  <2> HIDE DEF T
  <2> QED BY <1>1, LeastNumber
<1>3. PICK x \in S : y = n - x
  BY <1>2
<1>4. ASSUME NEW z \in S PROVE z <= x
  <2>1. n - z \in T
    OBVIOUS
  <2>2. n - x <= n - z
    BY <1>2, <1>3, <2>1
  <2>3. QED
    BY <2>2
<1>5. QED
  BY <1>4

-----------------------------------------------------------------------------
(* Loops, sorted sequences, and what is first of its kind. *)

\* Counting up to n.
LEMMA CountUp ==
  ASSUME NEW n \in Nat, NEW S, 0 \in S, \A k \in 1..n : k - 1 \in S => k \in S
  PROVE  \A k \in 0..n : k \in S
<1> DEFINE B == (0..n) \ S
<1>1. SUFFICES ASSUME B # {} PROVE FALSE
  OBVIOUS
<1>2. PICK k \in B : \A j \in B : k <= j
  <2>1. B \in SUBSET Nat
    OBVIOUS
  <2> HIDE DEF B
  <2>2. QED
    BY <1>1, <2>1, LeastNumber
<1>3. k \in 1..n /\ k - 1 \in 0..n
  BY <1>2
<1>4. k - 1 \in S
  BY <1>2, <1>3
<1>5. QED
  BY <1>2, <1>3, <1>4

\* A loop of n rounds over A computes something.
Steps(step, n, A) == step \in [(1..n) \X A -> A]
Loops(f, n, A, a, step) ==
    f \in [0..n -> A] /\ f[0] = a /\ \A k \in 1..n : f[k] = step[<<k, f[k - 1]>>]

LEMMA LoopRuns ==
  ASSUME NEW n \in Nat, NEW A, NEW a \in A, NEW step, Steps(step, n, A)
  PROVE  \E f : Loops(f, n, A, a, step)
<1> USE DEF Steps
<1> DEFINE Runs(m, f) == f[0] = a /\ \A k \in 1..m : f[k] = step[<<k, f[k - 1]>>]
           S == {m \in 0..n : \E f \in [0..m -> A] : Runs(m, f)}
<1>1. 0 \in S
  <2>1. [k \in 0..0 |-> a] \in [0..0 -> A] /\ Runs(0, [k \in 0..0 |-> a])
    OBVIOUS
  <2> HIDE DEF Runs
  <2>2. QED
    BY <2>1
<1>2. ASSUME NEW m \in 1..n, m - 1 \in S PROVE m \in S
  <2>1. PICK f \in [0..(m - 1) -> A] : Runs(m - 1, f)
    BY <1>2
  <2> DEFINE g == [k \in 0..m |-> IF k = m THEN step[<<m, f[m - 1]>>] ELSE f[k]]
  <2>2. m \in Nat /\ m >= 1 /\ m - 1 \in 0..(m - 1) /\ 0 \in 0..(m - 1)
    OBVIOUS
  <2>3. f[m - 1] \in A /\ step[<<m, f[m - 1]>>] \in A
    BY <2>2
  <2>4. \A k \in 0..m : k # m => k \in 0..(m - 1) /\ f[k] \in A
    BY <2>2
  <2>5. g \in [0..m -> A]
    BY <2>3, <2>4
  <2>6. g[0] = a /\ g[m] = step[<<m, g[m - 1]>>]
    BY <2>1, <2>2
  <2>7. ASSUME NEW k \in 1..m, k # m PROVE g[k] = step[<<k, g[k - 1]>>]
    <3>1. k \in 1..(m - 1) /\ k - 1 \in 0..m /\ k - 1 # m /\ k \in 0..m
      BY <2>2, <2>7
    <3>2. g[k] = f[k] /\ g[k - 1] = f[k - 1]
      BY <2>7, <3>1
    <3>3. QED
      BY <2>1, <3>1, <3>2
  <2>8. Runs(m, g)
    BY <2>6, <2>7
  <2> HIDE DEF g, Runs
  <2>9. QED
    BY <2>5, <2>8
<1>3. n \in S
  <2> HIDE DEF S
  <2>1. \A k \in 0..n : k \in S
    BY <1>1, <1>2, CountUp
  <2>2. QED
    BY <2>1
<1>4. QED
  BY <1>3 DEF Loops

\* s has at each place the element of E that so many precede.
Sorts(s, E, R) ==
    /\ s = [k \in 1..Cardinality(E) |-> s[k]]
    /\ \A k \in 1..Cardinality(E) :
          (\E x \in E : Cardinality(Below(E, R, x)) = k - 1)
             => s[k] \in E /\ Cardinality(Below(E, R, s[k])) = k - 1

LEMMA SortedIs ==
  ASSUME NEW E, IsFiniteSet(E), NEW R, StrictOrder(E, R), NEW s, Sorts(s, E, R)
  PROVE  /\ Cardinality(E) \in Nat /\ s \in [1..Cardinality(E) -> E]
         /\ \A x \in E : \E k \in 1..Cardinality(E) : s[k] = x
         /\ \A i, j \in 1..Cardinality(E) : i < j => <<s[i], s[j]>> \in R /\ s[i] # s[j]
<1> DEFINE n == Cardinality(E)
           Place(x) == Cardinality(Below(E, R, x))
<1>1. n \in Nat /\ s = [k \in 1..n |-> s[k]]
  BY Places DEF Sorts
<1>2. ASSUME NEW k \in 1..n PROVE s[k] \in E /\ Place(s[k]) = k - 1
  <2>1. k - 1 \in 0..(n - 1)
    BY <1>1
  <2>2. \E x \in E : Place(x) = k - 1
    BY <2>1, PlaceTaken
  <2>3. QED
    BY <2>2 DEF Sorts
<1>3. ASSUME NEW x \in E PROVE \E k \in 1..n : s[k] = x
  <2>1. Place(x) \in 0..(n - 1)
    BY Places
  <2>2. Place(x) + 1 \in 1..n
    BY <1>1, <2>1
  <2>3. Place(s[Place(x) + 1]) = Place(x) /\ s[Place(x) + 1] \in E
    BY <1>2, <2>1, <2>2
  <2>4. s[Place(x) + 1] = x
    BY <2>3, Places
  <2>5. QED
    BY <2>2, <2>4
<1>4. ASSUME NEW i \in 1..n, NEW j \in 1..n, i < j PROVE <<s[i], s[j]>> \in R /\ s[i] # s[j]
  <2>1. s[i] \in E /\ s[j] \in E /\ Place(s[i]) = i - 1 /\ Place(s[j]) = j - 1
    BY <1>2
  <2>2. Place(s[i]) # Place(s[j]) /\ ~(Place(s[j]) < Place(s[i]))
    BY <1>1, <1>4, <2>1
  <2>3. s[i] # s[j]
    BY <2>2
  <2>4. <<s[j], s[i]>> \notin R
    BY <2>1, <2>2, BelowOrder
  <2>5. QED
    BY <2>1, <2>3, <2>4 DEF StrictOrder
<1>5. s \in [1..n -> E]
  BY <1>1, <1>2
<1>6. QED
  BY <1>1, <1>3, <1>4, <1>5

\* Of positions with keys, those that come first of their key.
Fresh(n, key) == {i \in 1..n : \A j \in 1..(i - 1) : key[j] # key[i]}

LEMMA FreshIs ==
  ASSUME NEW n \in Nat, NEW key, NEW s, Sorts(s, Fresh(n, key), Smaller(Fresh(n, key)))
  PROVE  LET m == Cardinality(Fresh(n, key)) IN
         /\ m \in Nat /\ s \in [1..m -> 1..n]
         /\ \A i \in 1..n : \E k \in 1..m : key[s[k]] = key[i]
         /\ \A i, j \in 1..m : i < j => s[i] < s[j]
         /\ \A i, j \in 1..m : i # j => s[i] # s[j] /\ key[s[i]] # key[s[j]]
         /\ \A k \in 1..m : \A j \in 1..(s[k] - 1) : key[j] # key[s[k]]
<1> DEFINE E == Fresh(n, key)
           m == Cardinality(E)
<1>1. E \in SUBSET (1..n) /\ E \in SUBSET Nat /\ IsFiniteSet(E)
  <2>1. E \in SUBSET (1..n)
    BY DEF Fresh
  <2>2. IsFiniteSet(1..n)
    BY FS_Interval
  <2> HIDE DEF E
  <2>3. E \in SUBSET Nat
    BY <2>1
  <2>4. IsFiniteSet(E)
    <3>1. \A S, T : IsFiniteSet(S) /\ T \in SUBSET S => IsFiniteSet(T)
      BY FS_Subset
    <3>2. QED
      BY <2>1, <2>2, <3>1, Zenon
  <2>5. QED
    BY <2>1, <2>3, <2>4
<1>2. \A i \in E : \A j \in 1..(i - 1) : key[j] # key[i]
  BY DEF Fresh
<1>3. ASSUME NEW i \in 1..n PROVE \E e \in E : key[e] = key[i]
  <2> DEFINE B == {j \in 1..n : key[j] = key[i]}
  <2>1. B \in SUBSET Nat /\ B # {}
    OBVIOUS
  <2>2. PICK e \in B : \A j \in B : e <= j
    <3> HIDE DEF B
    <3> QED BY <2>1, LeastNumber
  <2>3. \A j \in 1..(e - 1) : j \in 1..n /\ ~(e <= j)
    BY <2>2
  <2>4. e \in E
    BY <2>2, <2>3 DEF Fresh
  <2>5. QED
    BY <2>2, <2>4
<1> HIDE DEF E
<1>4. StrictOrder(E, Smaller(E))
  BY <1>1, NumbersOrdered
<1>5. Sorts(s, E, Smaller(E))
  BY DEF E
<1>6. /\ m \in Nat /\ s \in [1..m -> E]
      /\ \A x \in E : \E k \in 1..m : s[k] = x
      /\ \A i, j \in 1..m : i < j => <<s[i], s[j]>> \in Smaller(E) /\ s[i] # s[j]
  BY <1>1, <1>4, <1>5, SortedIs
<1>7. \A k \in 1..m : s[k] \in E /\ s[k] \in 1..n
  BY <1>1, <1>6
<1>8. \A i, j \in 1..m : i < j => s[i] < s[j]
  BY <1>6 DEF Smaller
<1>9. \A i \in 1..n : \E k \in 1..m : key[s[k]] = key[i]
  BY <1>3, <1>6
<1>10. \A k \in 1..m : \A j \in 1..(s[k] - 1) : key[j] # key[s[k]]
  BY <1>2, <1>7
<1>11. ASSUME NEW i \in 1..m, NEW j \in 1..m, i # j PROVE s[i] # s[j] /\ key[s[i]] # key[s[j]]
  <2>1. s[i] \in 1..n /\ s[j] \in 1..n /\ (s[i] < s[j] \/ s[j] < s[i])
    <3>1. i < j \/ j < i
      BY <1>6, <1>11
    <3>2. QED
      BY <1>7, <1>8, <3>1
  <2>2. s[i] \in 1..(s[j] - 1) \/ s[j] \in 1..(s[i] - 1)
    BY <2>1
  <2>3. QED
    BY <1>10, <2>1, <2>2
<1>12. s \in [1..m -> 1..n]
  <2>1. s = [k \in 1..m |-> s[k]]
    BY <1>6
  <2>2. QED
    BY <1>7, <2>1
<1>13. QED
  BY <1>6, <1>8, <1>9, <1>10, <1>11, <1>12 DEF E
=============================================================================
