-------------------------- MODULE RecommendProofs --------------------------
(***************************************************************************)
(* Proofs about Recommend, for any evidence, contract and rounding.        *)
(***************************************************************************)
EXTENDS Recommend, Orders

(* Percentile and minimum of a metric. *)

Values(f) == {f[p] : p \in DOMAIN f}
UpTo(f, v) == {p \in DOMAIN f : f[p] <= v}
Under(f, v) == {p \in DOMAIN f : f[p] < v}

LEMMA ValuesFinite ==
  ASSUME NEW S, IsFiniteSet(S), S # {}, NEW f \in [S -> Nat]
  PROVE  Values(f) \in SUBSET Nat /\ IsFiniteSet(Values(f)) /\ Values(f) # {}
<1>1. f \in Surjection(S, Values(f))
  BY DEF Surjection, Values
<1>2. QED
  BY <1>1, FS_Surjection DEF Values

LEMMA RankBounds ==
  ASSUME NEW n \in Nat \ {0}
  PROVE  /\ Rank(n) \in 1..n
         /\ 100 * Rank(n) >= Percent * n
<1>1. Percent * n \in Nat /\ Percent * n <= 100 * n
  BY RecommendAssumption, Z3
<1> DEFINE m == Percent * n
<1>2. m \in Nat /\ m <= 100 * n
  BY <1>1
<1>3. Rank(n) = IF m < 100 THEN 1 ELSE (m + 99) \div 100
  BY DEF Rank
<1> HIDE DEF m
<1>4. Rank(n) \in 1..n /\ 100 * Rank(n) >= m
  BY <1>2, <1>3
<1>5. QED
  BY <1>4 DEF m

LEMMA MinimumIs ==
  ASSUME NEW S, IsFiniteSet(S), S # {}, NEW f \in [S -> Nat]
  PROVE  Minimum(f) \in Nat /\ \A p \in S : Minimum(f) <= f[p]
<1>1. PICK v \in Values(f) : \A w \in Values(f) : v <= w
  BY ValuesFinite, Extremes
<1>2. \A p \in DOMAIN f : v <= f[p]
  BY <1>1 DEF Values
<1>3. Minimum(f) \in Values(f) /\ \A p \in DOMAIN f : Minimum(f) <= f[p]
  BY <1>1, <1>2 DEF Minimum, Values
<1>4. QED
  BY <1>3, ValuesFinite

\* There is a value at the rank.
LEMMA PercentileIs ==
  ASSUME NEW S, IsFiniteSet(S), S # {}, NEW f \in [S -> Nat]
  PROVE  /\ Percentile(f) \in Nat
         /\ Cardinality(UpTo(f, Percentile(f))) >= Rank(Cardinality(S))
<1> DEFINE r == Rank(Cardinality(S))
           U == {v \in Values(f) : Cardinality(UpTo(f, v)) >= r}
<1>1. Cardinality(S) \in Nat \ {0} /\ r \in 1..Cardinality(S)
  BY FS_CardinalityType, FS_EmptySet, RankBounds
<1>2. Values(f) \in SUBSET Nat /\ IsFiniteSet(Values(f)) /\ Values(f) # {}
  BY ValuesFinite
<1>3. U # {}
  <2>1. PICK v \in Values(f) : \A w \in Values(f) : w <= v
    BY <1>2, Extremes
  <2>2. UpTo(f, v) = S
    BY <2>1 DEF UpTo, Values
  <2>3. QED
    BY <1>1, <2>1, <2>2
<1>4. U \in SUBSET Nat /\ IsFiniteSet(U)
  BY <1>2, FS_Subset
<1>5. PICK v \in U : \A w \in U : v <= w
  BY <1>3, <1>4, Extremes
<1>6. Cardinality(Under(f, v)) < r
  <2>1. CASE Under(f, v) = {}
    BY <1>1, <2>1, FS_EmptySet
  <2>2. CASE Under(f, v) # {}
    <3> DEFINE W == {w \in Values(f) : w < v}
    <3>1. W \in SUBSET Nat /\ IsFiniteSet(W) /\ W # {}
      <4>1. W \in SUBSET Nat /\ IsFiniteSet(W)
        BY <1>2, FS_Subset
      <4>2. W # {}
        BY <2>2 DEF Under, Values
      <4>3. QED
        BY <4>1, <4>2
    <3>2. PICK w \in W : \A x \in W : x <= w
      <4> HIDE DEF W
      <4> QED BY <3>1, Extremes
    <3>3. UpTo(f, w) = Under(f, v)
      <4>1. v \in Nat /\ w \in Nat /\ w < v
        BY <1>4, <1>5, <3>1
      <4>2. \A p \in DOMAIN f : f[p] < v => f[p] <= w
        BY <3>2 DEF Values
      <4>3. QED
        BY <4>1, <4>2 DEF UpTo, Under
    <3>4. w \notin U
      BY <1>4, <1>5, <3>1
    <3>5. ~(Cardinality(UpTo(f, w)) >= r)
      BY <3>4
    <3>6. Cardinality(Under(f, v)) \in Nat
      BY FS_Subset, FS_CardinalityType DEF Under
    <3>7. QED
      BY <1>1, <3>3, <3>5, <3>6
  <2>3. QED
    BY <2>1, <2>2
<1>7. Cardinality(UpTo(f, v)) >= r /\ v \in Values(f)
  BY <1>5
<1>8. /\ Percentile(f) \in Values(f)
      /\ Cardinality(UpTo(f, Percentile(f))) >= r
  <2>1. DOMAIN f = S
    OBVIOUS
  <2>2. \E x \in Values(f) : Cardinality(Under(f, x)) < r /\ Cardinality(UpTo(f, x)) >= r
    BY <1>6, <1>7
  <2>3. Percentile(f) = CHOOSE x \in Values(f) :
            Cardinality(Under(f, x)) < r /\ Cardinality(UpTo(f, x)) >= r
    BY <2>1 DEF Percentile, Values, Under, UpTo
  <2> HIDE DEF r
  <2>4. QED
    BY <2>2, <2>3
<1>9. QED
  BY <1>2, <1>8

LEMMA Rounding ==
  ASSUME NEW x \in Nat
  PROVE  /\ Rounded(x) \in Nat
         /\ 2 * x <= 2 * Rounded(x) + Grain
         /\ 2 * Rounded(x) <= 2 * x + Grain
<1> DEFINE q == (2 * x + Grain) \div (2 * Grain)
           g == 2 * Grain
<1>1. Grain \in Nat \ {0} /\ g \in Nat \ {0} /\ 2 * x + Grain \in Nat
  BY RecommendAssumption
<1>2. q \in Nat /\ g * q <= 2 * x + Grain /\ 2 * x + Grain < g * q + g
  <2> DEFINE y == 2 * x + Grain
  <2>1. y \in Nat /\ g \in Nat \ {0}
    BY <1>1
  <2>2. q = y \div g
    OBVIOUS
  <2> HIDE DEF y, g
  <2>3. y \div g \in Nat /\ g * (y \div g) <= y /\ y < g * (y \div g) + g
    BY <2>1
  <2>4. QED
    BY <2>2, <2>3 DEF y, g
<1>3. Rounded(x) = Grain * q
  BY DEF Rounded
<1> HIDE DEF q
<1>4. g * q = 2 * (Grain * q) /\ Grain * q \in Nat
  BY <1>1, <1>2, Z3
<1> DEFINE z == Grain * q
<1>5. Rounded(x) = z /\ z \in Nat /\ 2 * z <= 2 * x + Grain /\ 2 * x + Grain < 2 * z + 2 * Grain
  BY <1>2, <1>3, <1>4
<1> HIDE DEF z
<1>6. QED
  BY <1>1, <1>5

-----------------------------------------------------------------------------
(* The inductive invariant. *)

TypeInv ==
    /\ policy \in Policy
    /\ manifest \in IF policy = "profile" THEN {NoManifest} ELSE Manifests
    /\ evidences \in Seq(Evidence)
    /\ next \in 1..(Len(evidences) + 1)
    /\ rows \in Seq(Row)
    /\ rejected \subseteq 1..(next - 1)
    /\ report \in {None, Refused} \cup Report

\* Each row is the candidate of a file that was accepted, no profile has two, and a
\* file is rejected only for itself or for an earlier one of its profile.
Standing(k) ==
    \E i \in 1..(next - 1) :
        rows[k].source = i /\ Acceptable(i) /\ rows[k] = Candidate(i)

RowsInv ==
    /\ \A k \in DOMAIN rows : Standing(k)
    /\ \A k, l \in DOMAIN rows : k # l => rows[k].profile # rows[l].profile
    /\ rejected = {} => Len(rows) = next - 1 /\ \A k \in DOMAIN rows : rows[k].source = k
    /\ \A i \in rejected :
         \/ ~Acceptable(i)
         \/ \E j \in 1..(i - 1) : evidences[j].profile = evidences[i].profile

ReportInv == Decided => next = Len(evidences) + 1 /\ report = Decision

IInv == TypeInv /\ RowsInv /\ ReportInv

LEMMA EvidenceShape ==
  ASSUME NEW ev \in Evidence, Replayable(ev, Target.mode)
  PROVE  /\ ev.repetitions \in Nat \ {0} /\ ev.concurrency \in Nat \ {0}
         /\ \A p \in Sent(ev) : At(ev, p) \in Request
         /\ IsFiniteSet(Sent(ev)) /\ IsFiniteSet(Answered(ev))
<1>1. ev.repetitions \in Nat \ {0} /\ ev.concurrency \in Nat \ {0}
  BY RecommendAssumption DEF Evidence, Replayable
<1>2. ev.batches[Target.mode] \in Seq(Batch)
  BY RecommendAssumption DEF Evidence
<1>3. ASSUME NEW p \in Sent(ev) PROVE At(ev, p) \in Request
  <2>1. p[1] \in 1..ev.repetitions /\ p[2] \in 1..ev.concurrency
    BY DEF Sent
  <2>2. ev.batches[Target.mode][p[1]] \in Batch
    BY <1>1, <1>2, <2>1 DEF Replayable
  <2>3. ev.batches[Target.mode][p[1]].requests \in Seq(Request)
    BY <2>2 DEF Batch
  <2>4. Len(ev.batches[Target.mode][p[1]].requests) = ev.concurrency
    BY <2>1 DEF Replayable
  <2>5. At(ev, p) = ev.batches[Target.mode][p[1]].requests[p[2]]
    BY DEF At
  <2> DEFINE sent == ev.batches[Target.mode][p[1]].requests
             k == p[2]
  <2>6. sent \in Seq(Request) /\ k \in 1..Len(sent) /\ At(ev, p) = sent[k]
    BY <2>1, <2>3, <2>4, <2>5
  <2> HIDE DEF sent, k
  <2>7. QED
    BY <2>6
<1>4. IsFiniteSet(Sent(ev))
  <2>1. 1 \in Int /\ ev.repetitions \in Int /\ ev.concurrency \in Int
    BY <1>1
  <2>2. IsFiniteSet(1..ev.repetitions) /\ IsFiniteSet(1..ev.concurrency)
    BY <2>1, FS_Interval
  <2>3. QED
    BY <2>2, FS_Product DEF Sent
<1>5. IsFiniteSet(Answered(ev))
  BY <1>4, FS_Subset DEF Answered
<1>6. QED
  BY <1>1, <1>3, <1>4, <1>5

LEMMA MetricTypes ==
  ASSUME NEW ev \in Evidence, Replayable(ev, Target.mode)
  PROVE  /\ Ttfa(ev) \in [Answered(ev) -> Nat]
         /\ EndToEnd(ev) \in [Answered(ev) -> Nat]
         /\ Rate(ev) \in [Answered(ev) -> Nat]
         /\ Scores(ev) \in [Answered(ev) -> Nat]
<1>1. \A p \in Answered(ev) : At(ev, p) \in Request
  BY EvidenceShape DEF Answered
<1>2. \A p \in Answered(ev) : /\ At(ev, p).ttfa \in Nat /\ At(ev, p).e2e \in Nat
                              /\ At(ev, p).rate \in Nat /\ At(ev, p).checks \in SUBSET Check
  BY <1>1 DEF Request
<1>3. ASSUME NEW p \in Answered(ev) PROVE Score(At(ev, p)) \in Nat
  <2>1. IsFiniteSet(At(ev, p).checks)
    BY <1>2, RecommendAssumption, FS_Subset
  <2>2. Cardinality(At(ev, p).checks) \in Nat
    BY <2>1, FS_CardinalityType
  <2>3. QED
    BY <2>2 DEF Score
<1>4. /\ Ttfa(ev) \in [Answered(ev) -> Nat] /\ EndToEnd(ev) \in [Answered(ev) -> Nat]
      /\ Rate(ev) \in [Answered(ev) -> Nat]
  BY <1>2 DEF Ttfa, EndToEnd, Rate
<1>5. Scores(ev) \in [Answered(ev) -> Nat]
  BY <1>3 DEF Scores
<1>6. QED
  BY <1>4, <1>5

LEMMA MetricValues ==
  ASSUME NEW ev \in Evidence, Replayable(ev, Target.mode), Answered(ev) # {}
  PROVE  /\ Rounded(Percentile(Ttfa(ev))) \in Nat
         /\ Rounded(Percentile(EndToEnd(ev))) \in Nat
         /\ Rounded(Minimum(Rate(ev))) \in Nat
<1>1. /\ Percentile(Ttfa(ev)) \in Nat /\ Percentile(EndToEnd(ev)) \in Nat
      /\ Minimum(Rate(ev)) \in Nat
  BY EvidenceShape, MetricTypes, PercentileIs, MinimumIs
<1>2. QED
  BY <1>1, Rounding

LEMMA CandidateType ==
  ASSUME TypeInv, NEW i \in 1..Len(evidences), Acceptable(i)
  PROVE  Candidate(i) \in Row
<1> DEFINE ev == evidences[i]
<1>1. ev \in Evidence /\ Replayable(ev, Target.mode)
  BY RecommendAssumption DEF TypeInv, Acceptable
<1>2. i \in Nat /\ ev.profile \in Profile
  BY <1>1 DEF TypeInv, Evidence
<1>3. Blocking(ev) \in SUBSET Objective
  BY DEF Blocking, Objective
<1>4. Candidate(i).cost \in Optional(Nat)
  <2>1. CASE Deployment
    <3>1. manifest \in Manifests /\ ev.profile \in DOMAIN manifest
      BY <2>1 DEF TypeInv, Acceptable, Deployment
    <3>2. manifest[ev.profile] \in Metadata
      BY <3>1, RecommendAssumption
    <3>3. QED
      BY <2>1, <3>2 DEF Metadata, Candidate, Optional
  <2>2. CASE ~Deployment
    BY <2>2 DEF Candidate, Optional
  <2>3. QED
    BY <2>1, <2>2
<1>5. /\ Candidate(i).ttfa \in Optional(Nat)
      /\ Candidate(i).e2e \in Optional(Nat)
      /\ Candidate(i).rate \in Optional(Nat)
  <2>1. CASE Answered(ev) = {}
    BY <2>1 DEF Candidate, Optional
  <2>2. CASE Answered(ev) # {}
    BY <1>1, <2>2, MetricValues DEF Candidate, Optional
  <2>3. QED
    BY <2>1, <2>2
<1>6. Candidate(i) = [source |-> i, profile |-> ev.profile, blocking |-> Blocking(ev),
                      ttfa |-> Candidate(i).ttfa, e2e |-> Candidate(i).e2e,
                      rate |-> Candidate(i).rate, cost |-> Candidate(i).cost]
  BY DEF Candidate
<1>7. QED
  BY <1>2, <1>3, <1>4, <1>5, <1>6 DEF Row

\* What is known of a file does not change.
LEMMA InputFrame ==
  ASSUME UNCHANGED input
  PROVE  \A i : (Acceptable(i)' <=> Acceptable(i)) /\ Candidate(i)' = Candidate(i)
<1>1. policy' = policy /\ manifest' = manifest /\ evidences' = evidences
  BY DEF input
<1>2. Deployment' <=> Deployment
  BY <1>1 DEF Deployment
<1>3. ASSUME NEW i PROVE (Acceptable(i)' <=> Acceptable(i)) /\ Candidate(i)' = Candidate(i)
  <2>1. Acceptable(i)' <=> Acceptable(i)
    BY <1>1, <1>2 DEF Acceptable
  <2>2. Blocking(evidences[i])' = Blocking(evidences[i])
    BY <1>1, <1>2 DEF Blocking
  <2>3. Candidate(i)' = Candidate(i)
    BY <1>1, <1>2, <2>2 DEF Candidate
  <2>4. QED
    BY <2>1, <2>3
<1>4. QED
  BY <1>3

LEMMA InvInit == Init => IInv
<1> SUFFICES ASSUME Init PROVE IInv
  OBVIOUS
<1>1. evidences \in Seq(Evidence) /\ Len(evidences) \in Nat
  BY RecommendAssumption DEF Init
<1>2. TypeInv
  BY <1>1 DEF Init, TypeInv
<1>3. RowsInv
  BY DEF Init, RowsInv
<1>4. ReportInv
  BY DEF Init, ReportInv, Decided
<1>5. QED
  BY <1>2, <1>3, <1>4 DEF IInv

\* The frame of an examination: nothing is decided before or after it.
LEMMA ExamineFrame ==
  ASSUME IInv, Examine
  PROVE  /\ UNCHANGED <<input, report>> /\ report = None
         /\ next' = next + 1 /\ next \in 1..Len(evidences)
         /\ next' \in 1..(Len(evidences) + 1)
         /\ ReportInv'
<1>1. next \in 1..Len(evidences) /\ Len(evidences) \in Nat
  BY DEF IInv, TypeInv, Examine
<1>2. ~Decided'
  BY DEF Examine, Decided
<1>3. QED
  BY <1>1, <1>2 DEF Examine, ReportInv

LEMMA AcceptStep == IInv /\ Accept => IInv'
<1> SUFFICES ASSUME IInv, Accept PROVE IInv'
  OBVIOUS
<1>1. /\ UNCHANGED <<input, report>> /\ report = None
      /\ next' = next + 1 /\ next \in 1..Len(evidences)
      /\ next' \in 1..(Len(evidences) + 1)
      /\ ReportInv'
  BY ExamineFrame DEF Accept
<1> DEFINE row == Candidate(next)
<1>2. /\ Acceptable(next) /\ rows' = Append(rows, row) /\ rejected' = rejected
      /\ evidences[next].profile \notin Examined
  BY DEF Accept
<1>3. row \in Row /\ row.source = next /\ row.profile = evidences[next].profile
  <2>1. row \in Row
    BY <1>1, <1>2, CandidateType DEF IInv
  <2>2. QED
    BY <2>1 DEF Candidate
<1> HIDE DEF row
<1>4. /\ rows \in Seq(Row) /\ rows' \in Seq(Row) /\ Len(rows') = Len(rows) + 1
      /\ \A k \in 1..Len(rows) : rows'[k] = rows[k]
      /\ rows'[Len(rows) + 1] = row
  BY <1>2, <1>3 DEF IInv, TypeInv
<1>5. TypeInv'
  <2>1. rejected' \subseteq 1..(next' - 1)
    BY <1>1, <1>2 DEF IInv, TypeInv
  <2>2. QED
    BY <1>1, <1>4, <2>1 DEF IInv, TypeInv, input
<1>6. evidences' = evidences /\ \A i : (Acceptable(i)' <=> Acceptable(i)) /\ Candidate(i)' = Candidate(i)
  BY <1>1, InputFrame DEF input
<1>7. PICK n \in 1..Len(evidences) : n = next
  BY <1>1
<1>8. ASSUME NEW k \in DOMAIN rows' PROVE Standing(k)'
  <2>1. CASE k \in 1..Len(rows)
    <3>1. PICK i \in 1..(next - 1) : rows[k].source = i /\ Acceptable(i) /\ rows[k] = Candidate(i)
      BY <2>1 DEF IInv, TypeInv, RowsInv, Standing
    <3>2. rows'[k] = rows[k] /\ i \in 1..(next' - 1)
      BY <1>1, <1>4, <2>1
    <3>3. QED
      BY <1>6, <3>1, <3>2 DEF Standing
  <2>2. CASE k = Len(rows) + 1
    <3>1. rows'[k] = row /\ row.source = n /\ Acceptable(n) /\ n \in 1..(next' - 1)
      BY <1>1, <1>2, <1>3, <1>4, <1>7, <2>2
    <3>2. row = Candidate(n)
      BY <1>7 DEF row
    <3>3. QED
      BY <1>6, <3>1, <3>2 DEF Standing
  <2>3. QED
    BY <1>4, <2>1, <2>2
<1>9. \A k, l \in DOMAIN rows' : k # l => rows'[k].profile # rows'[l].profile
  <2>1. \A k \in 1..Len(rows) : rows[k].profile # row.profile
    BY <1>2, <1>3 DEF Examined, IInv, TypeInv
  <2>2. DOMAIN rows' = 1..(Len(rows) + 1) /\ DOMAIN rows = 1..Len(rows)
    BY <1>4
  <2>3. QED
    BY <1>4, <2>1, <2>2 DEF IInv, RowsInv
<1>10. rejected' = {} => Len(rows') = next' - 1 /\ \A k \in DOMAIN rows' : rows'[k].source = k
  <2>1. SUFFICES ASSUME rejected = {}
                 PROVE  Len(rows') = next' - 1 /\ \A k \in DOMAIN rows' : rows'[k].source = k
    BY <1>2
  <2>2. Len(rows) = next - 1 /\ \A k \in 1..Len(rows) : rows[k].source = k
    BY <1>4, <2>1 DEF IInv, RowsInv
  <2>3. Len(rows') = next' - 1 /\ Len(rows) + 1 = next
    BY <1>1, <1>4, <2>2
  <2>4. ASSUME NEW k \in 1..(Len(rows) + 1) PROVE rows'[k].source = k
    <3>1. CASE k \in 1..Len(rows)
      BY <1>4, <2>2, <3>1
    <3>2. CASE k = Len(rows) + 1
      BY <1>3, <1>4, <2>3, <3>2
    <3>3. Len(rows) \in Nat
      BY <1>4
    <3>4. QED
      BY <3>1, <3>2, <3>3
  <2>5. DOMAIN rows' = 1..(Len(rows) + 1)
    BY <1>4
  <2>6. QED
    BY <2>3, <2>4, <2>5
<1>11. \A i \in rejected' :
         ~Acceptable(i)' \/ \E j \in 1..(i - 1) : evidences'[j].profile = evidences'[i].profile
  BY <1>2, <1>6 DEF IInv, RowsInv
<1>12. RowsInv'
  BY <1>8, <1>9, <1>10, <1>11 DEF RowsInv
<1>13. QED
  BY <1>1, <1>5, <1>12 DEF IInv

LEMMA RejectStep == IInv /\ Reject => IInv'
<1> SUFFICES ASSUME IInv, Reject PROVE IInv'
  OBVIOUS
<1>1. /\ UNCHANGED <<input, report>> /\ report = None
      /\ next' = next + 1 /\ next \in 1..Len(evidences)
      /\ next' \in 1..(Len(evidences) + 1)
      /\ ReportInv'
  BY ExamineFrame DEF Reject
<1>2. /\ rejected' = rejected \cup {next} /\ rows' = rows
      /\ ~Acceptable(next) \/ evidences[next].profile \in Examined
  BY DEF Reject
<1>3. rejected \subseteq 1..(next - 1) /\ rows \in Seq(Row) /\ rejected' \subseteq 1..(next' - 1)
  BY <1>1, <1>2 DEF IInv, TypeInv
<1>4. TypeInv'
  BY <1>1, <1>2, <1>3 DEF IInv, TypeInv, input
<1>5. evidences' = evidences /\ \A i : (Acceptable(i)' <=> Acceptable(i)) /\ Candidate(i)' = Candidate(i)
  BY <1>1, InputFrame DEF input
<1>6. PICK n \in 1..Len(evidences) : n = next
  BY <1>1
<1>7. ASSUME NEW k \in DOMAIN rows' PROVE Standing(k)'
  <2>1. PICK i \in 1..(next - 1) : rows[k].source = i /\ Acceptable(i) /\ rows[k] = Candidate(i)
    BY <1>2 DEF IInv, RowsInv, Standing
  <2>2. i \in 1..(next' - 1)
    BY <1>1
  <2>3. QED
    BY <1>2, <1>5, <2>1, <2>2 DEF Standing
<1>8. \A k, l \in DOMAIN rows' : k # l => rows'[k].profile # rows'[l].profile
  BY <1>2 DEF IInv, RowsInv
<1>9. rejected' # {}
  BY <1>2
<1>10. ASSUME NEW i \in rejected'
       PROVE  \/ ~Acceptable(i)'
              \/ \E j \in 1..(i - 1) : evidences'[j].profile = evidences'[i].profile
  <2>1. CASE i \in rejected
    BY <1>5, <2>1 DEF IInv, RowsInv
  <2>2. CASE i = n
    <3>1. CASE ~Acceptable(n)
      BY <1>5, <2>2, <3>1
    <3>2. CASE evidences[n].profile \in Examined
      <4>1. PICK k \in DOMAIN rows : rows[k].profile = evidences[n].profile
        BY <3>2 DEF Examined
      <4>2. PICK j \in 1..(next - 1) : rows[k] = Candidate(j)
        BY DEF IInv, RowsInv, Standing
      <4>3. evidences[j].profile = evidences[n].profile
        BY <4>1, <4>2 DEF Candidate
      <4>4. QED
        BY <1>5, <1>6, <2>2, <4>3
    <3>3. QED
      BY <1>2, <1>6, <3>1, <3>2
  <2>3. QED
    BY <1>2, <1>6, <2>1, <2>2
<1>11. RowsInv'
  BY <1>7, <1>8, <1>9, <1>10 DEF RowsInv
<1>12. QED
  BY <1>1, <1>4, <1>11 DEF IInv

-----------------------------------------------------------------------------
(* The ranking. *)

Preference == {rs \in EligibleRows \X EligibleRows : Before(rs[1], rs[2])}

\* A row as the ranking sees it: the metrics are numbers.
Number(row) == /\ row.profile \in Nat /\ row.ttfa \in Nat /\ row.e2e \in Nat
               /\ row.rate \in Nat /\ row.cost \in Optional(Nat)

\* The order of the hash and the order of the cost decide between any two rows.
LEMMA CheaperOrder ==
  ASSUME NEW c \in Optional(Nat), NEW d \in Optional(Nat), NEW e \in Optional(Nat)
  PROVE  /\ ~Cheaper(c, c)
         /\ Cheaper(c, d) /\ Cheaper(d, e) => Cheaper(c, e)
         /\ c # d => Cheaper(c, d) \/ Cheaper(d, c)
  BY RecommendAssumption DEF Cheaper, Optional

LEMMA BeforeOrder ==
  ASSUME NEW r, Number(r), NEW s, Number(s), NEW t, Number(t)
  PROVE  /\ ~Before(r, r)
         /\ Before(r, s) /\ Before(s, t) => Before(r, t)
         /\ r.profile # s.profile => Before(r, s) \/ Before(s, r)
<1>1. /\ ~Cheaper(r.cost, r.cost)
      /\ Cheaper(r.cost, s.cost) /\ Cheaper(s.cost, t.cost) => Cheaper(r.cost, t.cost)
      /\ r.cost # s.cost => Cheaper(r.cost, s.cost) \/ Cheaper(s.cost, r.cost)
  BY CheaperOrder DEF Number
<1>2. ~Before(r, r)
  BY <1>1 DEF Before, Number
<1>3. Before(r, s) /\ Before(s, t) => Before(r, t)
  BY <1>1 DEF Before, Number
<1>4. r.profile # s.profile => Before(r, s) \/ Before(s, r)
  BY <1>1 DEF Before, Number
<1>5. QED
  BY <1>2, <1>3, <1>4

\* What meets every objective has an answer, so its metrics are numbers.
LEMMA EligibleNumbers ==
  ASSUME TypeInv, NEW i \in 1..Len(evidences), Acceptable(i), Blocking(evidences[i]) = {}
  PROVE  Number(Candidate(i)) /\ Answered(evidences[i]) # {}
<1> DEFINE ev == evidences[i]
<1>1. ev \in Evidence /\ Replayable(ev, Target.mode)
  BY RecommendAssumption DEF TypeInv, Acceptable
<1>2. Answered(ev) # {}
  <2>1. Meets(ev, "ttfa_p95_ms")
    BY DEF Blocking, Objective
  <2>2. QED
    BY <2>1 DEF Meets
<1>3. Candidate(i) \in Row
  BY CandidateType
<1>4. Candidate(i).profile \in Nat /\ Candidate(i).cost \in Optional(Nat)
  BY <1>3, RecommendAssumption DEF Row
<1>5. /\ Candidate(i).ttfa \in Nat /\ Candidate(i).e2e \in Nat /\ Candidate(i).rate \in Nat
  BY <1>1, <1>2, MetricValues DEF Candidate
<1>6. QED
  BY <1>2, <1>4, <1>5 DEF Number

LEMMA EligibleRow ==
  ASSUME IInv, NEW r \in EligibleRows
  PROVE  Number(r) /\ r \in Row
<1>1. PICK k \in DOMAIN rows : r = rows[k] /\ Eligible(rows[k])
  BY DEF EligibleRows
<1>2. PICK i \in 1..(next - 1) : rows[k].source = i /\ Acceptable(i) /\ rows[k] = Candidate(i)
  BY DEF IInv, RowsInv, Standing
<1>3. i \in 1..Len(evidences)
  BY DEF IInv, TypeInv
<1>4. Blocking(evidences[i]) = {}
  BY <1>1, <1>2 DEF Eligible, Candidate
<1>5. Number(Candidate(i)) /\ Candidate(i) \in Row
  BY <1>2, <1>3, <1>4, EligibleNumbers, CandidateType DEF IInv
<1>6. QED
  BY <1>1, <1>2, <1>5

LEMMA PreferenceOrder ==
  ASSUME IInv
  PROVE  IsFiniteSet(EligibleRows) /\ StrictOrder(EligibleRows, Preference)
<1>1. IsFiniteSet(EligibleRows)
  <2> DEFINE J == {j \in DOMAIN rows : Eligible(rows[j])}
             f == [k \in J |-> rows[k]]
  <2>1. IsFiniteSet(DOMAIN rows)
    <3>1. DOMAIN rows = 1..Len(rows) /\ Len(rows) \in Int /\ 1 \in Int
      BY DEF IInv, TypeInv
    <3>2. QED
      BY <3>1, FS_Interval
  <2>2. IsFiniteSet(J)
    BY <2>1, FS_Subset
  <2>3. f \in Surjection(J, EligibleRows)
    BY DEF Surjection, EligibleRows
  <2>4. QED
    BY <2>2, <2>3, FS_Surjection
<1>2. \A r, s \in EligibleRows : r # s => r.profile # s.profile
  BY DEF EligibleRows, IInv, RowsInv
<1>3. ASSUME NEW r \in EligibleRows, NEW s \in EligibleRows, NEW t \in EligibleRows
      PROVE  /\ ~Before(r, r)
             /\ Before(r, s) /\ Before(s, t) => Before(r, t)
             /\ r # s => Before(r, s) \/ Before(s, r)
  <2>1. Number(r) /\ Number(s) /\ Number(t)
    BY EligibleRow
  <2>2. QED
    BY <1>2, <2>1, BeforeOrder
<1>4. \A r, s \in EligibleRows : <<r, s>> \in Preference <=> Before(r, s)
  BY DEF Preference
<1>5. QED
  BY <1>1, <1>3, <1>4 DEF StrictOrder

LEMMA RankedIs ==
  ASSUME IInv
  PROVE  /\ Cardinality(EligibleRows) \in Nat
         /\ DOMAIN Ranked = 1..Cardinality(EligibleRows)
         /\ \A n \in DOMAIN Ranked :
              /\ Ranked[n] \in EligibleRows
              /\ Cardinality(Below(EligibleRows, Preference, Ranked[n])) = n - 1
         /\ \A r \in EligibleRows : \E n \in DOMAIN Ranked : Ranked[n] = r
<1> DEFINE E == EligibleRows
           R == Preference
           c == Cardinality(E)
<1>1. IsFiniteSet(E) /\ StrictOrder(E, R)
  BY PreferenceOrder
<1>2. \A r \in E : {s \in E : Before(s, r)} = Below(E, R, r)
  BY DEF Below, Preference
<1>3. c \in Nat /\ DOMAIN Ranked = 1..c
  BY <1>1, FS_CardinalityType DEF Ranked
<1>4. ASSUME NEW n \in 1..c
      PROVE  Ranked[n] \in E /\ Cardinality(Below(E, R, Ranked[n])) = n - 1
  <2>1. n - 1 \in 0..(c - 1)
    BY <1>3
  <2>2. \E r \in E : Cardinality(Below(E, R, r)) = n - 1
    <3> HIDE DEF E, R
    <3> QED BY <1>1, <2>1, PlaceTaken
  <2>3. Ranked[n] = CHOOSE r \in E : Cardinality({s \in E : Before(s, r)}) = n - 1
    BY DEF Ranked
  <2>4. \E r \in E : Cardinality({s \in E : Before(s, r)}) = n - 1
    BY <1>2, <2>2
  <2>5. Ranked[n] \in E /\ Cardinality({s \in E : Before(s, Ranked[n])}) = n - 1
    BY <2>3, <2>4
  <2>6. QED
    BY <1>2, <2>5
<1>5. ASSUME NEW r \in E PROVE \E n \in 1..c : Ranked[n] = r
  <2> DEFINE n == Cardinality(Below(E, R, r)) + 1
  <2>1. Cardinality(Below(E, R, r)) \in 0..(c - 1)
    <3> HIDE DEF E, R
    <3> QED BY <1>1, Places
  <2>2. n \in 1..c
    BY <1>3, <2>1
  <2>3. Ranked[n] \in E /\ Cardinality(Below(E, R, Ranked[n])) = Cardinality(Below(E, R, r))
    BY <1>4, <2>1, <2>2
  <2>4. Ranked[n] = r
    <3> HIDE DEF E, R
    <3> QED BY <1>1, <2>3, Places
  <2>5. QED
    BY <2>2, <2>4
<1>6. QED
  BY <1>3, <1>4, <1>5

LEMMA DecisionType == ASSUME IInv PROVE Decision \in Report
<1>1. Decision.verdict \in Verdict
  BY DEF Decision, Verdict
<1>2. Decision.comparable \in BOOLEAN
  BY DEF Decision, Comparable
<1>3. [n \in DOMAIN Ranked |-> Ranked[n].profile] \in Seq(Profile)
  <2>1. \A n \in DOMAIN Ranked : Ranked[n].profile \in Profile
    BY RankedIs, EligibleRow DEF Row
  <2>2. DOMAIN Ranked = 1..Cardinality(EligibleRows) /\ Cardinality(EligibleRows) \in Nat
    BY RankedIs
  <2>3. QED
    BY <2>1, <2>2
<1>4. Decision.ranking \in Seq(Profile)
  BY <1>3 DEF Decision
<1>5. Decision = [verdict |-> Decision.verdict, comparable |-> Decision.comparable,
                  ranking |-> Decision.ranking]
  BY DEF Decision
<1>6. QED
  BY <1>1, <1>2, <1>4, <1>5 DEF Report

LEMMA DecisionFrame ==
  ASSUME UNCHANGED <<input, rows, rejected>>
  PROVE  Decision' = Decision
<1>1. policy' = policy /\ manifest' = manifest /\ evidences' = evidences
      /\ rows' = rows /\ rejected' = rejected
  BY DEF input
<1>2. Deployment' <=> Deployment
  BY <1>1 DEF Deployment
<1>3. Comparable' <=> Comparable
  BY <1>1, <1>2 DEF Comparable, SignatureOf, Signature
<1>4. Sufficient' <=> Sufficient
  BY <1>1, <1>2, <1>3 DEF Sufficient, MinimumCandidates
<1>5. EligibleRows' = EligibleRows
  BY <1>1 DEF EligibleRows, Eligible
<1>6. Ranked' = Ranked
  BY <1>1, <1>5 DEF Ranked, Before
<1>7. MissingCost' <=> MissingCost
  BY <1>1, <1>5 DEF MissingCost
<1>8. QED
  BY <1>3, <1>4, <1>5, <1>6, <1>7 DEF Decision

LEMMA InvStep == IInv /\ [Next]_vars => IInv'
<1> SUFFICES ASSUME IInv, [Next]_vars PROVE IInv'
  OBVIOUS
<1>1. ASSUME UNCHANGED <<input, next, rows, rejected>>,
             report' \in {None, Refused} \cup Report, ReportInv'
      PROVE  IInv'
  <2>1. policy' = policy /\ manifest' = manifest /\ evidences' = evidences
        /\ next' = next /\ rows' = rows /\ rejected' = rejected
    BY <1>1 DEF input
  <2>2. TypeInv'
    BY <1>1, <2>1 DEF IInv, TypeInv
  <2>3. \A i : (Acceptable(i)' <=> Acceptable(i)) /\ Candidate(i)' = Candidate(i)
    BY <1>1, InputFrame
  <2>4. \A k \in DOMAIN rows : Standing(k)'
    BY <2>1, <2>3 DEF IInv, RowsInv, Standing
  <2>5. RowsInv'
    BY <2>1, <2>3, <2>4 DEF IInv, RowsInv
  <2>6. QED
    BY <1>1, <2>2, <2>5 DEF IInv
<1>2. CASE RefuseManifest
  <2>1. UNCHANGED <<input, next, rows, rejected>> /\ report' = Refused
    BY <1>2 DEF RefuseManifest
  <2>2. ReportInv'
    BY <2>1 DEF ReportInv, Decided
  <2>3. QED
    BY <1>1, <2>1, <2>2
<1>3. CASE Accept
  BY <1>3, AcceptStep
<1>4. CASE Reject
  BY <1>4, RejectStep
<1>5. CASE Decide
  <2>1. UNCHANGED <<input, next, rows, rejected>> /\ report' = Decision /\ next > Len(evidences)
    BY <1>5 DEF Decide
  <2>2. report' \in Report
    BY <2>1, DecisionType
  <2>3. Decision' = Decision
    BY <2>1, DecisionFrame
  <2>4. next' = Len(evidences)' + 1
    BY <2>1 DEF IInv, TypeInv, input
  <2>5. ReportInv'
    BY <2>1, <2>3, <2>4 DEF ReportInv
  <2>6. QED
    BY <1>1, <2>1, <2>2, <2>5
<1>6. CASE UNCHANGED vars
  <2>1. UNCHANGED <<input, next, rows, rejected>> /\ report' = report
    BY <1>6 DEF vars, input
  <2>2. Decision' = Decision
    BY <2>1, DecisionFrame
  <2>3. ReportInv'
    BY <2>1, <2>2 DEF IInv, ReportInv, Decided, input
  <2>4. QED
    BY <1>1, <2>1, <2>3 DEF IInv, TypeInv
<1>7. QED
  BY <1>2, <1>3, <1>4, <1>5, <1>6 DEF Next

LEMMA Invariant == Spec => []IInv
  BY InvInit, InvStep, PTL DEF Spec

\* Every value the decision computes has its type: in particular a percentile, a
\* minimum and each place of the ranking exist.
THEOREM TypeCorrect == Spec => []TypeOK
<1>1. IInv => TypeOK
  <2> SUFFICES ASSUME IInv PROVE TypeOK
    OBVIOUS
  <2>1. manifest \in Manifests \cup {NoManifest}
    BY DEF IInv, TypeInv
  <2>2. rejected \subseteq 1..Len(evidences)
    BY DEF IInv, TypeInv
  <2>3. QED
    BY <2>1, <2>2 DEF IInv, TypeInv, TypeOK
<1>2. QED
  BY <1>1, Invariant, PTL

-----------------------------------------------------------------------------
(* What is recommended is borne out. *)

LEMMA ShareWithin ==
  ASSUME NEW S, IsFiniteSet(S), S # {}, NEW f \in [S -> Nat], NEW T \in Nat,
         Rounded(Percentile(f)) <= T
  PROVE  100 * Cardinality({p \in S : 2 * f[p] <= 2 * T + Grain}) >= Percent * Cardinality(S)
<1> DEFINE v == Percentile(f)
           W == {p \in S : 2 * f[p] <= 2 * T + Grain}
           n == Cardinality(S)
<1>1. v \in Nat /\ Cardinality(UpTo(f, v)) >= Rank(n)
  BY PercentileIs
<1>2. 2 * v <= 2 * T + Grain
  <2>1. Rounded(v) \in Nat /\ 2 * v <= 2 * Rounded(v) + Grain /\ Rounded(v) <= T
    <3> HIDE DEF v
    <3>1. Rounded(v) \in Nat /\ 2 * v <= 2 * Rounded(v) + Grain
      BY <1>1, Rounding
    <3>2. QED
      BY <3>1 DEF v
  <2> HIDE DEF v
  <2>2. QED
    BY <1>1, <2>1, RecommendAssumption
<1>3. UpTo(f, v) \in SUBSET W /\ W \in SUBSET S
  <2> HIDE DEF v
  <2>1. Grain \in Nat
    BY RecommendAssumption
  <2>2. QED
    BY <1>1, <1>2, <2>1 DEF UpTo
<1>4. Cardinality(UpTo(f, v)) <= Cardinality(W) /\ Cardinality(W) \in Nat
      /\ Cardinality(UpTo(f, v)) \in Nat
  <2> HIDE DEF v, W
  <2> QED BY <1>3, Count
<1>5. n \in Nat \ {0}
  BY FS_CardinalityType, FS_EmptySet
<1>6. Rank(n) \in Nat /\ 100 * Rank(n) >= Percent * n
  <2> HIDE DEF n
  <2> QED BY <1>5, RankBounds
<1>7. Percent * n \in Nat
  BY <1>5, RecommendAssumption, Z3
<1> HIDE DEF v, W, n
<1>8. 100 * Cardinality(W) >= Percent * n
  <2> DEFINE a == Cardinality(W)
             b == Cardinality(UpTo(f, v))
             c == Percent * n
             d == Rank(n)
  <2>1. a \in Nat /\ b \in Nat /\ c \in Nat /\ d \in Nat /\ b <= a /\ b >= d /\ 100 * d >= c
    BY <1>1, <1>4, <1>6, <1>7
  <2> HIDE DEF a, b, c, d
  <2>2. 100 * a >= c
    BY <2>1
  <2>3. QED
    BY <2>2 DEF a, c
<1>9. QED
  BY <1>8 DEF W, n

BorneOut(ev) ==
    LET n == Cardinality(Answered(ev))
    IN /\ n > 0
       /\ 100 * (Cardinality(Sent(ev)) - n) <= Target.errors * Cardinality(Sent(ev))
       /\ \A p \in Answered(ev) :
             /\ At(ev, p).stop /\ Required \subseteq At(ev, p).checks
             /\ Cardinality(At(ev, p).checks) >= Target.score
             /\ 2 * At(ev, p).rate + Grain >= 2 * Target.rate
       /\ 100 * Cardinality({p \in Answered(ev) :
                               2 * At(ev, p).ttfa <= 2 * Target.ttfa + Grain}) >= Percent * n
       /\ 100 * Cardinality({p \in Answered(ev) :
                               2 * At(ev, p).e2e <= 2 * Target.e2e + Grain}) >= Percent * n

LEMMA UnblockedIsBorneOut ==
  ASSUME NEW ev \in Evidence, Replayable(ev, Target.mode), Blocking(ev) = {}
  PROVE  BorneOut(ev)
<1> DEFINE S == Answered(ev)
           n == Cardinality(S)
<1>1. \A o \in Objective : Meets(ev, o)
  BY DEF Blocking
<1>2. /\ S # {}
      /\ Rounded(Percentile(Ttfa(ev))) <= Target.ttfa
      /\ Rounded(Percentile(EndToEnd(ev))) <= Target.e2e
      /\ Rounded(Minimum(Rate(ev))) >= Target.rate
      /\ 100 * Cardinality(Sent(ev) \ S) <= Target.errors * Cardinality(Sent(ev))
      /\ Minimum(Scores(ev)) >= Target.score
      /\ Complete(ev)
  <2>1. /\ Meets(ev, "ttfa_p95_ms") /\ Meets(ev, "end_to_end_p95_ms")
        /\ Meets(ev, "answer_tokens_per_second_min") /\ Meets(ev, "error_rate_max")
        /\ Meets(ev, "quality_minimum_score") /\ Meets(ev, "required_quality_checks")
    BY <1>1 DEF Objective
  <2>2. QED
    BY <2>1 DEF Meets
<1>3. IsFiniteSet(Sent(ev)) /\ IsFiniteSet(S) /\ S \in SUBSET Sent(ev)
      /\ \A p \in S : At(ev, p) \in Request
  BY EvidenceShape DEF Answered
<1>4. /\ Ttfa(ev) \in [S -> Nat] /\ EndToEnd(ev) \in [S -> Nat]
      /\ Rate(ev) \in [S -> Nat] /\ Scores(ev) \in [S -> Nat]
  BY MetricTypes
<1>5. /\ Target.ttfa \in Nat /\ Target.e2e \in Nat /\ Target.rate \in Nat
      /\ Target.score \in Nat /\ Grain \in Nat
  BY RecommendAssumption
<1>6. n > 0
  BY <1>2, <1>3, FS_CardinalityType, FS_EmptySet
<1>7. 100 * (Cardinality(Sent(ev)) - n) <= Target.errors * Cardinality(Sent(ev))
  <2>1. Cardinality(Sent(ev) \ S) = Cardinality(Sent(ev)) - Cardinality(Sent(ev) \cap S)
    BY <1>3, FS_Difference
  <2>2. Sent(ev) \cap S = S
    BY <1>3
  <2>3. Cardinality(Sent(ev) \ S) = Cardinality(Sent(ev)) - n
    BY <2>1, <2>2
  <2>4. QED
    BY <1>2, <2>3
<1>8. ASSUME NEW p \in S
      PROVE  /\ At(ev, p).stop /\ Required \subseteq At(ev, p).checks
             /\ Cardinality(At(ev, p).checks) >= Target.score
             /\ 2 * At(ev, p).rate + Grain >= 2 * Target.rate
  <2>1. At(ev, p).stop /\ Required \subseteq At(ev, p).checks
    BY <1>2 DEF Complete
  <2>2. Cardinality(At(ev, p).checks) >= Target.score
    <3>1. Minimum(Scores(ev)) \in Nat /\ Minimum(Scores(ev)) <= Scores(ev)[p]
      BY <1>2, <1>3, <1>4, MinimumIs
    <3>2. Scores(ev)[p] = Cardinality(At(ev, p).checks) /\ Scores(ev)[p] \in Nat
      BY <1>4, <2>1 DEF Scores, Score
    <3>3. QED
      BY <1>2, <1>5, <3>1, <3>2
  <2>3. 2 * At(ev, p).rate + Grain >= 2 * Target.rate
    <3> DEFINE m == Minimum(Rate(ev))
               rate == At(ev, p).rate
    <3>1. m \in Nat /\ m <= rate /\ rate \in Nat
      <4>1. m \in Nat /\ m <= Rate(ev)[p]
        BY <1>2, <1>3, <1>4, MinimumIs
      <4>2. Rate(ev)[p] = rate /\ rate \in Nat
        BY <1>4 DEF Rate
      <4>3. QED
        BY <4>1, <4>2
    <3>2. Rounded(m) >= Target.rate
      BY <1>2
    <3> HIDE DEF m, rate
    <3>3. Rounded(m) \in Nat /\ 2 * Rounded(m) <= 2 * m + Grain
      BY <3>1, Rounding
    <3>4. 2 * rate + Grain >= 2 * Target.rate
      BY <1>5, <3>1, <3>2, <3>3
    <3>5. QED
      BY <3>4 DEF rate
  <2>4. QED
    BY <2>1, <2>2, <2>3
<1>9. 100 * Cardinality({p \in S : 2 * At(ev, p).ttfa <= 2 * Target.ttfa + Grain}) >= Percent * n
  <2>1. 100 * Cardinality({p \in S : 2 * Ttfa(ev)[p] <= 2 * Target.ttfa + Grain}) >= Percent * n
    BY <1>2, <1>3, <1>4, <1>5, ShareWithin
  <2>2. {p \in S : 2 * Ttfa(ev)[p] <= 2 * Target.ttfa + Grain}
          = {p \in S : 2 * At(ev, p).ttfa <= 2 * Target.ttfa + Grain}
    BY DEF Ttfa
  <2>3. QED
    BY <2>1, <2>2
<1>10. 100 * Cardinality({p \in S : 2 * At(ev, p).e2e <= 2 * Target.e2e + Grain}) >= Percent * n
  <2>1. 100 * Cardinality({p \in S : 2 * EndToEnd(ev)[p] <= 2 * Target.e2e + Grain}) >= Percent * n
    BY <1>2, <1>3, <1>4, <1>5, ShareWithin
  <2>2. {p \in S : 2 * EndToEnd(ev)[p] <= 2 * Target.e2e + Grain}
          = {p \in S : 2 * At(ev, p).e2e <= 2 * Target.e2e + Grain}
    BY DEF EndToEnd
  <2>3. QED
    BY <2>1, <2>2
<1>11. QED
  BY <1>6, <1>7, <1>8, <1>9, <1>10 DEF BorneOut

\* With nothing rejected the rows are the files, one by one.
LEMMA RowsAreFiles ==
  ASSUME IInv, rejected = {}, next = Len(evidences) + 1
  PROVE  /\ DOMAIN rows = Given /\ Len(rows) = Len(evidences)
         /\ \A i \in Given : Acceptable(i) /\ rows[i] = Candidate(i)
         /\ \A i, j \in Given : i # j => evidences[i].profile # evidences[j].profile
<1>1. Len(rows) = Len(evidences) /\ \A k \in DOMAIN rows : rows[k].source = k
  BY DEF IInv, TypeInv, RowsInv
<1>2. DOMAIN rows = Given
  BY <1>1 DEF IInv, TypeInv, Given
<1>3. ASSUME NEW i \in Given PROVE Acceptable(i) /\ rows[i] = Candidate(i)
  <2>1. PICK j \in 1..(next - 1) : rows[i].source = j /\ Acceptable(j) /\ rows[i] = Candidate(j)
    BY <1>2 DEF IInv, RowsInv, Standing
  <2>2. QED
    BY <1>1, <1>2, <2>1
<1>4. \A i \in Given : rows[i].profile = evidences[i].profile
  <2>1. \A i \in Given : Candidate(i).profile = evidences[i].profile
    BY DEF Candidate
  <2>2. QED
    BY <1>3, <2>1
<1>5. \A i, j \in Given : i # j => evidences[i].profile # evidences[j].profile
  BY <1>2, <1>4 DEF IInv, RowsInv
<1>6. QED
  BY <1>1, <1>2, <1>3, <1>5

\* What is eligible is what is fit.
LEMMA EligibleIsFit ==
  ASSUME IInv, rejected = {}, next = Len(evidences) + 1
  PROVE  /\ EligibleRows = {Candidate(i) : i \in Fit}
         /\ \A i \in Fit : /\ i \in Given /\ Number(Candidate(i))
                           /\ Candidate(i).profile = evidences[i].profile
<1>1. DOMAIN rows = Given /\ \A i \in Given : Acceptable(i) /\ rows[i] = Candidate(i)
  BY RowsAreFiles
<1>2. \A i \in Given : Eligible(Candidate(i)) <=> i \in Fit
  BY DEF Eligible, Candidate, Fit
<1>3. EligibleRows = {Candidate(i) : i \in Fit}
  BY <1>1, <1>2 DEF EligibleRows, Fit
<1>4. ASSUME NEW i \in Fit
      PROVE  /\ i \in Given /\ Number(Candidate(i))
             /\ Candidate(i).profile = evidences[i].profile
  <2>1. i \in Given /\ Blocking(evidences[i]) = {}
    BY DEF Fit
  <2>2. i \in 1..Len(evidences)
    BY <2>1 DEF Given
  <2>3. Number(Candidate(i))
    BY <1>1, <2>1, <2>2, EligibleNumbers DEF IInv
  <2>4. Candidate(i).profile = evidences[i].profile
    BY DEF Candidate
  <2>5. QED
    BY <2>1, <2>3, <2>4
<1>5. QED
  BY <1>3, <1>4

\* The one in first place.
LEMMA WinnerIs ==
  ASSUME IInv, rejected = {}, next = Len(evidences) + 1, EligibleRows # {}
  PROVE  \E i \in Fit : /\ Ranked[1].profile = evidences[i].profile
                        /\ 1 \in DOMAIN Ranked
                        /\ \A j \in Fit : j # i => Before(Candidate(i), Candidate(j))
<1>1. IsFiniteSet(EligibleRows) /\ StrictOrder(EligibleRows, Preference)
  BY PreferenceOrder
<1>2. Cardinality(EligibleRows) \in Nat \ {0}
  BY <1>1, FS_CardinalityType, FS_EmptySet
<1>3. 1 \in DOMAIN Ranked
  BY <1>2, RankedIs
<1>4. /\ Ranked[1] \in EligibleRows
      /\ Cardinality(Below(EligibleRows, Preference, Ranked[1])) = 0
  BY <1>3, RankedIs
<1>5. \A s \in EligibleRows : s # Ranked[1] => Before(Ranked[1], s)
  <2>1. \A s \in EligibleRows : s # Ranked[1] => <<Ranked[1], s>> \in Preference
    BY <1>1, <1>4, FirstPlace
  <2>2. QED
    BY <2>1 DEF Preference
<1>6. PICK i \in Fit : Ranked[1] = Candidate(i)
  BY <1>4, EligibleIsFit
<1>7. Ranked[1].profile = evidences[i].profile
  BY <1>6, EligibleIsFit
<1>8. ASSUME NEW j \in Fit, j # i PROVE Before(Candidate(i), Candidate(j))
  <2>1. Candidate(j) \in EligibleRows
    BY EligibleIsFit
  <2>2. evidences[i].profile # evidences[j].profile
    BY <1>8, EligibleIsFit, RowsAreFiles
  <2>3. Candidate(j) # Candidate(i)
    BY <2>2, EligibleIsFit
  <2>4. QED
    BY <1>5, <1>6, <2>1, <2>3
<1>9. QED
  BY <1>3, <1>7, <1>8

\* RECOMMENDED is said of files that are all accepted.
LEMMA Recommended ==
  ASSUME IInv, Decided, report.verdict = "RECOMMENDED"
  PROVE  /\ rejected = {} /\ next = Len(evidences) + 1 /\ EligibleRows # {}
         /\ Sufficient /\ ~MissingCost
         /\ report.ranking = [n \in DOMAIN Ranked |-> Ranked[n].profile]
<1>1. report = Decision /\ next = Len(evidences) + 1
  BY DEF IInv, ReportInv
<1>2. Sufficient /\ ~MissingCost /\ EligibleRows # {}
  BY <1>1 DEF Decision
<1>3. QED
  BY <1>1, <1>2 DEF Decision, Sufficient

\* The raw requests of the profile recommended satisfy the contract, for every
\* percentile, rounding and number of requests.
THEOREM RecommendedBorneOut == Spec => []RecommendedIsBorneOut
<1>1. IInv => RecommendedIsBorneOut
  <2> SUFFICES ASSUME IInv, Decided, report.verdict = "RECOMMENDED",
                      NEW i \in Given, evidences[i].profile = report.ranking[1]
               PROVE  BorneOut(evidences[i])
    BY DEF RecommendedIsBorneOut, BorneOut
  <2>1. /\ rejected = {} /\ next = Len(evidences) + 1 /\ EligibleRows # {}
        /\ report.ranking = [n \in DOMAIN Ranked |-> Ranked[n].profile]
    BY Recommended
  <2>2. PICK w \in Fit : Ranked[1].profile = evidences[w].profile /\ 1 \in DOMAIN Ranked
    BY <2>1, WinnerIs
  <2>3. i = w
    <3>1. evidences[i].profile = evidences[w].profile
      BY <2>1, <2>2
    <3>2. w \in Given
      BY DEF Fit
    <3>3. QED
      BY <2>1, <3>1, <3>2, RowsAreFiles
  <2>4. Blocking(evidences[i]) = {}
    BY <2>3 DEF Fit
  <2>5. evidences[i] \in Evidence /\ Replayable(evidences[i], Target.mode)
    <3>1. evidences[i] \in Evidence
      BY DEF IInv, TypeInv, Given
    <3>2. Acceptable(i) /\ Target.mode \in Mode
      BY <2>1, RowsAreFiles, RecommendAssumption
    <3>3. QED
      BY <3>1, <3>2 DEF Acceptable
  <2>6. QED
    BY <2>4, <2>5, UnblockedIsBorneOut
<1>2. QED
  BY <1>1, Invariant, PTL

-----------------------------------------------------------------------------
(* The decision is of the set. *)

\* What precedes all others survives every criterion in turn, and so does nothing
\* else but with a greater hash.
LEMMA BestIs ==
  ASSUME NEW F, \A j \in F : Number(Candidate(j)), NEW i \in F,
         \A j \in F : j # i => Before(Candidate(i), Candidate(j))
  PROVE  /\ i \in Best(F)
         /\ \A j \in Best(F) : Candidate(i).profile <= Candidate(j).profile
<1>1. ASSUME NEW j \in F, NEW k \in F
      PROVE  /\ ~Cheaper(Candidate(j).cost, Candidate(j).cost)
             /\ ~(Cheaper(Candidate(j).cost, Candidate(k).cost)
                    /\ Cheaper(Candidate(k).cost, Candidate(j).cost))
             /\ Candidate(j).cost # Candidate(k).cost =>
                  \/ Cheaper(Candidate(j).cost, Candidate(k).cost)
                  \/ Cheaper(Candidate(k).cost, Candidate(j).cost)
  <2>1. Candidate(j).cost \in Optional(Nat) /\ Candidate(k).cost \in Optional(Nat)
    BY DEF Number
  <2>2. QED
    BY <2>1, CheaperOrder
<1>2. \A j \in F : /\ Candidate(j).profile \in Nat /\ Candidate(j).ttfa \in Nat
                   /\ Candidate(j).e2e \in Nat /\ Candidate(j).rate \in Nat
  BY DEF Number
<1>3. CASE policy = "cost_first"
  <2>1. \A j \in F : j # i =>
          LET r == Candidate(i) s == Candidate(j) IN
          \/ Cheaper(r.cost, s.cost)
          \/ /\ r.cost = s.cost
             /\ \/ r.ttfa < s.ttfa
                \/ /\ r.ttfa = s.ttfa
                   /\ r.e2e < s.e2e \/ (r.e2e = s.e2e /\ r.profile < s.profile)
    BY <1>3 DEF Before
  <2>2. i \in BestCost(F)
    BY <1>1, <2>1 DEF BestCost
  <2>3. \A j \in BestCost(F) : j \in F /\ Candidate(j).cost = Candidate(i).cost
    BY <1>1, <2>1 DEF BestCost
  <2>4. i \in BestTtfa(BestCost(F))
    BY <1>1, <1>2, <2>1, <2>2, <2>3 DEF BestTtfa
  <2>5. \A j \in BestTtfa(BestCost(F)) :
          j \in BestCost(F) /\ Candidate(j).ttfa <= Candidate(i).ttfa
    BY <2>2 DEF BestTtfa
  <2>6. i \in BestEndToEnd(BestTtfa(BestCost(F)))
    BY <1>1, <1>2, <2>1, <2>3, <2>4, <2>5 DEF BestEndToEnd
  <2>7. \A j \in BestEndToEnd(BestTtfa(BestCost(F))) :
          j \in BestTtfa(BestCost(F)) /\ Candidate(j).e2e <= Candidate(i).e2e
    BY <2>4 DEF BestEndToEnd
  <2>8. \A j \in BestEndToEnd(BestTtfa(BestCost(F))) :
          Candidate(i).profile <= Candidate(j).profile
    BY <1>1, <1>2, <2>1, <2>3, <2>5, <2>7
  <2>9. QED
    BY <1>3, <2>6, <2>8 DEF Best
<1>4. CASE policy # "cost_first"
  <2>1. \A j \in F : j # i =>
          LET r == Candidate(i) s == Candidate(j) IN
          \/ r.ttfa < s.ttfa
          \/ /\ r.ttfa = s.ttfa
             /\ \/ r.e2e < s.e2e
                \/ /\ r.e2e = s.e2e
                   /\ \/ r.rate > s.rate
                      \/ /\ r.rate = s.rate
                         /\ \/ Cheaper(r.cost, s.cost)
                            \/ r.cost = s.cost /\ r.profile < s.profile
    BY <1>4 DEF Before
  <2>2. i \in BestTtfa(F)
    BY <1>2, <2>1 DEF BestTtfa
  <2>3. \A j \in BestTtfa(F) : j \in F /\ Candidate(j).ttfa <= Candidate(i).ttfa
    BY DEF BestTtfa
  <2>4. i \in BestEndToEnd(BestTtfa(F))
    BY <1>2, <2>1, <2>2, <2>3 DEF BestEndToEnd
  <2>5. \A j \in BestEndToEnd(BestTtfa(F)) :
          j \in BestTtfa(F) /\ Candidate(j).e2e <= Candidate(i).e2e
    BY <2>2 DEF BestEndToEnd
  <2>6. i \in BestRate(BestEndToEnd(BestTtfa(F)))
    BY <1>2, <2>1, <2>3, <2>4, <2>5 DEF BestRate
  <2>7. \A j \in BestRate(BestEndToEnd(BestTtfa(F))) :
          j \in BestEndToEnd(BestTtfa(F)) /\ Candidate(j).rate >= Candidate(i).rate
    BY <2>4 DEF BestRate
  <2>8. \A j \in BestRate(BestEndToEnd(BestTtfa(F))) : j # i =>
          \/ Cheaper(Candidate(i).cost, Candidate(j).cost)
          \/ /\ Candidate(i).cost = Candidate(j).cost
             /\ Candidate(i).profile < Candidate(j).profile
    BY <1>2, <2>1, <2>3, <2>5, <2>7
  <2>9. \A j \in BestRate(BestEndToEnd(BestTtfa(F))) : j \in F
    BY <2>3, <2>5, <2>7
  <2>10. i \in BestCost(BestRate(BestEndToEnd(BestTtfa(F))))
    BY <1>1, <2>6, <2>8, <2>9 DEF BestCost
  <2>11. \A j \in BestCost(BestRate(BestEndToEnd(BestTtfa(F)))) :
           Candidate(i).profile <= Candidate(j).profile
    BY <1>1, <1>2, <2>6, <2>8, <2>9 DEF BestCost
  <2>12. QED
    BY <1>4, <2>10, <2>11 DEF Best
<1>5. QED
  BY <1>3, <1>4

LEMMA SufficientIsSound ==
  ASSUME IInv, next = Len(evidences) + 1
  PROVE  /\ Sufficient <=> Sound
         /\ Sufficient => (MissingCost <=> ~Priced)
<1>1. Len(evidences) \in Nat /\ Given = 1..Len(evidences) /\ Cardinality(Given) = Len(evidences)
  <2>1. Len(evidences) \in Nat /\ 1 \in Int /\ Len(evidences) \in Int
    BY DEF IInv, TypeInv
  <2>2. Cardinality(1..Len(evidences)) = Len(evidences)
    <3> DEFINE n == Len(evidences)
    <3>1. n \in Int /\ n \in Nat
      BY <2>1
    <3> HIDE DEF n
    <3>2. Cardinality(1..n) = IF 1 > n THEN 0 ELSE n - 1 + 1
      BY <3>1, FS_Interval
    <3>3. Cardinality(1..n) = n
      BY <3>1, <3>2
    <3>4. QED
      BY <3>3 DEF n
  <2>3. QED
    BY <2>1, <2>2 DEF Given
<1>2. ASSUME rejected = {}
      PROVE  \A k \in DOMAIN rows : /\ k \in Given /\ SignatureOf(k) = Signature(evidences[k])
  <2>1. \A k \in DOMAIN rows : rows[k] = Candidate(k) /\ k \in Given
    BY <1>2, RowsAreFiles
  <2>2. \A k : Candidate(k).source = k
    BY DEF Candidate
  <2>3. QED
    BY <2>1, <2>2 DEF SignatureOf
<1>3. ASSUME Sufficient PROVE Sound
  <2>1. rejected = {} /\ Comparable /\ Len(rows) >= MinimumCandidates
    BY <1>3 DEF Sufficient
  <2>2. /\ DOMAIN rows = Given /\ Len(rows) = Len(evidences)
        /\ \A i \in Given : Acceptable(i)
        /\ \A i, j \in Given : i # j => evidences[i].profile # evidences[j].profile
    BY <2>1, RowsAreFiles
  <2>3. \A i \in Given : Signature(evidences[i]) = SignatureOf(1)
    BY <1>2, <2>1, <2>2 DEF Comparable
  <2>4. QED
    BY <1>1, <2>1, <2>2, <2>3 DEF Sound
<1>4. ASSUME Sound PROVE Sufficient
  <2>1. /\ \A i \in Given : Acceptable(i)
        /\ \A i, j \in Given : i # j => evidences[i].profile # evidences[j].profile
        /\ \A i, j \in Given : Signature(evidences[i]) = Signature(evidences[j])
        /\ Cardinality(Given) >= MinimumCandidates
    BY <1>4 DEF Sound
  <2>2. rejected = {}
    <3>1. SUFFICES ASSUME NEW i \in rejected PROVE FALSE
      OBVIOUS
    <3>2. i \in Given /\ 1..(i - 1) \subseteq Given /\ i \notin 1..(i - 1)
      BY <1>1 DEF IInv, TypeInv
    <3>3. ~Acceptable(i) \/ \E j \in 1..(i - 1) : evidences[j].profile = evidences[i].profile
      BY DEF IInv, RowsInv
    <3>4. QED
      BY <2>1, <3>2, <3>3
  <2>3. DOMAIN rows = Given /\ Len(rows) = Len(evidences)
    BY <2>2, RowsAreFiles
  <2>4. MinimumCandidates \in Nat /\ MinimumCandidates >= 2
    BY DEF MinimumCandidates
  <2>5. Len(rows) >= MinimumCandidates /\ 1 \in DOMAIN rows /\ rows # <<>>
    <3>1. Len(rows) >= MinimumCandidates /\ Len(rows) >= 2
      BY <1>1, <2>1, <2>3, <2>4
    <3>2. 1 \in DOMAIN rows
      BY <1>1, <2>3, <3>1
    <3>3. QED
      BY <3>1, <3>2
  <2>6. Comparable
    BY <1>2, <2>1, <2>2, <2>5 DEF Comparable
  <2>7. QED
    BY <2>2, <2>5, <2>6 DEF Sufficient
<1>5. ASSUME Sufficient PROVE MissingCost <=> ~Priced
  <2>1. rejected = {}
    BY <1>5 DEF Sufficient
  <2>2. MissingCost <=> policy = "cost_first" /\ \E i \in Fit : Candidate(i).cost = None
    BY <2>1, EligibleIsFit DEF MissingCost
  <2>3. policy = "cost_first" => \A i \in Fit : Candidate(i).cost = manifest[evidences[i].profile].cost
    BY DEF Candidate, Deployment
  <2>4. QED
    BY <2>2, <2>3 DEF Priced
<1>6. QED
  BY <1>3, <1>4, <1>5

\* The order in which the files are given is immaterial, for any number of them.
THEOREM DecisionOfTheSet == Spec => []DecisionIsOfTheSet
<1>1. IInv => DecisionIsOfTheSet
  <2> SUFFICES ASSUME IInv, Decided
               PROVE  /\ report.verdict = "INSUFFICIENT_EVIDENCE" <=> ~Sound \/ ~Priced
                      /\ report.verdict = "NOTHING_MEETS_REQUIREMENTS" => Fit = {}
                      /\ report.verdict = "RECOMMENDED" =>
                           /\ {report.ranking[n] : n \in DOMAIN report.ranking} =
                                  {evidences[i].profile : i \in Fit}
                           /\ \E i \in Best(Fit) :
                                  /\ report.ranking[1] = evidences[i].profile
                                  /\ \A j \in Best(Fit) :
                                       evidences[i].profile <= evidences[j].profile
    BY DEF DecisionIsOfTheSet
  <2>1. report = Decision /\ next = Len(evidences) + 1
    BY DEF IInv, ReportInv
  <2>2. report.verdict = "INSUFFICIENT_EVIDENCE" <=> ~Sound \/ ~Priced
    <3>1. report.verdict = "INSUFFICIENT_EVIDENCE" <=> ~Sufficient \/ MissingCost
      BY <2>1 DEF Decision
    <3>2. QED
      BY <2>1, <3>1, SufficientIsSound
  <2>3. ASSUME report.verdict = "NOTHING_MEETS_REQUIREMENTS" PROVE Fit = {}
    <3>1. Sufficient /\ EligibleRows = {}
      BY <2>1, <2>3 DEF Decision
    <3>2. rejected = {}
      BY <3>1 DEF Sufficient
    <3>3. QED
      BY <2>1, <3>1, <3>2, EligibleIsFit
  <2>4. ASSUME report.verdict = "RECOMMENDED"
        PROVE  /\ {report.ranking[n] : n \in DOMAIN report.ranking} =
                      {evidences[i].profile : i \in Fit}
               /\ \E i \in Best(Fit) :
                      /\ report.ranking[1] = evidences[i].profile
                      /\ \A j \in Best(Fit) : evidences[i].profile <= evidences[j].profile
    <3>1. /\ rejected = {} /\ EligibleRows # {}
          /\ report.ranking = [n \in DOMAIN Ranked |-> Ranked[n].profile]
      BY <2>4, Recommended
    <3>2. {report.ranking[n] : n \in DOMAIN report.ranking} = {r.profile : r \in EligibleRows}
      <4>1. /\ \A n \in DOMAIN Ranked : Ranked[n] \in EligibleRows
            /\ \A r \in EligibleRows : \E n \in DOMAIN Ranked : Ranked[n] = r
        BY RankedIs
      <4>2. QED
        BY <3>1, <4>1
    <3>3. {r.profile : r \in EligibleRows} = {evidences[i].profile : i \in Fit}
      BY <2>1, <3>1, EligibleIsFit
    <3>4. PICK i \in Fit : /\ Ranked[1].profile = evidences[i].profile
                           /\ 1 \in DOMAIN Ranked
                           /\ \A j \in Fit : j # i => Before(Candidate(i), Candidate(j))
      BY <2>1, <3>1, WinnerIs
    <3>5. i \in Best(Fit) /\ \A j \in Best(Fit) : Candidate(i).profile <= Candidate(j).profile
      BY <2>1, <3>1, <3>4, EligibleIsFit, BestIs
    <3>6. \A j : Candidate(j).profile = evidences[j].profile
      BY DEF Candidate
    <3>7. QED
      BY <3>1, <3>2, <3>3, <3>4, <3>5, <3>6
  <2>5. QED
    BY <2>2, <2>3, <2>4
<1>2. QED
  BY <1>1, Invariant, PTL
=============================================================================
