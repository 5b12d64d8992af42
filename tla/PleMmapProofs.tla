--------------------------- MODULE PleMmapProofs ---------------------------
(***************************************************************************)
(* Proofs about PleMmap, for tables, shards, chunks and lookups of any     *)
(* size.                                                                   *)
(***************************************************************************)
EXTENDS PleMmap, FiniteSetTheorems, TLAPS

LEMMA SizePositive == ShardSize \in Nat \ {0}
  BY PleAssumption, Z3 DEF ShardSize

LEMMA Division ==
  ASSUME NEW x \in Nat, NEW n \in Nat \ {0}
  PROVE  /\ x \div n \in Nat
         /\ n * (x \div n) <= x /\ x < n * (x \div n) + n
  OBVIOUS

LEMMA DivMonotone ==
  ASSUME NEW x \in Nat, NEW y \in Nat, NEW n \in Nat \ {0}, x <= y
  PROVE  x \div n <= y \div n
  OBVIOUS

-----------------------------------------------------------------------------
(* Positions of the distinct ids. *)

LEMMA IdsFinite ==
  ASSUME NEW S \in SUBSET Id
  PROVE  IsFiniteSet(S) /\ Cardinality(S) \in Nat /\ S \subseteq Nat
<1>1. IsFiniteSet(Id)
  BY FS_Interval, PleAssumption DEF Id
<1>2. IsFiniteSet(S)
  BY <1>1, FS_Subset
<1>3. Id \subseteq Nat
  BY DEF Id
<1>4. QED
  BY <1>2, <1>3, FS_CardinalityType

\* A larger subset has at least as many elements.
LEMMA SubsetCount ==
  ASSUME NEW S \in SUBSET Id, NEW A \in SUBSET S, NEW B \in SUBSET A
  PROVE  /\ Cardinality(A) \in Nat /\ Cardinality(B) \in Nat
         /\ Cardinality(B) <= Cardinality(A)
         /\ \A x \in A \ B : Cardinality(B) < Cardinality(A)
<1>1. IsFiniteSet(A) /\ IsFiniteSet(B)
  BY IdsFinite, FS_Subset
<1>2. Cardinality(B) <= Cardinality(A) /\ Cardinality(A) \in Nat /\ Cardinality(B) \in Nat
  BY <1>1, FS_Subset, FS_CardinalityType
<1>3. ASSUME NEW x \in A \ B PROVE Cardinality(B) < Cardinality(A)
  <2>1. Cardinality(B \cup {x}) = Cardinality(B) + 1 /\ IsFiniteSet(B \cup {x})
    BY <1>1, <1>3, FS_AddElement
  <2>2. Cardinality(B \cup {x}) <= Cardinality(A)
    BY <1>1, <2>1, FS_Subset
  <2>3. QED
    BY <1>2, <2>1, <2>2
<1>4. QED
  BY <1>2, <1>3

LEMMA AtRange ==
  ASSUME NEW S \in SUBSET Id, NEW x \in S
  PROVE  At(S, x) \in 0..(Cardinality(S) - 1)
<1>1. x \in S \ {y \in S : y < x}
  BY IdsFinite
<1>2. /\ Cardinality({y \in S : y < x}) \in Nat
      /\ Cardinality(S) \in Nat
      /\ Cardinality({y \in S : y < x}) < Cardinality(S)
  BY <1>1, SubsetCount, IdsFinite
<1>3. QED
  BY <1>2 DEF At

LEMMA AtOrder ==
  ASSUME NEW S \in SUBSET Id, NEW x \in S, NEW y \in S, x < y
  PROVE  At(S, x) < At(S, y)
<1>1. {z \in S : z < x} \subseteq {z \in S : z < y}
  BY IdsFinite
<1>2. x \in {z \in S : z < y} \ {z \in S : z < x}
  BY IdsFinite
<1>3. {z \in S : z < y} \in SUBSET S
  OBVIOUS
<1>4. QED
  BY <1>1, <1>2, <1>3, SubsetCount DEF At

\* np.unique's inverse is one: the entry at the position of an id is the id.
LEMMA UniqueAt ==
  ASSUME NEW S \in SUBSET Id, NEW x \in S
  PROVE  /\ At(S, x) \in DOMAIN Unique(S)
         /\ Unique(S)[At(S, x)] = x
<1>1. At(S, x) \in 0..(Cardinality(S) - 1)
  BY AtRange
<1>2. \A y \in S : At(S, y) = At(S, x) => y = x
  <2>1. SUFFICES ASSUME NEW y \in S, At(S, y) = At(S, x), y # x PROVE FALSE
    OBVIOUS
  <2>2. x < y \/ y < x
    BY <2>1, IdsFinite
  <2>3. At(S, x) \in Int /\ At(S, y) \in Int
    BY AtRange, IdsFinite
  <2>4. QED
    BY <2>1, <2>2, <2>3, AtOrder
<1>3. (CHOOSE y \in S : At(S, y) = At(S, x)) = x
  BY <1>2
<1>4. QED
  BY <1>1, <1>3 DEF Unique

\* Every position holds a distinct id: as many positions as ids, and no two ids at one.
LEMMA UniqueType ==
  ASSUME NEW S \in SUBSET Id
  PROVE  /\ DOMAIN Unique(S) = 0..(Cardinality(S) - 1)
         /\ \A j \in DOMAIN Unique(S) : Unique(S)[j] \in S /\ At(S, Unique(S)[j]) = j
<1> DEFINE n == Cardinality(S)
           P == 0..(n - 1)
           f == [x \in S |-> At(S, x)]
<1>1. n \in Nat /\ IsFiniteSet(S) /\ IsFiniteSet(P) /\ Cardinality(P) = n
  <2>1. n \in Nat /\ IsFiniteSet(S)
    BY IdsFinite
  <2>2. IsFiniteSet(P) /\ Cardinality(P) = n
    BY <2>1, FS_Interval
  <2>3. QED
    BY <2>1, <2>2
<1>2. f \in Injection(S, P)
  <2>1. f \in [S -> P]
    BY AtRange
  <2>2. ASSUME NEW x \in S, NEW y \in S, f[x] = f[y] PROVE x = y
    BY <2>2, UniqueAt
  <2>3. QED
    BY <2>1, <2>2 DEF Injection, IsInjective
<1>3. f \in Surjection(S, P)
  <2> HIDE DEF f, P, n
  <2>1. Cardinality(S) = Cardinality(P)
    BY <1>1 DEF n
  <2>2. QED
    BY <1>1, <1>2, <2>1, FS_Injection
<1>4. ASSUME NEW j \in P
      PROVE  Unique(S)[j] \in S /\ At(S, Unique(S)[j]) = j
  <2>1. PICK x \in S : At(S, x) = j
    BY <1>3 DEF Surjection
  <2>2. QED
    BY <2>1, UniqueAt
<1>5. QED
  BY <1>4 DEF Unique

-----------------------------------------------------------------------------
(* Tasks: they cover the positions, each with ids of its own shard. *)

LEMMA ShardRange ==
  ASSUME NEW x \in Id
  PROVE  ShardOf(x) \in Nat
  BY SizePositive, Division DEF ShardOf, Id

\* The shards hold every row: the last id lies in one of Parts shards.
LEMMA ShardBound ==
  ASSUME NEW x \in Id
  PROVE  ShardOf(x) \in Shard
<1>1. ShardOf(x) \in Nat /\ ShardSize * ShardOf(x) <= x
  BY SizePositive, Division DEF ShardOf, Id
<1>2. Vocab + Parts - 1 < Parts * ShardSize + Parts
  BY Division, PleAssumption DEF ShardSize
<1>3. Vocab <= ShardSize * Parts /\ x < Vocab
  BY <1>2, SizePositive, PleAssumption DEF Id
<1>4. CASE ShardOf(x) >= Parts
  <2>1. ShardSize * Parts <= ShardSize * ShardOf(x)
    BY <1>1, <1>4, SizePositive, PleAssumption, Z3
  <2>2. QED
    BY <1>1, <1>3, <2>1, SizePositive, PleAssumption DEF Id
<1>5. QED
  BY <1>1, <1>4, PleAssumption DEF Shard

LEMMA ShardMonotone ==
  ASSUME NEW x \in Id, NEW y \in Id, x <= y
  PROVE  ShardOf(x) <= ShardOf(y)
  BY SizePositive, DivMonotone DEF ShardOf, Id

\* The ids of a shard lie between Before(S, s) and Before(S, s + 1).
LEMMA RunBounds ==
  ASSUME NEW S \in SUBSET Id, NEW x \in S
  PROVE  /\ Before(S, ShardOf(x)) <= At(S, x)
         /\ At(S, x) < Before(S, ShardOf(x) + 1)
<1> DEFINE low == {y \in S : ShardOf(y) < ShardOf(x)}
           below == {y \in S : y < x}
           upTo == {y \in S : ShardOf(y) < ShardOf(x) + 1}
<1>1. \A y \in S : ShardOf(y) \in Nat /\ y \in Nat
  BY ShardRange, IdsFinite
<1>2. ASSUME NEW y \in S, ShardOf(y) < ShardOf(x) PROVE y < x
  <2>1. CASE x <= y
    BY <1>1, <1>2, <2>1, ShardMonotone
  <2>2. QED
    BY <1>1, <2>1
<1>3. ASSUME NEW y \in S, y < x PROVE ShardOf(y) < ShardOf(x) + 1
  BY <1>1, <1>3, ShardMonotone
<1>4. low \subseteq below /\ below \subseteq upTo /\ x \in upTo \ below
  BY <1>1, <1>2, <1>3
<1>5. low \in SUBSET S /\ below \in SUBSET S /\ upTo \in SUBSET S
  OBVIOUS
<1>6. Cardinality(low) <= Cardinality(below)
  BY <1>4, <1>5, SubsetCount
<1>7. Cardinality(below) < Cardinality(upTo)
  <2> HIDE DEF below, upTo
  <2>1. QED
    BY <1>4, <1>5, SubsetCount
<1>8. QED
  BY <1>6, <1>7 DEF Before, At

LEMMA BeforeMonotone ==
  ASSUME NEW S \in SUBSET Id, NEW s \in Nat, NEW u \in Nat, s <= u
  PROVE  /\ Before(S, s) \in Nat /\ Before(S, u) \in Nat
         /\ Before(S, s) <= Before(S, u)
<1> DEFINE A == {y \in S : ShardOf(y) < u}
           B == {y \in S : ShardOf(y) < s}
<1>1. \A y \in S : ShardOf(y) \in Nat
  BY ShardRange
<1>2. A \in SUBSET S /\ B \in SUBSET A
  BY <1>1
<1>3. Cardinality(A) \in Nat /\ Cardinality(B) \in Nat /\ Cardinality(B) <= Cardinality(A)
  BY <1>2, SubsetCount
<1>4. QED
  BY <1>3 DEF Before

\* A position between the bounds of a shard's run belongs to that shard.
LEMMA RunShard ==
  ASSUME NEW S \in SUBSET Id, NEW x \in S, NEW s \in Nat,
         Before(S, s) <= At(S, x), At(S, x) < Before(S, s + 1)
  PROVE  ShardOf(x) = s
<1>1. ShardOf(x) \in Nat /\ At(S, x) \in Nat
  BY ShardRange, AtRange, IdsFinite
<1>2. CASE ShardOf(x) < s
  <2>1. Before(S, ShardOf(x) + 1) <= Before(S, s) /\ Before(S, s) \in Nat
        /\ Before(S, ShardOf(x) + 1) \in Nat
    BY <1>1, <1>2, BeforeMonotone
  <2>2. QED
    BY <1>1, <2>1, RunBounds
<1>3. CASE s < ShardOf(x)
  <2>1. Before(S, s + 1) <= Before(S, ShardOf(x)) /\ Before(S, s + 1) \in Nat
        /\ Before(S, ShardOf(x)) \in Nat
    BY <1>1, <1>3, BeforeMonotone
  <2>2. QED
    BY <1>1, <2>1, RunBounds
<1>4. QED
  BY <1>1, <1>2, <1>3

\* What a task reads is the row asked for.
LEMMA TaskShard ==
  ASSUME NEW S \in SUBSET Id, NEW t \in Tasks(S), NEW x \in S,
         t.first <= At(S, x), At(S, x) < t.end
  PROVE  ShardOf(x) = t.shard /\ ReadRow(t.shard, x) = x
<1>1. PICK s \in Shard, k \in 0..Cardinality(S) : t = TaskOf(S, s, k)
  BY DEF Tasks
<1>2. s \in Nat /\ k \in Nat /\ k * Chunk \in Nat /\ Chunk \in Nat
  BY PleAssumption, IdsFinite DEF Shard
<1>3. Before(S, s) \in Nat /\ Before(S, s + 1) \in Nat /\ At(S, x) \in Nat
  BY <1>2, BeforeMonotone, AtRange, IdsFinite
<1>4. /\ t.shard = s /\ t.first = Before(S, s) + k * Chunk
      /\ t.end <= Before(S, s + 1)
  BY <1>1, <1>2, <1>3 DEF TaskOf, Least
<1>5. Before(S, s) <= At(S, x) /\ At(S, x) < Before(S, s + 1)
  BY <1>1, <1>2, <1>3, <1>4 DEF TaskOf, Least
<1>6. ShardOf(x) = s
  BY <1>2, <1>5, RunShard
<1>7. ReadRow(s, x) = x
  <2>1. x \in Nat /\ s * ShardSize \in Nat
    BY <1>2, SizePositive, IdsFinite
  <2>2. QED
    BY <1>6, <2>1 DEF ReadRow, FileRow, Local
<1>8. QED
  BY <1>4, <1>6, <1>7

\* No position of a distinct id is left out.
LEMMA TaskCover ==
  ASSUME NEW S \in SUBSET Id, NEW x \in S
  PROVE  \E t \in Tasks(S) : t.first <= At(S, x) /\ At(S, x) < t.end
<1> DEFINE s == ShardOf(x)
           off == At(S, x) - Before(S, s)
           k == off \div Chunk
<1>1. s \in Nat /\ At(S, x) \in Nat /\ Before(S, s) \in Nat /\ Before(S, s + 1) \in Nat
  BY ShardRange, AtRange, BeforeMonotone, IdsFinite
<1>2. Before(S, s) <= At(S, x) /\ At(S, x) < Before(S, s + 1)
  BY RunBounds
<1>3. off \in Nat
  BY <1>1, <1>2
<1>4. k \in Nat /\ Chunk * k <= off /\ off < Chunk * k + Chunk
  BY <1>3, Division, PleAssumption
<1> HIDE DEF k
<1>5. k * Chunk = Chunk * k /\ k * Chunk \in Nat /\ Chunk \in Nat
  BY <1>4, PleAssumption
<1>6. k <= Cardinality(S)
  <2>1. At(S, x) < Cardinality(S) /\ Cardinality(S) \in Nat
    BY AtRange, IdsFinite
  <2>2. k <= Chunk * k
    BY <1>4, PleAssumption, Z3
  <2>3. QED
    BY <1>1, <1>3, <1>4, <1>5, <2>1, <2>2
<1>7. s \in Shard
  BY <1>1, ShardBound
<1>8. TaskOf(S, s, k) \in Tasks(S)
  BY <1>1, <1>2, <1>4, <1>5, <1>6, <1>7 DEF Tasks, TaskOf
<1>9. /\ TaskOf(S, s, k).first <= At(S, x)
      /\ At(S, x) < TaskOf(S, s, k).end
  BY <1>1, <1>2, <1>3, <1>4, <1>5 DEF TaskOf, Least
<1>10. QED
  BY <1>8, <1>9
LEMMA TaskType ==
  ASSUME NEW S \in SUBSET Id
  PROVE  Tasks(S) \subseteq [shard : Shard, first : Nat, end : Nat]
<1>1. ASSUME NEW s \in Shard, NEW k \in 0..Cardinality(S)
      PROVE  TaskOf(S, s, k) \in [shard : Shard, first : Nat, end : Nat]
  <2>1. s \in Nat /\ k \in Nat /\ k * Chunk \in Nat /\ Chunk \in Nat
    BY PleAssumption, IdsFinite DEF Shard
  <2>2. Before(S, s) \in Nat /\ Before(S, s + 1) \in Nat
    BY <2>1, BeforeMonotone
  <2>3. QED
    BY <2>1, <2>2 DEF TaskOf, Least
<1>2. QED
  BY <1>1 DEF Tasks

\* Chunks of one shard follow one another; the runs of two shards do not meet.
LEMMA TasksApart ==
  ASSUME NEW S \in SUBSET Id, NEW t \in Tasks(S), NEW u \in Tasks(S), t # u
  PROVE  t.end <= u.first \/ u.end <= t.first
<1>1. PICK s \in Shard, k \in 0..Cardinality(S) : t = TaskOf(S, s, k)
  BY DEF Tasks
<1>2. PICK v \in Shard, l \in 0..Cardinality(S) : u = TaskOf(S, v, l)
  BY DEF Tasks
<1>3. /\ s \in Nat /\ v \in Nat /\ k \in Nat /\ l \in Nat /\ Chunk \in Nat
      /\ k * Chunk \in Nat /\ l * Chunk \in Nat
  BY PleAssumption, IdsFinite DEF Shard
<1>4. /\ Before(S, s) \in Nat /\ Before(S, s + 1) \in Nat
      /\ Before(S, v) \in Nat /\ Before(S, v + 1) \in Nat
  BY <1>3, BeforeMonotone
<1>5. /\ t.first = Before(S, s) + k * Chunk /\ t.end <= Before(S, s + 1)
      /\ t.end <= Before(S, s) + k * Chunk + Chunk
      /\ u.first = Before(S, v) + l * Chunk /\ u.end <= Before(S, v + 1)
      /\ u.end <= Before(S, v) + l * Chunk + Chunk
      /\ t.end \in Nat /\ u.end \in Nat
  BY <1>1, <1>2, <1>3, <1>4 DEF TaskOf, Least
<1>6. CASE s < v
  <2>1. Before(S, s + 1) <= Before(S, v)
    BY <1>3, <1>6, BeforeMonotone
  <2>2. QED
    BY <1>3, <1>4, <1>5, <2>1
<1>7. CASE v < s
  <2>1. Before(S, v + 1) <= Before(S, s)
    BY <1>3, <1>7, BeforeMonotone
  <2>2. QED
    BY <1>3, <1>4, <1>5, <2>1
<1>8. CASE s = v /\ k < l
  <2>1. k * Chunk + Chunk <= l * Chunk
    BY <1>3, <1>8, Z3
  <2>2. QED
    BY <1>3, <1>4, <1>5, <1>8, <2>1
<1>9. CASE s = v /\ l < k
  <2>1. l * Chunk + Chunk <= k * Chunk
    BY <1>3, <1>9, Z3
  <2>2. QED
    BY <1>3, <1>4, <1>5, <1>9, <2>1
<1>10. CASE s = v /\ k = l
  BY <1>1, <1>2, <1>10
<1>11. QED
  BY <1>3, <1>6, <1>7, <1>8, <1>9, <1>10

-----------------------------------------------------------------------------
(* The inductive invariant. *)

RowArray == UNION {[0..(n - 1) -> Row] : n \in Nat}

Commands ==
    [op : {"zeros", "index"}, call : Call]
        \cup [op : {"copy"}, call : Call, buf : Nat, n : Nat]
        \cup [op : {"upload"}, call : Call, rows : RowArray]

TypeInv ==
    /\ files \in [Shard -> {Absent, Bad} \cup 0..ShardSize]
    /\ mm \in SUBSET Shard
    /\ pc \in {"load", "refused", "idle", "read", "gather", "pool", "stage", "send", "dead"}
    /\ asked \in Seq(Seq(Id)) /\ Now <= MaxCalls
    /\ rows \in RowArray
    /\ todo \subseteq [shard : Shard, first : Nat, end : Nat]
    /\ bufs \in Seq(RowArray) /\ pinned \in 0..Len(bufs)
    /\ stream \in Seq(Commands)
    /\ dev \in [Call -> RowArray]
    /\ out \in [Call -> {Blank} \cup Seq(Row)]

\* f holds the row of each id of lookup c at the id's position.
Holds(f, c) == \A x \in Distinct(c) : f[At(Distinct(c), x)] = x

\* What is known at each step of the host.
HostInv ==
    /\ pc = "load" => asked = <<>> /\ stream = <<>> /\ mm = {}
    /\ pc \in {"read", "gather", "pool", "stage", "send"} => Now > 0
    /\ pc \in {"gather", "pool", "stage", "send"} => stream = <<>> /\ mm # {}
    /\ todo # {} => pc \in {"pool", "dead"} /\ Now > 0 /\ todo \subseteq Tasks(D)
    /\ pc = "pool" =>
         /\ DOMAIN rows = DOMAIN Unique(D)
         /\ \A x \in D : \/ rows[At(D, x)] = x
                         \/ \E t \in todo : t.first <= At(D, x) /\ At(D, x) < t.end
    /\ pc \in {"stage", "send"} => DOMAIN rows = DOMAIN Unique(D) /\ Holds(rows, Now)
    /\ pc = "send" /\ pinned # 0 => pinned \in DOMAIN bufs /\ Holds(bufs[pinned], Now)

\* A command on the stream will read, when its turn comes, what it was sent for.
CommandInv(k) ==
    /\ stream[k].call \in 1..Now
    /\ stream[k].op = "zeros" <=> mm = {}
    /\ stream[k].op \in {"zeros", "copy", "upload", "index"}
    /\ stream[k].op = "copy" => /\ stream[k].buf \in DOMAIN bufs
                                /\ stream[k].n = Cardinality(Distinct(stream[k].call))
                                /\ Holds(bufs[stream[k].buf], stream[k].call)
    /\ stream[k].op = "upload" => Holds(stream[k].rows, stream[k].call)
    /\ stream[k].op = "index" /\ k = 1 => Holds(dev[stream[k].call], stream[k].call)
    /\ stream[k].op = "index" /\ k # 1 => /\ stream[k - 1].op \in {"copy", "upload"}
                                          /\ stream[k - 1].call = stream[k].call

StreamInv == \A k \in 1..Len(stream) : CommandInv(k)

OutInv == RowsAreOwn /\ \A c \in Call : c > Now => out[c] = Blank

IInv == TypeInv /\ HostInv /\ StreamInv /\ OutInv

LEMMA DistinctIds ==
  ASSUME asked \in Seq(Seq(Id)), NEW c \in 1..Now
  PROVE  Distinct(c) \in SUBSET Id
<1>1. asked[c] \in Seq(Id)
  BY DEF Now
<1>2. QED
  BY <1>1 DEF Distinct

\* A further lookup leaves the earlier ones alone.
LEMMA AskedFrame ==
  ASSUME asked \in Seq(Seq(Id)), NEW ids \in Seq(Id), asked' = Append(asked, ids)
  PROVE  /\ asked' \in Seq(Seq(Id))
         /\ Now' = Now + 1 /\ Now \in Nat
         /\ \A c \in 1..Now : asked'[c] = asked[c] /\ Distinct(c)' = Distinct(c)
  BY DEF Now, Distinct

LEMMA InvInit == Init => IInv
<1> SUFFICES ASSUME Init PROVE IInv
  OBVIOUS
<1>1. Nothing \in RowArray
  <2>1. 0..(0 - 1) = {}
    OBVIOUS
  <2>2. Nothing \in [0..(0 - 1) -> Row]
    BY <2>1 DEF Nothing
  <2>3. QED
    BY <2>2 DEF RowArray
<1>2. TypeInv
  BY <1>1, PleAssumption DEF Init, TypeInv, Now
<1>3. HostInv /\ StreamInv
  BY DEF Init, HostInv, StreamInv
<1>4. OutInv
  BY DEF Init, OutInv, RowsAreOwn, Now
<1>5. QED
  BY <1>2, <1>3, <1>4 DEF IInv

\* Steps of the host that neither ask, nor write a buffer, nor send.
LEMMA QuietStep ==
  ASSUME IInv, UNCHANGED <<mm, asked, bufs, stream, dev, out>>
  PROVE  StreamInv' /\ OutInv'
<1>1. StreamInv'
  <2>1. SUFFICES ASSUME NEW k \in 1..Len(stream) PROVE CommandInv(k)'
    BY DEF StreamInv
  <2>2. CommandInv(k)
    BY DEF IInv, StreamInv
  <2>3. /\ Now' = Now
        /\ \A c : Distinct(c)' = Distinct(c)
    BY DEF Distinct, Now
  <2>4. QED
    BY <2>2, <2>3 DEF CommandInv, Holds
<1>2. OutInv'
  BY DEF IInv, OutInv, RowsAreOwn, Now
<1>3. QED
  BY <1>1, <1>2

LEMMA LoadStep == IInv /\ (Load \/ LoadDummy) => IInv'
<1> SUFFICES ASSUME IInv, Load \/ LoadDummy PROVE IInv'
  OBVIOUS
<1>1. Now = 0 /\ asked = <<>> /\ stream = <<>>
  BY DEF IInv, HostInv, Load, LoadDummy, Now
<1>2. TypeInv'
  BY DEF IInv, TypeInv, Load, LoadDummy, load, gathered, staging, gpu, Now
<1>3. UNCHANGED <<asked, stream, out>> /\ pc' \in {"idle", "refused"}
  BY DEF Load, LoadDummy, gpu
<1>4. HostInv'
  BY <1>3 DEF IInv, HostInv, Load, LoadDummy, gathered
<1>5. StreamInv' /\ OutInv'
  BY <1>1, <1>3 DEF IInv, StreamInv, OutInv, RowsAreOwn, Now
<1>6. QED
  BY <1>2, <1>4, <1>5 DEF IInv

LEMMA ForwardStep ==
  ASSUME IInv, NEW ids \in Inputs, Forward(ids)
  PROVE  IInv'
<1> USE DEF load, gathered, staging, gpu
<1>1. /\ asked \in Seq(Seq(Id)) /\ ids \in Seq(Id) /\ asked' = Append(asked, ids)
      /\ Now < MaxCalls /\ pc' = "read"
      /\ UNCHANGED <<files, mm, rows, todo, bufs, pinned, stream, dev, out>>
  BY PleAssumption DEF IInv, TypeInv, Forward
<1>2. /\ asked' \in Seq(Seq(Id)) /\ Now' = Now + 1 /\ Now \in Nat
      /\ \A c \in 1..Now : asked'[c] = asked[c] /\ Distinct(c)' = Distinct(c)
  BY <1>1, AskedFrame
<1>3. TypeInv'
  BY <1>1, <1>2, PleAssumption DEF IInv, TypeInv
<1>4. HostInv'
  BY <1>1, <1>2 DEF IInv, HostInv, Forward
<1>5. StreamInv'
  <2>1. SUFFICES ASSUME NEW k \in 1..Len(stream) PROVE CommandInv(k)'
    BY <1>1 DEF StreamInv
  <2>2. CommandInv(k)
    BY DEF IInv, StreamInv
  <2>3. stream[k].call \in 1..Now /\ stream[k].call \in 1..Now'
    BY <1>2, <2>2 DEF CommandInv
  <2>4. Distinct(stream[k].call)' = Distinct(stream[k].call)
    BY <1>1, <1>2, <2>3
  <2>5. QED
    BY <1>1, <2>2, <2>3, <2>4 DEF CommandInv, Holds
<1>6. OutInv'
  <2>1. \A c \in Call : c > Now => out[c] = Blank
    BY DEF IInv, OutInv
  <2>2. out[Now + 1] = Blank
    <3>1. MaxCalls \in Nat
      BY PleAssumption
    <3>2. Now + 1 \in Call /\ Now + 1 > Now
      BY <1>1, <1>2, <3>1 DEF Call
    <3>3. QED
      BY <2>1, <3>2
  <2>3. ASSUME NEW c \in 1..(Now + 1), out[c] # Blank
        PROVE  out[c] = [i \in DOMAIN asked'[c] |-> IF mm = {} THEN Zero ELSE asked'[c][i]]
    <3>1. c \in 1..Now
      BY <1>2, <2>2, <2>3
    <3>2. asked'[c] = asked[c]
      BY <1>2, <3>1
    <3>3. QED
      BY <2>3, <3>1, <3>2 DEF IInv, OutInv, RowsAreOwn
  <2>4. UNCHANGED <<mm, out>> /\ Now' = Now + 1
    BY <1>1, <1>2
  <2>5. RowsAreOwn'
    BY <2>3, <2>4, Zenon DEF RowsAreOwn
  <2>6. QED
    BY <1>1, <1>2, <2>1, <2>5 DEF OutInv, Call
<1>7. QED
  BY <1>3, <1>4, <1>5, <1>6 DEF IInv

\* The current lookup's ids, from the moment it is asked.
LEMMA DType ==
  ASSUME IInv, Now > 0
  PROVE  /\ Now \in 1..Now /\ Now \in Call
         /\ D \in SUBSET Id
<1>1. asked \in Seq(Seq(Id)) /\ Now <= MaxCalls /\ Now \in Nat
  BY DEF IInv, TypeInv, Now
<1>2. Now \in 1..Now /\ Now \in Call
  BY <1>1, PleAssumption DEF Call
<1>3. QED
  BY <1>1, <1>2, DistinctIds DEF D

LEMMA ReadOwn ==
  ASSUME NEW x \in Id
  PROVE  ReadRow(ShardOf(x), x) = x
<1>1. ShardOf(x) \in Nat /\ x \in Nat /\ ShardOf(x) * ShardSize \in Nat
  BY ShardRange, SizePositive DEF Id
<1>2. QED
  BY <1>1 DEF ReadRow, FileRow, Local

LEMMA ReadIdsStep == IInv /\ ReadIds => IInv'
<1> SUFFICES ASSUME IInv, ReadIds PROVE IInv'
  OBVIOUS
<1> USE DEF load, gathered, staging, gpu
<1>1. StreamInv' /\ OutInv'
  BY QuietStep DEF ReadIds
<1>2. TypeInv'
  BY DEF IInv, TypeInv, ReadIds, Now
<1>3. HostInv'
  BY DEF IInv, HostInv, ReadIds, Now
<1>4. QED
  BY <1>1, <1>2, <1>3 DEF IInv

\* The engine stops: nothing is touched but pc.
LEMMA RaiseStep ==
  ASSUME IInv, pc' = "dead", pc \in {"gather", "pool"},
         UNCHANGED <<files, mm, asked, rows, todo, bufs, pinned, stream, dev, out>>
  PROVE  IInv'
<1>1. StreamInv' /\ OutInv'
  BY QuietStep
<1>2. TypeInv'
  BY DEF IInv, TypeInv, Now
<1>3. HostInv'
  BY DEF IInv, HostInv, Now, D, Distinct
<1>4. QED
  BY <1>1, <1>2, <1>3 DEF IInv

LEMMA InlineStep == IInv /\ GatherInline => IInv'
<1> SUFFICES ASSUME IInv, GatherInline PROVE IInv'
  OBVIOUS
<1> USE DEF load, gathered, staging, gpu
<1>0. /\ pc = "gather" /\ pc' = "stage"
      /\ rows' = [j \in DOMAIN Unique(D) |-> ReadRow(ShardOf(Unique(D)[j]), Unique(D)[j])]
      /\ UNCHANGED <<files, mm, asked, todo, bufs, pinned, stream, dev, out>>
  BY DEF GatherInline
<1>1. StreamInv' /\ OutInv'
  BY <1>0, QuietStep
<1>2. Now > 0 /\ stream = <<>> /\ mm # {} /\ todo = {}
  BY <1>0 DEF IInv, HostInv
<1>3. D \in SUBSET Id /\ D = Distinct(Now) /\ Now' = Now /\ Distinct(Now)' = Distinct(Now) /\ D' = D
  BY <1>0, <1>2, DType DEF D, Distinct, Now
<1>4. \A j \in DOMAIN Unique(D) : rows'[j] = Unique(D)[j] /\ Unique(D)[j] \in Id
  BY <1>0, <1>3, UniqueType, ReadOwn
<1>5. rows' \in RowArray
  <2>1. rows' \in [0..(Cardinality(D) - 1) -> Row]
    BY <1>0, <1>3, <1>4, UniqueType DEF Row
  <2>2. QED
    BY <2>1, <1>3, IdsFinite DEF RowArray
<1>6. TypeInv'
  BY <1>0, <1>3, <1>5 DEF IInv, TypeInv
<1>7. HostInv'
  <2>1. DOMAIN rows' = DOMAIN Unique(D)
    BY <1>0
  <2>2. \A x \in D : rows'[At(D, x)] = x
    BY <1>3, <1>4, UniqueAt
  <2>3. QED
    BY <1>0, <1>2, <1>3, <2>1, <2>2 DEF HostInv, Holds
<1>8. QED
  BY <1>1, <1>6, <1>7 DEF IInv

LEMMA PooledStep == IInv /\ GatherPooled => IInv'
<1> SUFFICES ASSUME IInv, GatherPooled PROVE IInv'
  OBVIOUS
<1> USE DEF load, gathered, staging, gpu
<1>0. /\ pc = "gather" /\ pc' = "pool"
      /\ rows' = [j \in DOMAIN Unique(D) |-> Blank] /\ todo' = Tasks(D)
      /\ UNCHANGED <<files, mm, asked, bufs, pinned, stream, dev, out>>
  BY DEF GatherPooled
<1>1. StreamInv' /\ OutInv'
  BY <1>0, QuietStep
<1>2. Now > 0 /\ stream = <<>> /\ mm # {}
  BY <1>0 DEF IInv, HostInv
<1>3. D \in SUBSET Id /\ Now' = Now /\ D' = D
  BY <1>0, <1>2, DType DEF D, Distinct, Now
<1>4. rows' \in RowArray
  <2>1. rows' \in [0..(Cardinality(D) - 1) -> Row]
    BY <1>0, <1>3, UniqueType DEF Row
  <2>2. QED
    BY <2>1, <1>3, IdsFinite DEF RowArray
<1>5. TypeInv'
  BY <1>0, <1>3, <1>4, TaskType DEF IInv, TypeInv
<1>6. HostInv'
  <2>1. \A x \in D : \E t \in todo' : t.first <= At(D, x) /\ At(D, x) < t.end
    BY <1>0, <1>3, TaskCover
  <2>2. QED
    BY <1>0, <1>2, <1>3, <2>1 DEF HostInv
<1>7. QED
  BY <1>1, <1>5, <1>6 DEF IInv

LEMMA TaskStep ==
  ASSUME IInv, NEW t \in todo, RunTask(t)
  PROVE  IInv'
<1> USE DEF load, gathered, staging, gpu
<1> DEFINE mine == t.first..(t.end - 1)
<1>0. /\ pc = "pool" /\ pc' = "pool"
      /\ rows' = [j \in DOMAIN rows |->
                     IF j \in mine THEN ReadRow(t.shard, Unique(D)[j]) ELSE rows[j]]
      /\ todo' = todo \ {t}
      /\ UNCHANGED <<files, mm, asked, bufs, pinned, stream, dev, out>>
  BY DEF RunTask
<1>1. StreamInv' /\ OutInv'
  BY <1>0, QuietStep
<1>2. /\ Now > 0 /\ stream = <<>> /\ mm # {} /\ todo \subseteq Tasks(D)
      /\ DOMAIN rows = DOMAIN Unique(D)
      /\ \A x \in D : \/ rows[At(D, x)] = x
                      \/ \E u \in todo : u.first <= At(D, x) /\ At(D, x) < u.end
  BY <1>0 DEF IInv, HostInv
<1>3. D \in SUBSET Id /\ Now' = Now /\ D' = D
  BY <1>0, <1>2, DType DEF D, Distinct, Now
<1>4. /\ t \in Tasks(D) /\ t.first \in Nat /\ t.end \in Nat
      /\ DOMAIN rows = 0..(Cardinality(D) - 1)
  BY <1>2, <1>3, TaskType, UniqueType
<1>5. ASSUME NEW x \in D, t.first <= At(D, x), At(D, x) < t.end
      PROVE  At(D, x) \in mine /\ rows'[At(D, x)] = x
  <2>1. At(D, x) \in DOMAIN rows /\ Unique(D)[At(D, x)] = x /\ At(D, x) \in Nat
    <3>1. At(D, x) \in 0..(Cardinality(D) - 1) /\ Unique(D)[At(D, x)] = x
      BY <1>3, UniqueAt, AtRange
    <3>2. QED
      BY <1>3, <1>4, <3>1, IdsFinite
  <2>2. ReadRow(t.shard, x) = x
    BY <1>3, <1>4, <1>5, TaskShard
  <2>3. At(D, x) \in mine
    BY <1>4, <1>5, <2>1
  <2>4. QED
    BY <1>0, <2>1, <2>2, <2>3
<1>6. rows' \in RowArray
  <2>1. ASSUME NEW j \in DOMAIN rows PROVE rows'[j] \in Row
    <3>1. Unique(D)[j] \in D /\ At(D, Unique(D)[j]) = j
      BY <1>2, <1>3, UniqueType
    <3>2. CASE j \in mine
      <4>1. t.first <= j /\ j < t.end
        BY <1>4, <2>1, <3>2
      <4>2. QED
        BY <1>3, <1>5, <3>1, <4>1 DEF Row
    <3>3. CASE j \notin mine
      BY <1>0, <2>1, <3>3 DEF IInv, TypeInv, RowArray
    <3>4. QED
      BY <3>2, <3>3
  <2>2. rows' \in [0..(Cardinality(D) - 1) -> Row]
    BY <1>0, <1>4, <2>1
  <2>3. QED
    BY <2>2, <1>3, IdsFinite DEF RowArray
<1>7. TypeInv'
  BY <1>0, <1>3, <1>6 DEF IInv, TypeInv
<1>8. HostInv'
  <2>1. ASSUME NEW x \in D
        PROVE  \/ rows'[At(D, x)] = x
               \/ \E u \in todo' : u.first <= At(D, x) /\ At(D, x) < u.end
    <3>0. At(D, x) \in DOMAIN rows /\ At(D, x) \in Nat
      <4>1. At(D, x) \in 0..(Cardinality(D) - 1)
        BY <1>3, AtRange
      <4>2. QED
        BY <1>3, <1>4, <4>1, IdsFinite
    <3>1. CASE t.first <= At(D, x) /\ At(D, x) < t.end
      BY <1>5, <3>1
    <3>2. CASE ~(t.first <= At(D, x) /\ At(D, x) < t.end)
      <4>1. At(D, x) \notin mine
        BY <1>4, <3>0, <3>2
      <4>2. rows'[At(D, x)] = rows[At(D, x)]
        BY <1>0, <3>0, <4>1
      <4>3. QED
        BY <1>0, <1>2, <3>2, <4>2
    <3>3. QED
      BY <3>1, <3>2
  <2>2. DOMAIN rows' = DOMAIN Unique(D)
    BY <1>0, <1>2
  <2>3. QED
    BY <1>0, <1>2, <1>3, <2>1, <2>2 DEF HostInv
<1>9. QED
  BY <1>1, <1>7, <1>8 DEF IInv

LEMMA JoinStep == IInv /\ Join => IInv'
<1> SUFFICES ASSUME IInv, Join PROVE IInv'
  OBVIOUS
<1> USE DEF load, gathered, staging, gpu
<1>0. /\ pc = "pool" /\ pc' = "stage" /\ todo = {}
      /\ UNCHANGED <<files, mm, asked, rows, todo, bufs, pinned, stream, dev, out>>
  BY DEF Join
<1>1. StreamInv' /\ OutInv'
  BY <1>0, QuietStep
<1>2. TypeInv'
  BY <1>0 DEF IInv, TypeInv, Now
<1>3. Now' = Now /\ D' = D /\ D = Distinct(Now) /\ Distinct(Now)' = Distinct(Now)
  BY <1>0 DEF Now, D, Distinct
<1>4. HostInv'
  BY <1>0, <1>3 DEF IInv, HostInv, Holds
<1>5. QED
  BY <1>1, <1>2, <1>4 DEF IInv

LEMMA ZerosStep == IInv /\ Zeros => IInv'
<1> SUFFICES ASSUME IInv, Zeros PROVE IInv'
  OBVIOUS
<1> USE DEF load, gathered, staging, gpu
<1> DEFINE new == [op |-> "zeros", call |-> Now]
<1>0. /\ pc = "read" /\ pc' = "idle" /\ mm = {}
      /\ stream' = Append(stream, new)
      /\ UNCHANGED <<files, mm, asked, rows, todo, bufs, pinned, dev, out>>
  BY DEF Zeros
<1>1. Now > 0
  BY <1>0 DEF IInv, HostInv
<1>2. Now \in 1..Now /\ Now \in Call
  BY <1>1, DType
<1>3. new \in Commands
  BY <1>2 DEF Commands
<1>4. stream \in Seq(Commands)
  BY DEF IInv, TypeInv
<1> HIDE DEF new
<1>5. /\ stream' \in Seq(Commands) /\ Len(stream') = Len(stream) + 1
      /\ \A k \in 1..Len(stream) : stream'[k] = stream[k]
      /\ stream'[Len(stream) + 1] = new
  BY <1>0, <1>3, <1>4
<1>6. Now' = Now /\ \A c : Distinct(c)' = Distinct(c)
  BY <1>0 DEF Now, Distinct
<1>7. TypeInv'
  BY <1>0, <1>5, <1>6 DEF IInv, TypeInv
<1>8. HostInv'
  BY <1>0 DEF IInv, HostInv
<1>9. StreamInv'
  <2>1. SUFFICES ASSUME NEW k \in 1..(Len(stream) + 1) PROVE CommandInv(k)'
    BY <1>5 DEF StreamInv
  <2>2. CASE k \in 1..Len(stream)
    <3>1. CommandInv(k) /\ stream'[k] = stream[k]
      BY <1>5, <2>2 DEF IInv, StreamInv
    <3>2. k # 1 => stream'[k - 1] = stream[k - 1]
      BY <1>4, <1>5, <2>2
    <3>3. QED
      BY <1>0, <1>6, <3>1, <3>2 DEF CommandInv, Holds
  <2>3. CASE k = Len(stream) + 1
    <3>1. stream'[k].op = "zeros" /\ stream'[k].call = Now
      BY <1>5, <2>3 DEF new
    <3>2. QED
      BY <1>0, <1>2, <1>6, <3>1 DEF CommandInv
  <2>4. QED
    BY <1>4, <2>2, <2>3
<1>10. OutInv'
  BY <1>0, <1>6 DEF IInv, OutInv, RowsAreOwn
<1>11. QED
  BY <1>7, <1>8, <1>9, <1>10 DEF IInv

LEMMA FilledType ==
  ASSUME IInv, NEW old \in RowArray
  PROVE  /\ Filled(old) \in RowArray
         /\ DOMAIN Filled(old) = DOMAIN old
<1>1. PICK n \in Nat : old \in [0..(n - 1) -> Row]
  BY DEF RowArray
<1>2. PICK m \in Nat : rows \in [0..(m - 1) -> Row]
  BY DEF IInv, TypeInv, RowArray
<1>3. Filled(old) \in [0..(n - 1) -> Row]
  BY <1>1, <1>2 DEF Filled
<1>4. QED
  BY <1>1, <1>3 DEF RowArray

\* An array with room for the distinct ids takes all of them.
LEMMA FilledHolds ==
  ASSUME IInv, pc = "stage", NEW n \in Nat, NEW old, DOMAIN old = 0..(n - 1),
         Cardinality(D) <= n
  PROVE  Holds(Filled(old), Now)
<1>1. /\ Now > 0 /\ DOMAIN rows = DOMAIN Unique(D)
      /\ \A x \in D : rows[At(D, x)] = x
  BY DEF IInv, HostInv, Holds, D
<1>2. D \in SUBSET Id /\ Cardinality(D) \in Nat
  BY <1>1, DType, IdsFinite
<1>3. ASSUME NEW x \in D PROVE Filled(old)[At(D, x)] = x
  <2>1. At(D, x) \in DOMAIN rows /\ At(D, x) \in 0..(Cardinality(D) - 1)
    BY <1>1, <1>2, UniqueAt, AtRange
  <2>2. At(D, x) \in DOMAIN old
    BY <1>2, <2>1
  <2>3. QED
    BY <1>1, <2>1, <2>2 DEF Filled
<1>4. QED
  BY <1>3 DEF Holds, D

LEMMA StageStep == IInv /\ Stage => IInv'
<1> SUFFICES ASSUME IInv, Stage PROVE IInv'
  OBVIOUS
<1> USE DEF load, gathered, staging, gpu
<1> DEFINE n == Cardinality(D)
           fresh == [j \in 0..(Capacity(n) - 1) |-> Blank]
<1>0. /\ pc = "stage" /\ pc' = "send"
      /\ UNCHANGED <<files, mm, asked, rows, todo, stream, dev, out>>
  BY DEF Stage
<1>1. Now > 0 /\ stream = <<>> /\ mm # {} /\ todo = {}
  BY <1>0 DEF IInv, HostInv
<1>2. D \in SUBSET Id /\ n \in Nat
  BY <1>1, DType, IdsFinite
<1>3. bufs \in Seq(RowArray) /\ pinned \in 0..Len(bufs)
  BY DEF IInv, TypeInv
<1>4. /\ bufs' \in Seq(RowArray) /\ pinned' \in 0..Len(bufs')
      /\ pinned' # 0 => pinned' \in DOMAIN bufs' /\ Holds(bufs'[pinned'], Now)
  <2>1. CASE Fits /\ bufs' = [bufs EXCEPT ![pinned] = Filled(@)] /\ pinned' = pinned
    <3>1. pinned \in DOMAIN bufs /\ bufs[pinned] \in RowArray
      BY <1>3, <2>1 DEF Fits
    <3>2. PICK m \in Nat : bufs[pinned] \in [0..(m - 1) -> Row]
      BY <3>1 DEF RowArray
    <3>3. Cardinality(DOMAIN bufs[pinned]) = m
      <4>1. Cardinality(0..(m - 1)) = m
        BY FS_Interval
      <4>2. QED
        BY <3>2, <4>1
    <3>4. n <= m
      BY <2>1, <3>3 DEF Fits
    <3>5. Holds(Filled(bufs[pinned]), Now) /\ Filled(bufs[pinned]) \in RowArray
      BY <1>0, <3>1, <3>2, <3>4, FilledHolds, FilledType
    <3>6. QED
      BY <1>3, <2>1, <3>1, <3>5
  <2>2. CASE bufs' = Append(bufs, Filled(fresh)) /\ pinned' = Len(bufs) + 1
    <3>1. Capacity(n) \in Nat /\ n <= Capacity(n)
      BY <1>2, PleAssumption DEF Capacity
    <3>2. fresh \in RowArray
      <4>1. fresh \in [0..(Capacity(n) - 1) -> Row]
        BY DEF Row
      <4>2. QED
        BY <3>1, <4>1 DEF RowArray
    <3>3. Holds(Filled(fresh), Now) /\ Filled(fresh) \in RowArray
      BY <1>0, <3>1, <3>2, FilledHolds, FilledType
    <3> HIDE DEF fresh
    <3>4. QED
      BY <1>3, <2>2, <3>3
  <2>3. CASE pinned' = 0 /\ bufs' = bufs
    BY <1>3, <2>3
  <2>4. QED
    BY <2>1, <2>2, <2>3, Zenon DEF Stage
<1>5. Now' = Now /\ D' = D /\ \A c : Distinct(c)' = Distinct(c)
  BY <1>0 DEF Now, D, Distinct
<1>6. TypeInv'
  BY <1>0, <1>4, <1>5 DEF IInv, TypeInv
<1>7. HostInv'
  <2>1. DOMAIN rows = DOMAIN Unique(D) /\ Holds(rows, Now)
    BY <1>0 DEF IInv, HostInv
  <2>2. QED
    BY <1>0, <1>1, <1>4, <1>5, <2>1 DEF HostInv, Holds
<1>8. StreamInv'
  BY <1>0, <1>1 DEF StreamInv
<1>9. OutInv'
  BY <1>0, <1>5 DEF IInv, OutInv, RowsAreOwn
<1>10. QED
  BY <1>6, <1>7, <1>8, <1>9 DEF IInv

LEMMA SendStep == IInv /\ Send => IInv'
<1> SUFFICES ASSUME IInv, Send PROVE IInv'
  OBVIOUS
<1> USE DEF load, gathered, staging, gpu
<1> DEFINE index == [op |-> "index", call |-> Now]
<1>0. /\ pc = "send" /\ pc' = "idle"
      /\ stream' = stream \o <<Upload, index>>
      /\ UNCHANGED <<files, mm, asked, rows, todo, bufs, pinned, dev, out>>
  BY DEF Send
<1>1. /\ Now > 0 /\ stream = <<>> /\ mm # {} /\ todo = {} /\ Holds(rows, Now)
      /\ pinned # 0 => pinned \in DOMAIN bufs /\ Holds(bufs[pinned], Now)
  BY <1>0 DEF IInv, HostInv
<1>2. Now \in 1..Now /\ Now \in Call /\ D \in SUBSET Id /\ Cardinality(D) \in Nat
  BY <1>1, DType, IdsFinite
<1>3. index \in Commands
  BY <1>2 DEF Commands
<1>4. Upload \in Commands
  <2>1. rows \in RowArray /\ pinned \in Nat
    BY DEF IInv, TypeInv
  <2>2. CASE pinned = 0
    BY <1>2, <2>1, <2>2 DEF Upload, Commands
  <2>3. CASE pinned # 0
    BY <1>2, <2>1, <2>3 DEF Upload, Commands
  <2>4. QED
    BY <2>2, <2>3
<1>5. /\ stream' \in Seq(Commands) /\ Len(stream') = 2
      /\ stream'[1] = Upload /\ stream'[2] = index
  <2> HIDE DEF index
  <2>1. QED
    BY <1>0, <1>1, <1>3, <1>4
<1>6. Now' = Now /\ \A c : Distinct(c)' = Distinct(c)
  BY <1>0 DEF Now, Distinct
<1>7. TypeInv'
  BY <1>0, <1>5, <1>6 DEF IInv, TypeInv
<1>8. HostInv'
  BY <1>0, <1>1 DEF HostInv
<1>9. CommandInv(1)'
  <2>1. CASE pinned = 0
    <3>1. stream'[1].op = "upload" /\ stream'[1].call = Now /\ stream'[1].rows = rows
      BY <1>5, <2>1 DEF Upload
    <3>2. QED
      BY <1>0, <1>1, <1>2, <1>6, <3>1 DEF CommandInv, Holds
  <2>2. CASE pinned # 0
    <3>1. /\ stream'[1].op = "copy" /\ stream'[1].call = Now
          /\ stream'[1].buf = pinned /\ stream'[1].n = Cardinality(Distinct(Now))
      BY <1>5, <2>2 DEF Upload, D
    <3>2. QED
      BY <1>0, <1>1, <1>2, <1>6, <2>2, <3>1 DEF CommandInv, Holds
  <2>3. QED
    BY <2>1, <2>2
<1>10. CommandInv(2)'
  <2>1. stream'[2].op = "index" /\ stream'[2].call = Now
    BY <1>5
  <2>2. stream'[2 - 1].op \in {"copy", "upload"} /\ stream'[2 - 1].call = Now
    BY <1>5 DEF Upload
  <2>3. QED
    BY <1>0, <1>1, <1>2, <1>6, <2>1, <2>2 DEF CommandInv
<1>11. StreamInv'
  BY <1>5, <1>9, <1>10 DEF StreamInv
<1>12. OutInv'
  BY <1>0, <1>6 DEF IInv, OutInv, RowsAreOwn
<1>13. QED
  BY <1>7, <1>8, <1>11, <1>12 DEF IInv

\* What the commands behind the first one keep when it has been run: an index that
\* comes to the front must find its rows on the GPU.
LEMMA PopStep ==
  ASSUME IInv, stream # <<>>, stream' = Tail(stream),
         UNCHANGED <<files, mm, pc, asked, rows, todo, bufs, pinned>>,
         dev' \in [Call -> RowArray],
         Head(stream).op \in {"copy", "upload"} =>
             Holds(dev'[Head(stream).call], Head(stream).call)
  PROVE  /\ HostInv' /\ StreamInv'
         /\ out' \in [Call -> {Blank} \cup Seq(Row)] => TypeInv'
<1>1. stream \in Seq(Commands)
  BY DEF IInv, TypeInv
<1>2. /\ stream' \in Seq(Commands) /\ Len(stream') = Len(stream) - 1
      /\ Len(stream) \in Nat /\ Len(stream) > 0
      /\ \A k \in 1..Len(stream') : stream'[k] = stream[k + 1]
      /\ Head(stream) = stream[1]
  BY <1>1
<1>3. Now' = Now /\ D' = D /\ \A c : Distinct(c)' = Distinct(c)
  BY DEF Now, D, Distinct
<1>4. HostInv'
  BY <1>3 DEF IInv, HostInv, Holds
<1>5. ASSUME NEW k \in 1..Len(stream') PROVE CommandInv(k)'
  <2>1. CommandInv(k + 1) /\ CommandInv(k) /\ stream'[k] = stream[k + 1]
    BY <1>2 DEF IInv, StreamInv
  <2>2. k # 1 => stream'[k - 1] = stream[k]
    BY <1>2
  <2>3. (k + 1) - 1 = k /\ k + 1 # 1
    BY <1>2
  <2>4. stream[k + 1].op = "index" =>
          stream[k].op \in {"copy", "upload"} /\ stream[k].call = stream[k + 1].call
    BY <2>1, <2>3 DEF CommandInv
  <2>5. stream'[k].op = "index" /\ k = 1 => Holds(dev'[stream'[k].call], stream'[k].call)
    BY <1>2, <2>1, <2>4
  <2>6. QED
    BY <1>3, <2>1, <2>2, <2>4, <2>5 DEF CommandInv, Holds
<1>6. StreamInv'
  BY <1>5 DEF StreamInv
<1>7. out' \in [Call -> {Blank} \cup Seq(Row)] => TypeInv'
  BY <1>2, <1>3 DEF IInv, TypeInv
<1>8. QED
  BY <1>4, <1>6, <1>7

\* The first command and its lookup.
LEMMA HeadFacts ==
  ASSUME IInv, stream # <<>>
  PROVE  /\ Head(stream) = stream[1] /\ Head(stream) \in Commands /\ CommandInv(1)
         /\ Head(stream).call \in 1..Now /\ Head(stream).call \in Call
         /\ Distinct(Head(stream).call) \in SUBSET Id
<1>1. stream \in Seq(Commands) /\ asked \in Seq(Seq(Id)) /\ Now <= MaxCalls
  BY DEF IInv, TypeInv
<1>2. Head(stream) = stream[1] /\ Head(stream) \in Commands /\ CommandInv(1)
  BY <1>1 DEF IInv, StreamInv
<1>3. Head(stream).call \in 1..Now
  BY <1>2 DEF CommandInv
<1>4. Head(stream).call \in Call
  BY <1>1, <1>3, PleAssumption DEF Call, Now
<1>5. QED
  BY <1>1, <1>2, <1>3, <1>4, DistinctIds

LEMMA CopyStep == IInv /\ (RunCopy \/ RunUpload) => IInv'
<1> SUFFICES ASSUME IInv, RunCopy \/ RunUpload PROVE IInv'
  OBVIOUS
<1> USE DEF load, gathered, staging
<1> DEFINE cmd == Head(stream)
           c == cmd.call
<1>0. /\ stream # <<>> /\ stream' = Tail(stream)
      /\ UNCHANGED <<files, mm, pc, asked, rows, todo, bufs, pinned, out>>
  BY DEF RunCopy, RunUpload, Command
<1>1. /\ cmd = stream[1] /\ CommandInv(1) /\ c \in Call /\ c \in 1..Now
      /\ Distinct(c) \in SUBSET Id /\ cmd \in Commands
  BY <1>0, HeadFacts
<1>2. dev \in [Call -> RowArray] /\ bufs \in Seq(RowArray) /\ out \in [Call -> {Blank} \cup Seq(Row)]
  BY DEF IInv, TypeInv
<1>3. \E f \in RowArray : dev' = [dev EXCEPT ![c] = f] /\ Holds(f, c)
  <2>1. CASE RunUpload
    <3>1. cmd.op = "upload" /\ dev' = [dev EXCEPT ![c] = cmd.rows]
      BY <2>1 DEF RunUpload, Command
    <3>2. cmd.rows \in RowArray /\ Holds(cmd.rows, c)
      BY <1>1, <3>1 DEF Commands, CommandInv
    <3>3. QED
      BY <3>1, <3>2
  <2>2. CASE RunCopy
    <3> DEFINE f == [j \in 0..(cmd.n - 1) |-> bufs[cmd.buf][j]]
    <3>1. cmd.op = "copy" /\ dev' = [dev EXCEPT ![c] = f]
      BY <2>2 DEF RunCopy, Command
    <3>2. /\ cmd.buf \in DOMAIN bufs /\ cmd.n = Cardinality(Distinct(c))
          /\ \A x \in Distinct(c) : bufs[cmd.buf][At(Distinct(c), x)] = x
      BY <1>1, <3>1 DEF CommandInv, Holds
    <3>3. \A x \in Distinct(c) : At(Distinct(c), x) \in 0..(cmd.n - 1)
      BY <1>1, <3>2, AtRange
    <3>4. Holds(f, c)
      BY <3>2, <3>3 DEF Holds
    <3>5. \A j \in 0..(cmd.n - 1) : f[j] \in Id
      <4>1. SUFFICES ASSUME NEW j \in 0..(cmd.n - 1) PROVE f[j] \in Id
        OBVIOUS
      <4>2. j \in DOMAIN Unique(Distinct(c))
        BY <1>1, <3>2, UniqueType
      <4>3. PICK x \in Distinct(c) : At(Distinct(c), x) = j
        BY <1>1, <4>2, UniqueType
      <4>4. QED
        BY <1>1, <3>2, <4>3
    <3>6. f \in RowArray
      <4>1. cmd.n \in Nat
        BY <1>1, <3>2, IdsFinite
      <4>2. f \in [0..(cmd.n - 1) -> Row]
        BY <3>5 DEF Row
      <4>3. QED
        BY <4>1, <4>2 DEF RowArray
    <3> HIDE DEF f
    <3>7. QED
      BY <3>1, <3>4, <3>6
  <2>3. QED
    BY <2>1, <2>2
<1>4. PICK f \in RowArray : dev' = [dev EXCEPT ![c] = f] /\ Holds(f, c)
  BY <1>3
<1>5. dev' \in [Call -> RowArray] /\ Holds(dev'[c], c)
  BY <1>1, <1>2, <1>4
<1>6. HostInv' /\ StreamInv' /\ TypeInv'
  BY <1>0, <1>2, <1>5, PopStep
<1>7. OutInv'
  BY <1>0 DEF IInv, OutInv, RowsAreOwn, Now
<1>8. QED
  BY <1>6, <1>7 DEF IInv

LEMMA ResultStep == IInv /\ (RunIndex \/ RunZeros) => IInv'
<1> SUFFICES ASSUME IInv, RunIndex \/ RunZeros PROVE IInv'
  OBVIOUS
<1> USE DEF load, gathered, staging
<1> DEFINE cmd == Head(stream)
           c == cmd.call
           answer == [i \in DOMAIN asked[c] |-> IF mm = {} THEN Zero ELSE asked[c][i]]
<1>0. /\ stream # <<>> /\ stream' = Tail(stream) /\ cmd.op \in {"index", "zeros"}
      /\ UNCHANGED <<files, mm, pc, asked, rows, todo, bufs, pinned, dev>>
  BY DEF RunIndex, RunZeros, Command
<1>1. /\ cmd = stream[1] /\ CommandInv(1) /\ c \in Call /\ c \in 1..Now
      /\ Distinct(c) \in SUBSET Id
  BY <1>0, HeadFacts
<1>2. /\ dev \in [Call -> RowArray] /\ out \in [Call -> {Blank} \cup Seq(Row)]
      /\ asked[c] \in Seq(Id)
  BY <1>1 DEF IInv, TypeInv, Now
<1>3. out' = [out EXCEPT ![c] = answer]
  <2>1. CASE RunZeros
    <3>1. mm = {} /\ out' = [out EXCEPT ![c] = [i \in DOMAIN asked[c] |-> Zero]]
      BY <1>1, <2>1 DEF RunZeros, Command, CommandInv
    <3>2. [i \in DOMAIN asked[c] |-> Zero] = answer
      BY <3>1
    <3>3. QED
      BY <3>1, <3>2
  <2>2. CASE RunIndex
    <3>1. cmd.op = "index" /\ out' = [out EXCEPT ![c] = Expand(c)]
      BY <2>2 DEF RunIndex, Command
    <3>2. mm # {} /\ Holds(dev[c], c)
      BY <1>1, <3>1 DEF CommandInv
    <3>3. \A i \in DOMAIN asked[c] : dev[c][At(Distinct(c), asked[c][i])] = asked[c][i]
      BY <3>2 DEF Holds, Distinct
    <3>4. Expand(c) = answer
      BY <3>2, <3>3 DEF Expand
    <3>5. QED
      BY <3>1, <3>4
  <2>3. QED
    BY <2>1, <2>2
<1>4. answer \in Seq(Row)
  BY <1>2 DEF Row
<1> HIDE DEF answer
<1>5. out' \in [Call -> {Blank} \cup Seq(Row)]
  BY <1>1, <1>2, <1>3, <1>4
<1>6. HostInv' /\ StreamInv' /\ TypeInv'
  BY <1>0, <1>2, <1>5, PopStep
<1>7. OutInv'
  <2>1. Now' = Now
    BY <1>0 DEF Now
  <2>2. \A d \in Call : d > Now => out'[d] = Blank
    BY <1>1, <1>2, <1>3 DEF IInv, OutInv, Now
  <2>3. ASSUME NEW d \in 1..Now, out'[d] # Blank
        PROVE  out'[d] = [i \in DOMAIN asked[d] |-> IF mm = {} THEN Zero ELSE asked[d][i]]
    <3>1. CASE d = c
      BY <1>1, <1>2, <1>3, <3>1 DEF answer
    <3>2. CASE d # c
      BY <1>2, <1>3, <2>3, <3>2 DEF IInv, OutInv, RowsAreOwn
    <3>3. QED
      BY <3>1, <3>2
  <2>4. QED
    BY <1>0, <2>1, <2>2, <2>3 DEF OutInv, RowsAreOwn
<1>8. QED
  BY <1>6, <1>7 DEF IInv

LEMMA InvStep == IInv /\ [Next]_vars => IInv'
<1> SUFFICES ASSUME IInv, [Next]_vars PROVE IInv'
  OBVIOUS
<1>1. CASE GatherRaises
  BY <1>1, RaiseStep DEF GatherRaises, load, gathered, staging, gpu
<1>2. CASE \E t \in todo : TaskRaises(t)
  BY <1>2, RaiseStep DEF TaskRaises, load, gathered, staging, gpu
<1>3. CASE \E t \in todo : RunTask(t)
  BY <1>3, TaskStep
<1>4. CASE UNCHANGED vars
  <2>1. StreamInv' /\ OutInv'
    BY <1>4, QuietStep DEF vars
  <2>2. Now' = Now /\ D' = D /\ \A c : Distinct(c)' = Distinct(c)
    BY <1>4 DEF vars, D, Distinct, Now
  <2>3. TypeInv'
    BY <1>4, <2>2 DEF vars, IInv, TypeInv
  <2>4. HostInv'
    BY <1>4, <2>2 DEF vars, IInv, HostInv, Holds
  <2>5. QED
    BY <2>1, <2>3, <2>4 DEF IInv
<1>5. CASE \E ids \in Inputs : Forward(ids)
  BY <1>5, ForwardStep
<1>6. QED
  BY <1>1, <1>2, <1>3, <1>4, <1>5, LoadStep, ZerosStep, ReadIdsStep, InlineStep,
     PooledStep, JoinStep, StageStep, SendStep, CopyStep, ResultStep
     DEF Next, Host, Pool, Device

-----------------------------------------------------------------------------
(* The theorems. *)

LEMMA Invariant == Spec => []IInv
  BY InvInit, InvStep, PTL DEF Spec

\* The variables keep their types: above all, what the gather reads is a row of the
\* table (vllm_ple_mmap.py lines 178-234).
THEOREM TypeCorrect == Spec => []TypeOK
<1>1. IInv => TypeOK
  <2> SUFFICES ASSUME IInv PROVE TypeOK
    OBVIOUS
  <2>1. DOMAIN rows \subseteq Nat /\ \A j \in DOMAIN rows : rows[j] \in Row
    <3>1. PICK n \in Nat : rows \in [0..(n - 1) -> Row]
      BY DEF IInv, TypeInv, RowArray
    <3>2. QED
      BY <3>1
  <2>2. \A k \in 1..Len(stream) : stream[k].call \in Call
    <3>1. stream \in Seq(Commands)
      BY DEF IInv, TypeInv
    <3>2. QED
      BY <3>1 DEF Commands
  <2>3. QED
    BY <2>1, <2>2 DEF IInv, TypeInv, TypeOK, Now
<1>2. QED
  BY <1>1, Invariant, PTL

\* Each id of each lookup gets its own row, in order, however the table is split,
\* the gather cut into tasks, the tasks ordered and the GPU delayed (lines 178-307).
THEOREM EachIdGetsItsRow == Spec => []RowsAreOwn
<1>1. IInv => RowsAreOwn
  BY DEF IInv, OutInv
<1>2. QED
  BY <1>1, Invariant, PTL

\* Tasks of the pool never write the same row of the shared array (lines 211-228).
THEOREM TasksNeverMeet == Spec => []TasksDisjoint
<1>1. IInv => TasksDisjoint
  <2> SUFFICES ASSUME IInv, NEW t \in todo, NEW u \in todo, t # u
               PROVE  t.end <= u.first \/ u.end <= t.first
    BY DEF TasksDisjoint
  <2>1. Now > 0 /\ todo \subseteq Tasks(D)
    BY DEF IInv, HostInv
  <2>2. QED
    BY <2>1, DType, TasksApart
<1>2. QED
  BY <1>1, Invariant, PTL

\* A staging buffer is not written while a copy of it is on the stream (lines 293-302).
THEOREM StagingStaysQuiet == Spec => StagingQuiet
<1>1. IInv /\ [Next]_vars =>
        [\A k \in 1..Len(stream) :
            stream[k].op = "copy" => bufs'[stream[k].buf] = bufs[stream[k].buf]]_vars
  <2> SUFFICES ASSUME IInv, Next, NEW k \in 1..Len(stream)
               PROVE  bufs'[stream[k].buf] = bufs[stream[k].buf]
    OBVIOUS
  <2>1. CASE Stage
    <3>1. stream = <<>>
      BY <2>1 DEF IInv, HostInv, Stage
    <3>2. QED
      BY <3>1
  <2>2. CASE ~Stage
    <3>1. UNCHANGED bufs
      BY <2>2 DEF Next, Load, LoadDummy, Forward, Host, Pool, Device, Zeros, ReadIds,
         GatherRaises, GatherInline, GatherPooled, Join, Send, RunTask, TaskRaises,
         RunCopy, RunUpload, RunIndex, RunZeros, staging
    <3>2. QED
      BY <3>1
  <2>3. QED
    BY <2>1, <2>2
<1>2. QED
  BY <1>1, Invariant, PTL DEF Spec, StagingQuiet
=============================================================================
