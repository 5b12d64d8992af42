------------------------------ MODULE PleMmap ------------------------------
(***************************************************************************)
(* The n-gram embedding served from disk (src/vllm_ple_mmap.py): opening   *)
(* the sharded table, gathering the rows of a lookup inline or on a pool   *)
(* of threads, and sending them to the GPU through one pinned staging      *)
(* buffer while the host runs ahead of the GPU's stream.                   *)
(*                                                                         *)
(* A row is named by its global id.  Positions count from 0, as in NumPy.  *)
(* The hashing that yields ids, and the files' contents, are external.     *)
(***************************************************************************)
EXTENDS Integers, Sequences, FiniteSets, FiniteSetsExt

CONSTANTS
    Vocab,      \* org_vocab_size: rows of the whole table
    Parts,      \* split_ngram_parts: shards the table is split into
    Chunk,      \* VLLM_PLE_MMAP_CHUNK: rows per task of the pool
    FastRows,   \* VLLM_PLE_MMAP_FAST_ROWS: up to this many rows, no pool
    MinRows,    \* smallest staging buffer, in rows
    MaxCalls,   \* bound: lookups of a behaviour
    Inputs,     \* the lookups tried: sequences of ids
    Absent,     \* a shard that is in no file
    Bad,        \* a shard whose dtype, width or size does not fit
    Blank,      \* memory not written
    Zero        \* a row of zeros

Id == 0..(Vocab - 1)
Shard == 0..(Parts - 1)
Call == 1..MaxCalls
Row == Id \cup {Blank, Zero}
Nothing == [j \in {} |-> Blank]

ASSUME PleAssumption ==
    /\ Vocab \in Nat \ {0} /\ Parts \in Nat \ {0} /\ Chunk \in Nat \ {0}
    /\ FastRows \in Nat /\ MinRows \in Nat /\ MaxCalls \in Nat
    /\ Inputs \subseteq Seq(Id)
    /\ Blank \notin Id /\ Zero \notin Id \cup {Blank}

VARIABLES
    files,    \* rows of each shard in the checkpoint, or Absent or Bad
    mm,       \* shards opened; {} stands for table = None
    pc,       \* where the thread that runs the model is
    asked,    \* the ids of each lookup, flattened
    rows,     \* what the gather of the current lookup has read
    todo,     \* tasks of the pool not yet run
    bufs,     \* pinned buffers allocated so far
    pinned,   \* the index of the current one, 0 for none
    stream,   \* commands the GPU has not run
    dev,      \* the rows of each lookup on the GPU
    out       \* the result of each lookup on the GPU, Blank until computed

load == <<files, mm>>
gathered == <<rows, todo>>
staging == <<bufs, pinned>>
gpu == <<dev, out>>
vars == <<files, mm, pc, asked, rows, todo, bufs, pinned, stream, dev, out>>

-----------------------------------------------------------------------------
(* The table. *)

Least(a, b) == IF a < b THEN a ELSE b

ShardSize == (Vocab + Parts - 1) \div Parts

Expected(s) == IF s * ShardSize < Vocab THEN Least(ShardSize, Vocab - s * ShardSize) ELSE 0

ShardOf(x) == x \div ShardSize

\* Mutant: the last row of a shard counts as the next shard's.
LocalShifted(x) == x - ShardOf(x) * (ShardSize - 1)

Local(x) == x - ShardOf(x) * ShardSize

\* Row l of the file of shard s.
FileRow(s, l) == s * ShardSize + l

RowsTotal == MapThenSumSet(LAMBDA s : files[s], mm)

\* The ids of the current lookup without repetitions; np.unique puts x at At(S, x).
Distinct(c) == {asked[c][i] : i \in DOMAIN asked[c]}
At(S, x) == Cardinality({y \in S : y < x})
Unique(S) == [j \in 0..(Cardinality(S) - 1) |-> CHOOSE x \in S : At(S, x) = j]

\* Tasks of a gather: the distinct ids of one shard are contiguous (sorted), and
\* are cut into chunks.  A task reads positions first <= j < end of its shard.
Before(S, s) == Cardinality({y \in S : ShardOf(y) < s})

\* Mutant: a chunk runs over the end of its shard.
TaskUnclipped(S, s, k) ==
    [shard |-> s, first |-> Before(S, s) + k * Chunk,
     end |-> Before(S, s) + k * Chunk + Chunk]

TaskOf(S, s, k) ==
    [shard |-> s, first |-> Before(S, s) + k * Chunk,
     end |-> Least(Before(S, s) + k * Chunk + Chunk, Before(S, s + 1))]

Tasks(S) ==
    {t \in {TaskOf(S, s, k) : s \in Shard, k \in 0..Cardinality(S)} :
        t.first < Before(S, t.shard + 1)}

Now == Len(asked)
D == Distinct(Now)

-----------------------------------------------------------------------------

TypeOK ==
    /\ files \in [Shard -> {Absent, Bad} \cup 0..ShardSize]
    /\ mm \in SUBSET Shard
    /\ pc \in {"load", "refused", "idle", "read", "gather", "pool", "stage", "send", "dead"}
    /\ asked \in Seq(Seq(Id)) /\ Len(asked) <= MaxCalls
    /\ DOMAIN rows \subseteq Nat /\ \A j \in DOMAIN rows : rows[j] \in Row
    /\ todo \subseteq [shard : Shard, first : Nat, end : Nat]
    /\ pinned \in 0..Len(bufs)
    /\ \A k \in 1..Len(stream) : stream[k].call \in Call
    /\ out \in [Call -> {Blank} \cup Seq(Row)]

Init ==
    /\ files \in [Shard -> {Absent, Bad} \cup 0..ShardSize]
    /\ mm = {} /\ pc = "load"
    /\ asked = <<>> /\ rows = Nothing /\ todo = {}
    /\ bufs = <<>> /\ pinned = 0 /\ stream = <<>>
    /\ dev = [c \in Call |-> Nothing]
    /\ out = [c \in Call |-> Blank]

\* _find_shards and _setup_table.
Usable ==
    /\ \E s \in Shard : files[s] # Absent
    /\ \A s \in Shard : files[s] \in {Absent, Expected(s)}

Load ==
    /\ pc = "load"
    /\ \/ /\ Usable
          /\ mm' = {s \in Shard : files[s] # Absent}
          /\ pc' = "idle"
       \/ /\ ~Usable
          /\ pc' = "refused"
          /\ UNCHANGED mm
    /\ UNCHANGED <<files, asked, gathered, staging, stream, gpu>>

\* --load-format dummy: load_weights is not called.
LoadDummy ==
    /\ pc = "load"
    /\ pc' = "idle"
    /\ UNCHANGED <<load, asked, gathered, staging, stream, gpu>>

-----------------------------------------------------------------------------
(* A lookup on the host. *)

\* Further layers, and the hashing of this one, are on the stream already.
Forward(ids) ==
    /\ pc = "idle"
    /\ Now < MaxCalls
    /\ asked' = Append(asked, ids)
    /\ pc' = "read"
    /\ UNCHANGED <<load, gathered, staging, stream, gpu>>

Zeros ==
    /\ pc = "read"
    /\ mm = {}
    /\ stream' = Append(stream, [op |-> "zeros", call |-> Now])
    /\ pc' = "idle"
    /\ UNCHANGED <<load, asked, gathered, staging, gpu>>

\* Mutant: the ids are fetched with non_blocking=True.
ReadIdsEarly ==
    /\ pc = "read"
    /\ mm # {}
    /\ pc' = "gather"
    /\ UNCHANGED <<load, asked, gathered, staging, stream, gpu>>

\* ids.to("cpu", non_blocking=False) returns once the stream is drained.
ReadIds ==
    /\ pc = "read"
    /\ mm # {}
    /\ stream = <<>>
    /\ pc' = "gather"
    /\ UNCHANGED <<load, asked, gathered, staging, stream, gpu>>

\* Mutant: the last row of the table counts as out of range.
ReadableShort == /\ \A x \in D : x + 1 < RowsTotal
                 /\ Cardinality(D) <= FastRows => \A x \in D : ShardOf(x) \in mm

\* The check for negative ids is left out: an id is a row of the table.
Readable == /\ \A x \in D : x < RowsTotal
            /\ Cardinality(D) <= FastRows => \A x \in D : ShardOf(x) \in mm

\* An IndexError, or a TypeError on a shard that is not there, ends the engine.
GatherRaises ==
    /\ pc = "gather"
    /\ ~Readable
    /\ pc' = "dead"
    /\ UNCHANGED <<load, asked, gathered, staging, stream, gpu>>

ReadRow(s, x) == FileRow(s, Local(x))

\* No id at all is returned as no row, by the same path.
GatherInline ==
    /\ pc = "gather"
    /\ Readable
    /\ Cardinality(D) <= FastRows
    /\ rows' = [j \in DOMAIN Unique(D) |-> ReadRow(ShardOf(Unique(D)[j]), Unique(D)[j])]
    /\ pc' = "stage"
    /\ UNCHANGED <<load, asked, todo, staging, stream, gpu>>

GatherPooled ==
    /\ pc = "gather"
    /\ Readable
    /\ Cardinality(D) > FastRows
    /\ rows' = [j \in DOMAIN Unique(D) |-> Blank]
    /\ todo' = Tasks(D)
    /\ pc' = "pool"
    /\ UNCHANGED <<load, asked, staging, stream, gpu>>

\* A thread of the pool: out[a:b] = mm[local[a:b]].
RunTask(t) ==
    /\ pc = "pool"
    /\ t \in todo
    /\ t.shard \in mm
    /\ rows' = [j \in DOMAIN rows |->
                  IF j \in t.first..(t.end - 1) THEN ReadRow(t.shard, Unique(D)[j])
                                               ELSE rows[j]]
    /\ todo' = todo \ {t}
    /\ UNCHANGED <<load, pc, asked, staging, stream, gpu>>

\* pool.map re-raises what a task raised.
TaskRaises(t) ==
    /\ pc = "pool"
    /\ t \in todo
    /\ t.shard \notin mm
    /\ pc' = "dead"
    /\ UNCHANGED <<load, asked, gathered, staging, stream, gpu>>

Join ==
    /\ pc = "pool"
    /\ todo = {}
    /\ pc' = "stage"
    /\ UNCHANGED <<load, asked, gathered, staging, stream, gpu>>

Filled(old) == [j \in DOMAIN old |-> IF j \in DOMAIN rows THEN rows[j] ELSE old[j]]
Capacity(n) == IF n + n \div 2 > MinRows THEN n + n \div 2 ELSE MinRows
Fits == pinned # 0 /\ Cardinality(D) <= Cardinality(DOMAIN bufs[pinned])

\* _pinned_buf, then buf[:u].numpy()[:] = rows.
Stage ==
    /\ pc = "stage"
    /\ \/ /\ Fits
          /\ bufs' = [bufs EXCEPT ![pinned] = Filled(@)]
          /\ UNCHANGED pinned
       \/ /\ ~Fits
          /\ bufs' = Append(bufs, Filled([j \in 0..(Capacity(Cardinality(D)) - 1) |-> Blank]))
          /\ pinned' = Len(bufs) + 1
       \/ /\ ~Fits          \* no memory can be pinned
          /\ pinned' = 0
          /\ UNCHANGED bufs
    /\ pc' = "send"
    /\ UNCHANGED <<load, asked, gathered, stream, gpu>>

\* A pageable array is copied out of the host before .to() returns; a pinned one
\* is read when the stream reaches the copy.
Upload ==
    IF pinned = 0 THEN [op |-> "upload", call |-> Now, rows |-> rows]
                  ELSE [op |-> "copy", call |-> Now, buf |-> pinned, n |-> Cardinality(D)]

Send ==
    /\ pc = "send"
    /\ stream' = stream \o <<Upload, [op |-> "index", call |-> Now]>>
    /\ pc' = "idle"
    /\ UNCHANGED <<load, asked, gathered, staging, gpu>>

-----------------------------------------------------------------------------
(* The GPU runs the commands of its stream in order. *)

Command(op) == stream # <<>> /\ Head(stream).op = op /\ stream' = Tail(stream)

RunCopy ==
    /\ Command("copy")
    /\ dev' = [dev EXCEPT ![Head(stream).call] =
                 [j \in 0..(Head(stream).n - 1) |-> bufs[Head(stream).buf][j]]]
    /\ UNCHANGED <<load, pc, asked, gathered, staging, out>>

RunUpload ==
    /\ Command("upload")
    /\ dev' = [dev EXCEPT ![Head(stream).call] = Head(stream).rows]
    /\ UNCHANGED <<load, pc, asked, gathered, staging, out>>

\* Mutant: the distinct rows are returned as they lie.
ExpandNot(c) == [i \in DOMAIN asked[c] |-> dev[c][Least(i, Cardinality(Distinct(c))) - 1]]

\* dev[inverse]
Expand(c) == [i \in DOMAIN asked[c] |-> dev[c][At(Distinct(c), asked[c][i])]]

RunIndex ==
    /\ Command("index")
    /\ out' = [out EXCEPT ![Head(stream).call] = Expand(Head(stream).call)]
    /\ UNCHANGED <<load, pc, asked, gathered, staging, dev>>

RunZeros ==
    /\ Command("zeros")
    /\ out' = [out EXCEPT ![Head(stream).call] = [i \in DOMAIN asked[Head(stream).call] |-> Zero]]
    /\ UNCHANGED <<load, pc, asked, gathered, staging, dev>>

-----------------------------------------------------------------------------

Host == \/ Zeros \/ ReadIds \/ GatherRaises \/ GatherInline \/ GatherPooled
        \/ Join \/ Stage \/ Send
Pool == \E t \in todo : RunTask(t) \/ TaskRaises(t)
Device == RunCopy \/ RunUpload \/ RunIndex \/ RunZeros

Next ==
    \/ Load \/ LoadDummy
    \/ \E ids \in Inputs : Forward(ids)
    \/ Host \/ Pool \/ Device

Spec == Init /\ [][Next]_vars

\* The host's calls return, the pool's threads run, the GPU works off its stream.
FairSpec == Spec /\ WF_vars(Host) /\ WF_vars(Pool) /\ WF_vars(Device)

-----------------------------------------------------------------------------
(* Properties. *)

\* Each id of a lookup gets its own row, in order (HOW-IT-WORKS.md, the gather is
\* bit for bit the table's), whatever the shards, the chunks, the order the pool's
\* threads run in and the lookups in flight: lines 180-234 and 283-307.
RowsAreOwn ==
    \A c \in 1..Now : out[c] # Blank =>
        out[c] = [i \in DOMAIN asked[c] |-> IF mm = {} THEN Zero ELSE asked[c][i]]

\* Tasks that may run at the same time never write the same row of the shared
\* array (lines 211-228): nothing else keeps the threads apart.
TasksDisjoint ==
    \A t, u \in todo : t # u => t.end <= u.first \/ u.end <= t.first

\* The staging buffer is not written while a copy that reads it is still on the
\* stream (lines 293-302): only the synchronous read of the next ids sees to that.
StagingQuiet ==
    [][\A k \in 1..Len(stream) :
          stream[k].op = "copy" => bufs'[stream[k].buf] = bufs[stream[k].buf]]_vars

\* Every lookup is answered, unless the engine stops on a row it does not have (lines
\* 188-193, 202-206 and 222-223 with the row counts of lines 602-609): no boundary refuses
\* a legal id, no lookup is left waiting.
CallsAreAnswered ==
    \A c \in Call : (c <= Now) ~>
        \/ out[c] # Blank
        \/ pc = "dead" /\ \E s \in Shard : Expected(s) > 0 /\ s \notin mm
=============================================================================
