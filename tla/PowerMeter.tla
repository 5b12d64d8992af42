----------------------------- MODULE PowerMeter -----------------------------
(***************************************************************************)
(* srh/capacity/local_runtime.py _power_measurement: a thread that samples *)
(* the power of the GPU while a benchmark works, and the benchmark that    *)
(* stops it, waits for it no longer than JoinLimit, and then reads what it *)
(* has collected, three times over.  Time passes in ticks; a sample that   *)
(* takes SampleLimit ticks is given up.                                    *)
(***************************************************************************)
EXTENDS Naturals, Sequences

CONSTANTS
    Client,       \* the benchmarks
    SampleLimit,  \* timeout of nvidia-smi: 3 s
    JoinLimit,    \* thread.join(timeout=4)
    MaxSamples    \* bound: samples of one benchmark

ASSUME PowerAssumption ==
    /\ SampleLimit \in Nat /\ JoinLimit \in Nat /\ SampleLimit < JoinLimit
    /\ MaxSamples \in Nat

VARIABLES
    monitor,   \* the sampling thread
    elapsed,   \* time its current sample has taken
    samples,   \* samples collected
    waited,    \* time spent in join, once stop is set
    power      \* how many samples average, count and peak were taken of

meter == <<monitor, elapsed, samples, waited, power>>

Monitor == {"off", "loop", "sampling", "hung", "ended"}
NotStopped == JoinLimit + 1

MeterTypeOK ==
    /\ monitor \in [Client -> Monitor]
    /\ elapsed \in [Client -> 0..SampleLimit]
    /\ samples \in [Client -> 0..MaxSamples]
    /\ waited \in [Client -> 0..NotStopped]
    /\ power \in [Client -> Seq(0..MaxSamples)]

MeterInit ==
    /\ monitor = [c \in Client |-> "off"]
    /\ elapsed = [c \in Client |-> 0]
    /\ samples = [c \in Client |-> 0]
    /\ waited = [c \in Client |-> NotStopped]
    /\ power = [c \in Client |-> <<>>]

Stopped(c) == waited[c] # NotStopped

-----------------------------------------------------------------------------
(* The benchmark. *)

\* Each benchmark has a thread, a list and an event of its own.
Start(c) ==
    /\ monitor' = [monitor EXCEPT ![c] = "loop"]
    /\ elapsed' = [elapsed EXCEPT ![c] = 0]
    /\ samples' = [samples EXCEPT ![c] = 0]
    /\ waited' = [waited EXCEPT ![c] = NotStopped]
    /\ power' = [power EXCEPT ![c] = <<>>]

Stop(c) ==
    /\ waited' = [waited EXCEPT ![c] = 0]
    /\ UNCHANGED <<monitor, elapsed, samples, power>>

\* Mutants: it does not wait; it waits for good.
JoinedAtOnce(c) == Stopped(c)
JoinedForGood(c) == Stopped(c) /\ monitor[c] = "ended"

\* thread.join(timeout=4) returns.
Joined(c) == Stopped(c) /\ (monitor[c] = "ended" \/ waited[c] = JoinLimit)

\* mean(samples), len(samples), max(samples)
Read(c) ==
    /\ Len(power[c]) < 3
    /\ power' = [power EXCEPT ![c] = Append(@, samples[c])]
    /\ UNCHANGED <<monitor, elapsed, samples, waited>>

-----------------------------------------------------------------------------
(* The thread. *)

Check(c) ==
    /\ monitor[c] = "loop"
    /\ monitor' = [monitor EXCEPT ![c] = IF Stopped(c) THEN "ended" ELSE "sampling"]
    /\ elapsed' = [elapsed EXCEPT ![c] = 0]
    /\ UNCHANGED <<samples, waited, power>>

\* A sample, or none: no nvidia-smi, output that is no number, the timeout.
Sampled(c) ==
    /\ monitor[c] = "sampling"
    /\ monitor' = [monitor EXCEPT ![c] = "loop"]
    /\ \/ samples[c] < MaxSamples /\ samples' = [samples EXCEPT ![c] = @ + 1]
       \/ UNCHANGED samples
    /\ UNCHANGED <<elapsed, waited, power>>

\* check_output kills an nvidia-smi that is too slow, and waits for it to die.
Hang(c) ==
    /\ monitor[c] = "sampling" /\ elapsed[c] = SampleLimit
    /\ monitor' = [monitor EXCEPT ![c] = "hung"]
    /\ UNCHANGED <<elapsed, samples, waited, power>>

\* It died after all: TimeoutExpired, which is no sample.
Die(c) ==
    /\ monitor[c] = "hung"
    /\ monitor' = [monitor EXCEPT ![c] = "loop"]
    /\ UNCHANGED <<elapsed, samples, waited, power>>

Passing == {c \in Client : monitor[c] = "sampling" /\ elapsed[c] < SampleLimit}
Waiting == {c \in Client : waited[c] < JoinLimit /\ monitor[c] # "ended"}

Tick ==
    /\ \A c \in Client : monitor[c] = "sampling" => elapsed[c] < SampleLimit
    /\ Passing \cup Waiting # {}
    /\ elapsed' = [c \in Client |-> IF c \in Passing THEN elapsed[c] + 1 ELSE elapsed[c]]
    /\ waited' = [c \in Client |-> IF c \in Waiting THEN waited[c] + 1 ELSE waited[c]]
    /\ UNCHANGED <<monitor, samples, power>>
=============================================================================
