----------------------------- MODULE Experiment -----------------------------
(***************************************************************************)
(* One run of a measurement program against a live runtime: the paired     *)
(* experiment of srh/experiments/paired_modes.py or the single one of      *)
(* executor.py, with the profile captures of srh/profiles/capture.py, the  *)
(* request threads of executor.py, a runtime that may be restarted, even   *)
(* as another one, while it is measured, and srh/decision/engine.py on the *)
(* evidence written.                                                       *)
(***************************************************************************)
EXTENDS Integers, StreamChat

CONSTANTS
    Setups,       \* what the program is started with
    Repetitions,  \* --repetitions
    Streams,      \* what the runtime may answer with
    Usual,        \* the stream of an answer without incident
    Restarts,     \* sets of parts that a restart may exchange
    MaxFaults,    \* bound: incidents in a run, by setup
    Target,       \* service objectives of the plan
    Percent,      \* 95
    Grain,        \* rounding of a metric
    Unreadable    \* a GPU, or evidence, that could not be read

D == INSTANCE Decision

Mode == {"probe", "assistant"}
CacheState == {"cold", "warm", "shared-prefix"}

\* The parts of the identity, in the order in which capture_profile reads them.
Parts == <<"image", "argv", "environment", "gpu">>
Gpu == Len(Parts)

Point == [concurrency : Nat \ {0}, cache : CacheState, tokens : Nat]
Setup == [program : {"paired", "single"},
          experiment : Point \cup {None},       \* found in the plan
          packTokens : Nat,
          reasoning : {"disabled", "required", "optional"},
          override : {"plan", "disabled", "required"},
          modes : SUBSET Mode, mode : Mode,     \* allowed; asked for or the default
          limit : [Mode -> Int], streaming : BOOLEAN]

ASSUME ExperimentAssumption ==
    /\ Setups \subseteq Setup
    /\ Repetitions \in Nat \ {0}
    /\ Usual \in Streams /\ Streams \subseteq Seq(Line)
    /\ Restarts \subseteq SUBSET (1..Len(Parts))
    /\ MaxFaults \in [Setups -> Nat]
    /\ Target \in [ttfa : Nat, e2e : Nat, rate : Nat, errors : 0..100, score : Nat]
    /\ Percent \in 1..100 /\ Grain \in Nat \ {0}
    /\ Unreadable \notin Nat /\ Unreadable # None

VARIABLES
    setup,     \* arguments, plan and pack
    phase,     \* where the program is
    before,    \* first capture: what was read so far, in the order of Parts
    after,     \* second capture
    rep, turn, \* repetition, and place of the batch in it
    worker,    \* the requests of the current batch
    batches,   \* the batches so far, by mode
    report,    \* the evidence file, None until written
    decision,  \* what decision/engine.py makes of it, None until asked
    identity,  \* runtime: the version of each part
    cached,    \* runtime: the first segments of the prompts it has computed
    warmed,    \* runtime: not restarted since this batch's warm-up
    faults     \* incidents so far

captures == <<before, after>>
place == <<rep, turn>>
outcome == <<report, decision>>
runtime == <<identity, cached, warmed>>
vars == <<setup, phase, captures, place, worker, batches, outcome, runtime, faults>>

Fault == faults < MaxFaults[setup] /\ faults' = faults + 1

-----------------------------------------------------------------------------
(* Start-up. *)

Paired == setup.program = "paired"
Workers == 1..setup.experiment.concurrency

\* resolve_reasoning_mode: None for an optional policy without an override.
Thinking == IF setup.override # "plan" THEN setup.override = "required"
            ELSE IF setup.reasoning = "optional" THEN None
            ELSE setup.reasoning = "required"

UsedModes == IF Paired THEN Mode ELSE {setup.mode}

\* What both programs check before the first request.
Runnable ==
    /\ setup.experiment # None
    /\ setup.experiment.tokens = setup.packTokens
    /\ Thinking # None
    /\ UsedModes \subseteq setup.modes
    /\ \A mode \in UsedModes : setup.limit[mode] >= 1
    /\ Paired \/ setup.streaming

-----------------------------------------------------------------------------
(* Requests. *)

\* "probe, assistant" on odd repetitions, the other way round on even ones.
Order == IF ~Paired THEN <<setup.mode>>
         ELSE IF rep % 2 = 1 THEN <<"probe", "assistant">> ELSE <<"assistant", "probe">>

\* A prompt is a sequence of segments: the context of the pack, its question, for a
\* probe the instruction to answer in one line.  Only what a prompt starts with can be
\* found in the prefix cache.  Every segment is a triple, for the instances' sake.
Fixed(text) == <<text, 0, 0>>
Context == Fixed("context")
BaseRequest(mode) ==
    <<Context, Fixed("question")>> \o (IF mode = "probe" THEN <<Fixed("oneLine")>> ELSE <<>>)

Instanced(instance, mode) ==
    IF setup.experiment.cache = "shared-prefix" THEN BaseRequest(mode) \o <<instance>>
                                                ELSE <<instance>> \o BaseRequest(mode)

\* Mutant: the repetition is left out of the instance.
PrepareWithoutRepetition(mode, no) == Instanced(<<mode, 0, no>>, mode)

\* prepare_request: a run_id for each mode, the repetition, the number.
PrepareRequest(mode, no) == Instanced(<<mode, rep, no>>, mode)

\* prewarm: an unrelated prompt, or the shared context with another question.
WarmupRequest == IF setup.experiment.cache = "warm" THEN <<Fixed("warmUp")>>
                                                    ELSE <<Context, Fixed("initialise")>>

\* What a client has of the usual answer when the connection goes away.
Cut == {SubSeq(Usual, 1, n) : n \in 0..(Len(Usual) - 1)}
Observed == [stream \in Streams \cup Cut |-> [thinking \in BOOLEAN |-> Measured(stream, thinking)]]

\* "on", "reused" and "warmed" are what is true of the runtime when the request is sent.
Idle == [at |-> "none", on |-> <<>>, reused |-> FALSE, warmed |-> FALSE, result |-> None]
Failure == [success |-> FALSE, measured |-> None]
Success(stream) == [success |-> TRUE, measured |-> Observed[stream][Thinking]]

Waiting == {w \in Workers : worker[w].at \notin {"none", "started"}}

\* Mutant: a party more.
PartiesAndOne == setup.experiment.concurrency + 1

\* threading.Barrier(concurrency)
Parties == setup.experiment.concurrency
Released == Cardinality(Waiting) >= Parties

-----------------------------------------------------------------------------
(* What the programs write and decide. *)

\* summarize_batches and evidence.replay agree on the arithmetic.
R == INSTANCE Recommend WITH
        Profile <- {0}, Condition <- {0}, System <- {0}, Required <- Check,
        Target <- [ttfa |-> Target.ttfa, e2e |-> Target.e2e, rate |-> Target.rate,
                   errors |-> Target.errors, score |-> Target.score, mode |-> "assistant"],
        MinRepetitions <- Repetitions, Inputs <- {}, Manifests <- {}, Refused <- Unreadable,
        policy <- "profile", manifest <- <<>>, evidences <- <<>>, next <- 1, rows <- <<>>,
        rejected <- {}, report <- None

Sent(mode) == (DOMAIN batches[mode]) \X Workers
Outcome(mode, p) == batches[mode][p[1]].requests[p[2]].result
Answered(mode) == {p \in Sent(mode) : Outcome(mode, p).success}

\* A value that is missing is left out of its metric.
Metric(mode, field) ==
    [p \in {q \in Answered(mode) : Outcome(mode, q).measured[field] # None} |->
        Outcome(mode, p).measured[field]]
Scores(mode) == [p \in Answered(mode) |-> Cardinality(Outcome(mode, p).measured.checks)]

\* slo_assessment of a summary: the objectives missed.  It goes into the file with the
\* batches, which no longer change.
Missed(mode) ==
    LET within(field, bound) ==
            /\ DOMAIN Metric(mode, field) # {}
            /\ R!Rounded(R!Percentile(Metric(mode, field))) <= bound
        above(f, bound) == DOMAIN f # {} /\ R!Rounded(R!Minimum(f)) >= bound
        failed == Cardinality(Sent(mode) \ Answered(mode))
        kept == [ttfa_p95_ms |-> within("ttfa", Target.ttfa),
                 end_to_end_p95_ms |-> within("e2e", Target.e2e),
                 answer_tokens_per_second_min |-> above(Metric(mode, "rate"), Target.rate),
                 error_rate_max |-> 100 * failed <= Target.errors * Cardinality(Sent(mode)),
                 quality_minimum_score |->
                     Answered(mode) # {} /\ R!Minimum(Scores(mode)) >= Target.score]
    IN {o \in D!Objective : ~kept[o]}

\* Mutants: only the image is compared; the failed requests are left out.
StableByImage == before[1] = after[1]
AnsweredOnly(mode) ==
    [k \in DOMAIN batches[mode] |->
        [batches[mode][k] EXCEPT !.requests = SelectSeq(@, LAMBDA r : r.result.success)]]

\* runtime_verification.stable compares the hashes of all the parts.
Stable == before = after

\* The raw requests, by mode.
Recorded(mode) == batches[mode]

Report ==
    [paired |-> Paired,
     stable |-> Paired /\ Stable,
     profile |-> before,
     repetitions |-> Repetitions,
     concurrency |-> setup.experiment.concurrency,
     batches |-> [mode \in Mode |-> Recorded(mode)]]

\* diagnose takes the median first answer of both modes; without any answer it raises.
Decision == IF \E mode \in Mode : DOMAIN Metric(mode, "ttfa") = {} THEN Unreadable
            ELSE D!Judgement([mode \in Mode |-> Missed(mode)])

-----------------------------------------------------------------------------

Result == [success : BOOLEAN, measured : Measurement \cup {None}]
Identity == [1..Len(Parts) -> Nat]
WorkerState == [at : {"none", "started", "waiting", "sent", "cut", "done"},
                on : Identity \cup {<<>>}, reused : BOOLEAN, warmed : BOOLEAN,
                result : Result \cup {None}]
Batch == [repetition : Nat, requests : Seq(WorkerState)]
Phase == {"capture", "load", "warmup", "submit", "requests", "recapture", "write",
          "written", "failed", "refused", "stuck"}
Capture == {c \in Seq(Nat \cup {Unreadable}) : Len(c) <= Len(Parts)}
ReportType == [paired : BOOLEAN, stable : BOOLEAN, profile : Capture, repetitions : Nat,
               concurrency : Nat, batches : [Mode -> Seq(Batch)]]

TypeOK ==
    /\ setup \in Setups
    /\ phase \in Phase
    /\ before \in Capture /\ after \in Capture
    /\ rep \in 1..Repetitions /\ turn \in 1..Len(Order)
    /\ worker \in [IF setup.experiment = None THEN {} ELSE Workers -> WorkerState]
    /\ batches \in [Mode -> Seq(Batch)]
    /\ report \in ReportType \cup {None}
    /\ decision \in D!JudgementType \cup {Unreadable, None}
    /\ identity \in Identity
    /\ warmed \in BOOLEAN
    /\ faults \in 0..MaxFaults[setup]

NoBatch == [w \in IF setup.experiment = None THEN {} ELSE Workers |-> Idle]

\* The prefix cache may hold the context from an earlier run.
Init ==
    /\ setup \in Setups
    /\ phase = IF Paired THEN "capture" ELSE "load"
    /\ before = <<>> /\ after = <<>>
    /\ rep = 1 /\ turn = 1
    /\ worker = NoBatch
    /\ batches = [mode \in Mode |-> <<>>]
    /\ report = None /\ decision = None
    /\ identity = [k \in 1..Len(Parts) |-> 0]
    /\ cached \in {{}, {Context}}
    /\ warmed = FALSE
    /\ faults = 0

-----------------------------------------------------------------------------
(* capture_profile: docker inspect, the command line and the environment of process 1,
   nvidia-smi, one after the other. *)

CaptureBefore(value) ==
    /\ phase = "capture" /\ Len(before) < Len(Parts)
    /\ before' = Append(before, value)
    /\ UNCHANGED after

CaptureAfter(value) ==
    /\ phase = "recapture" /\ Len(after) < Len(Parts)
    /\ after' = Append(after, value)
    /\ UNCHANGED before

Reading == IF phase = "capture" THEN Len(before) + 1 ELSE Len(after) + 1

CapturePart ==
    /\ CaptureBefore(identity[Reading]) \/ CaptureAfter(identity[Reading])
    /\ UNCHANGED <<setup, phase, place, worker, batches, outcome, runtime, faults>>

\* nvidia-smi that fails is recorded as an error, and is part of the hash.
GpuUnreadable ==
    /\ Reading = Gpu /\ Fault
    /\ CaptureBefore(Unreadable) \/ CaptureAfter(Unreadable)
    /\ UNCHANGED <<setup, phase, place, worker, batches, outcome, runtime>>

\* Without its container, the program ends on the first three.
CaptureFails ==
    /\ phase \in {"capture", "recapture"} /\ Reading < Gpu /\ Fault
    /\ phase' = "failed"
    /\ UNCHANGED <<setup, captures, place, worker, batches, outcome, runtime>>

-----------------------------------------------------------------------------
(* The batches. *)

BatchStart == IF setup.experiment.cache = "cold" THEN "submit" ELSE "warmup"

Load ==
    /\ phase = IF Paired THEN "capture" ELSE "load"
    /\ Paired => Len(before) = Len(Parts)
    /\ phase' = IF Runnable THEN BatchStart ELSE "refused"
    /\ UNCHANGED <<setup, captures, place, worker, batches, outcome, runtime, faults>>

Warmup ==
    /\ phase = "warmup"
    /\ phase' = "submit"
    /\ cached' = cached \cup {Head(WarmupRequest)}
    /\ warmed' = TRUE
    /\ UNCHANGED <<setup, captures, place, worker, batches, outcome, identity, faults>>

\* prewarm does not catch what stream_chat raises.
WarmupFails ==
    /\ phase = "warmup" /\ Fault
    /\ phase' = "failed"
    /\ UNCHANGED <<setup, captures, place, worker, batches, outcome, runtime>>

Submitted == {w \in Workers : worker[w].at # "none"}

\* pool.submit starts a thread.
Submit ==
    /\ phase = "submit"
    /\ LET w == Cardinality(Submitted) + 1 IN
       /\ worker' = [worker EXCEPT ![w].at = "started"]
       /\ phase' = IF w = setup.experiment.concurrency THEN "requests" ELSE "submit"
    /\ UNCHANGED <<setup, captures, place, batches, outcome, runtime, faults>>

\* A thread that cannot be started: the pool is shut down, which waits for the threads
\* that are there, which wait at the barrier.
SubmitFails ==
    /\ phase = "submit" /\ Fault
    /\ phase' = IF Submitted = {} THEN "failed" ELSE "stuck"
    /\ UNCHANGED <<setup, captures, place, worker, batches, outcome, runtime>>

Arrive(w) ==
    /\ worker[w].at = "started"
    /\ worker' = [worker EXCEPT ![w].at = "waiting"]
    /\ UNCHANGED <<setup, phase, captures, place, batches, outcome, runtime, faults>>

\* The prompt is looked up in the prefix cache, and then is in it.
Send(w) ==
    /\ worker[w].at = "waiting" /\ Released
    /\ LET start == Head(PrepareRequest(Order[turn], w)) IN
       /\ worker' = [worker EXCEPT ![w].at = "sent", ![w].on = identity,
                                   ![w].reused = start \in cached, ![w].warmed = warmed]
       /\ cached' = cached \cup {start}
    /\ UNCHANGED <<setup, phase, captures, place, batches, outcome, identity, warmed, faults>>

Return(w, result) ==
    /\ worker' = [worker EXCEPT ![w].at = "done", ![w].result = result]
    /\ UNCHANGED <<setup, phase, captures, place, batches, outcome, runtime>>

Answer(w) == worker[w].at = "sent" /\ Return(w, Success(Usual)) /\ UNCHANGED faults

\* An odd answer, a refused connection, a timeout, an answer that cannot be read.
AnswerOddly(w) ==
    /\ worker[w].at = "sent" /\ Fault
    /\ \E result \in {Success(s) : s \in Streams \ {Usual}} \cup {Failure} : Return(w, result)

\* The runtime went away: an error, or what came so far as if it were all.
AnswerCut(w) ==
    /\ worker[w].at = "cut"
    /\ \E result \in {Success(s) : s \in Cut} \cup {Failure} :
          Return(w, result)
    /\ UNCHANGED faults

Join ==
    /\ phase = "requests"
    /\ \A w \in Workers : worker[w].at = "done"
    /\ batches' = [batches EXCEPT ![Order[turn]] = Append(@, [repetition |-> rep, requests |-> worker])]
    /\ worker' = NoBatch
    /\ warmed' = FALSE
    /\ IF turn < Len(Order) THEN turn' = turn + 1 /\ UNCHANGED rep
       ELSE turn' = 1 /\ rep' = IF rep < Repetitions THEN rep + 1 ELSE rep
    /\ phase' = IF turn < Len(Order) \/ rep < Repetitions THEN BatchStart
                ELSE IF Paired THEN "recapture" ELSE "write"
    /\ UNCHANGED <<setup, captures, outcome, identity, cached, faults>>

Write ==
    /\ phase = IF Paired THEN "recapture" ELSE "write"
    /\ Paired => Len(after) = Len(Parts)
    /\ phase' = "written"
    /\ report' = Report
    /\ UNCHANGED <<setup, captures, place, worker, batches, decision, runtime, faults>>

Decide ==
    /\ phase = "written" /\ Paired /\ decision = None
    /\ decision' = Decision
    /\ UNCHANGED <<setup, phase, captures, place, worker, batches, report, runtime, faults>>

-----------------------------------------------------------------------------
(* The runtime. *)

\* Another image, command, environment or driver, or the same again: nothing it had
\* computed is left, the requests it was answering are cut.
Restart(exchanged) ==
    /\ phase \notin {"written", "failed", "refused", "stuck"} /\ Fault
    /\ identity' = [k \in 1..Len(Parts) |-> IF k \in exchanged THEN identity[k] + 1 ELSE identity[k]]
    /\ cached' = {} /\ warmed' = FALSE
    /\ worker' = [w \in DOMAIN worker |->
                    IF worker[w].at = "sent" THEN [worker[w] EXCEPT !.at = "cut"] ELSE worker[w]]
    /\ UNCHANGED <<setup, phase, captures, place, batches, outcome>>

Threads == DOMAIN worker

Progress ==
    \/ CapturePart \/ Load \/ Warmup \/ Submit \/ Join \/ Write
    \/ \E w \in Threads : Arrive(w) \/ Send(w) \/ Answer(w) \/ AnswerCut(w)

Incident ==
    \/ GpuUnreadable \/ CaptureFails \/ WarmupFails \/ SubmitFails
    \/ \E w \in Threads : AnswerOddly(w)
    \/ \E exchanged \in Restarts : Restart(exchanged)

Next == Progress \/ Incident \/ Decide

\* The threads are scheduled, and stream_chat gives up on a silent runtime after 300 s.
Spec == Init /\ [][Next]_vars /\ WF_vars(Progress)

-----------------------------------------------------------------------------
(* Properties. *)

Results == UNION {{r.requests[w] : w \in DOMAIN r.requests} :
                    r \in UNION {{report.batches[m][k] : k \in DOMAIN report.batches[m]} : m \in Mode}}

\* What evidence calls stable was measured on the profile it records (README of
\* srh/recommendation: "A changed fingerprint blocks recommendation"): every request was
\* sent to the image, command line, environment and driver of the first capture, but for
\* a driver that could not be read, whatever restarted between the reads.  (Versions only
\* grow: a part exchanged and exchanged back within one run is beyond the captures.)
StableMeansUnchanged ==
    report # None /\ report.stable =>
        \A r \in Results : \A k \in 1..Len(Parts) :
            report.profile[k] # Unreadable => r.on[k] = report.profile[k]

\* The cache states are what executor.py:768-782 says of them, whichever modes,
\* repetitions and runs share the cache: a cold or warm prompt finds nothing, a
\* shared-prefix one finds the context unless the runtime was restarted since.
CacheStateHonoured ==
    \A w \in Threads : worker[w].at \in {"sent", "done"} =>
        IF setup.experiment.cache = "shared-prefix" THEN worker[w].warmed => worker[w].reused
                                                    ELSE ~worker[w].reused

\* The evidence as evidence.py reads it.
Whole(result) == result.success =>
    result.measured.ttfa # None /\ result.measured.rate # None /\ result.measured.tokens # None
AsRequest(no, result) ==
    [no |-> no, success |-> result.success,
     ttfa |-> IF result.success THEN result.measured.ttfa ELSE 0,
     e2e |-> IF result.success THEN result.measured.e2e ELSE 0,
     rate |-> IF result.success THEN result.measured.rate ELSE 0,
     checks |-> IF result.success THEN result.measured.checks ELSE {},
     stop |-> result.success /\ result.measured.stop]
AsEvidence ==
    [sound |-> report.stable, profile |-> 0, condition |-> 0, system |-> 0,
     repetitions |-> report.repetitions, concurrency |-> report.concurrency,
     batches |-> [m \in Mode |-> [k \in DOMAIN report.batches[m] |->
        [repetition |-> report.batches[m][k].repetition,
         requests |-> [w \in DOMAIN report.batches[m][k].requests |->
            AsRequest(w, report.batches[m][k].requests[w].result)]]]]]

\* What paired_modes.py writes, evidence.py can replay, failures and restarts included,
\* unless a success lacks a metric; and evidence that the recommender finds eligible,
\* the decision engine finds to meet the objectives, from the summaries stored in it.
EvidenceReplays ==
    report # None /\ report.paired /\ (\A r \in Results : Whole(r.result)) =>
        /\ \A mode \in Mode : R!Replayable(AsEvidence, mode)
        /\ R!Blocking(AsEvidence) = {} /\ decision \notin {None, Unreadable} => decision.meets

\* Every run comes to an end, or to threads that wait for one that was never started.
RunEnds == <>(phase \in {"written", "failed", "refused", "stuck"})
=============================================================================
