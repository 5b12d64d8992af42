-------------------------- MODULE ExperimentProofs --------------------------
(***************************************************************************)
(* Proofs about Experiment, for any plan, number of repetitions and of     *)
(* requests at a time, streams, restarts and incidents.                    *)
(***************************************************************************)
EXTENDS Experiment, FiniteSetTheorems, SequenceTheorems, WellFoundedInduction, TLAPS

LEMMA PartsAre == Len(Parts) = 4
  BY DEF Parts

(* What stream_chat measures has its type. *)

\* A set of naturals has a least element, and a greatest if it has a bound.
LEMMA Extremes ==
  ASSUME NEW S \in SUBSET Nat, S # {}
  PROVE  /\ Min(S) \in S
         /\ \A n \in Nat : (\A x \in S : x <= n) => Max(S) \in S
<1>1. ASSUME NEW T \in SUBSET Nat, T # {} PROVE \E x \in T : \A y \in T : x <= y
  <2> DEFINE Below == OpToRel(<, Nat)
  <2>1. PICK x \in T : \A y \in T : ~ (<<y, x>> \in Below)
    <3> HIDE DEF Below
    <3> QED BY <1>1, WFMin, NatLessThanWellFounded DEF Below
  <2>2. \A y \in T : ~(y < x)
    BY <1>1, <2>1 DEF OpToRel
  <2>3. QED
    BY <1>1, <2>2
<1>2. Min(S) \in S
  BY <1>1 DEF Min
<1>3. ASSUME NEW n \in Nat, \A x \in S : x <= n PROVE Max(S) \in S
  <2> DEFINE T == {n - x : x \in S}
  <2>1. T \in SUBSET Nat /\ T # {}
    <3>1. \A x \in S : n - x \in Nat
      BY <1>3
    <3>2. PICK x \in S : TRUE
      OBVIOUS
    <3>3. n - x \in T
      OBVIOUS
    <3>4. QED
      BY <3>1, <3>3
  <2>2. PICK y \in T : \A z \in T : y <= z
    BY <1>1, <2>1
  <2>3. PICK x \in S : y = n - x
    BY <2>2
  <2>4. ASSUME NEW z \in S PROVE x >= z
    <3>1. n - z \in T
      OBVIOUS
    <3>2. n - x <= n - z
      BY <2>2, <2>3, <3>1
    <3>3. QED
      BY <3>2
  <2>5. QED
    BY <2>4 DEF Max
<1>4. QED
  BY <1>2, <1>3

LEMMA LinesRead ==
  ASSUME NEW stream \in Seq(Line), NEW kinds
  PROVE  /\ End(stream) \in Nat
         /\ Read(stream, kinds) \in SUBSET (DOMAIN stream)
         /\ Read(stream, kinds) # {} => /\ Min(Read(stream, kinds)) \in DOMAIN stream
                                        /\ Max(Read(stream, kinds)) \in DOMAIN stream
<1>1. DOMAIN stream = 1..Len(stream) /\ Len(stream) \in Nat
  OBVIOUS
<1>2. End(stream) \in Nat
  <2>1. At(stream, {"done"}) \in SUBSET Nat
    BY <1>1 DEF At
  <2>2. QED
    BY <1>1, <2>1, Extremes DEF End
<1>3. Read(stream, kinds) \in SUBSET (DOMAIN stream)
  BY DEF Read, At
<1>4. ASSUME Read(stream, kinds) # {}
      PROVE  /\ Min(Read(stream, kinds)) \in DOMAIN stream
             /\ Max(Read(stream, kinds)) \in DOMAIN stream
  <2>1. Read(stream, kinds) \in SUBSET Nat /\ \A x \in Read(stream, kinds) : x <= Len(stream)
    BY <1>1, <1>3
  <2>2. QED
    BY <1>1, <1>3, <1>4, <2>1, Extremes
<1>5. QED
  BY <1>2, <1>3, <1>4

LEMMA LinesHave ==
  ASSUME NEW stream \in Seq(Line), NEW i \in DOMAIN stream
  PROVE  /\ stream[i].holds \in SUBSET Check /\ stream[i].stop \in BOOLEAN
         /\ stream[i].tokens \in Nat /\ stream[i].thought \in Nat \cup {None}
<1>1. stream[i] \in Line
  OBVIOUS
<1>2. QED
  BY <1>1 DEF Line

LEMMA TokensType ==
  ASSUME NEW stream \in Seq(Line), NEW thinking \in BOOLEAN
  PROVE  /\ CompletionTokens(stream) \in Nat \cup {None}
         /\ AnswerTokens(stream, thinking) \in Nat \cup {None}
<1>1. Usage(stream) = None \/ Usage(stream) \in DOMAIN stream
  BY LinesRead DEF Usage
<1>2. /\ CompletionTokens(stream) \in Nat \cup {None}
      /\ ReasoningTokens(stream) \in Nat \cup {None}
  BY <1>1, LinesHave DEF CompletionTokens, ReasoningTokens
<1>3. QED
  BY <1>2, StreamChatAssumption DEF AnswerTokens

LEMMA RateType ==
  ASSUME NEW tokens \in Nat \cup {None}, NEW start \in Nat \cup {None}, NEW end \in Nat
  PROVE  PerSecond(tokens, Since(start, end)) \in Nat \cup {None}
<1>1. CASE tokens = None \/ Since(start, end) = None
  BY <1>1 DEF PerSecond
<1>2. CASE tokens # None /\ Since(start, end) # None
  <2>1. start # None /\ Since(start, end) = end - start /\ tokens \in Nat
    BY <1>2 DEF Since
  <2>2. ASSUME NEW s \in Int, s > 0, tokens > 1 PROVE (100 * (tokens - 1)) \div s \in Nat
    BY <2>1, <2>2
  <2>3. QED
    BY <1>2, <2>1, <2>2 DEF PerSecond
<1>3. QED
  BY <1>1, <1>2

LEMMA MeasuredType ==
  ASSUME NEW stream \in Seq(Line), NEW thinking \in BOOLEAN
  PROVE  Measured(stream, thinking) \in Measurement
<1>1. End(stream) \in Nat
  BY LinesRead
<1>2. FirstGenerated(stream) \in Nat \cup {None} /\ FirstAnswer(stream) \in Nat \cup {None}
  BY LinesRead DEF FirstGenerated, FirstAnswer, First
<1>3. CompletionTokens(stream) \in Nat \cup {None}
  BY TokensType
<1>4. Rate(stream, thinking) \in Nat \cup {None}
  BY <1>1, <1>2, TokensType, RateType DEF Rate
<1>5. UNION {stream[i].holds : i \in Read(stream, {"content"})} \in SUBSET Check
  <2>1. \A i \in Read(stream, {"content"}) : stream[i].holds \in SUBSET Check
    BY LinesRead, LinesHave
  <2>2. QED
    BY <2>1
<1>6. (Finish(stream) # None /\ stream[Finish(stream)].stop) \in BOOLEAN
  OBVIOUS
<1>7. QED
  BY <1>1, <1>2, <1>3, <1>4, <1>5, <1>6 DEF Measured, Measurement

-----------------------------------------------------------------------------
(* Type correctness. *)

Busy == {"submit", "requests", "stuck"}

\* No request is made for a plan that is refused, and none is left between batches.
RunnableInv ==
    /\ phase \in Busy \cup {"warmup", "recapture", "write", "written"} => Runnable
    /\ phase \notin Busy => \A w \in Threads : worker[w].at = "none"

TypeInv == TypeOK /\ RunnableInv

USE DEF captures, place, outcome, runtime, Fault, Paired, Busy

LEMMA SetupIs ==
  ASSUME setup \in Setups
  PROVE  /\ setup.experiment \in Point \cup {None}
         /\ setup.program \in {"paired", "single"}
         /\ setup.mode \in Mode
         /\ MaxFaults[setup] \in Nat
  BY ExperimentAssumption DEF Setup

LEMMA RunnableIs ==
  ASSUME setup \in Setups, Runnable
  PROVE  /\ setup.experiment # None
         /\ setup.experiment.concurrency \in Nat \ {0}
         /\ setup.experiment.cache \in CacheState
         /\ Thinking \in BOOLEAN
<1>1. setup.experiment # None /\ Thinking # None
  BY DEF Runnable
<1>2. setup.experiment \in Point
  BY <1>1, SetupIs
<1>3. Thinking \in BOOLEAN
  BY <1>1, Zenon DEF Thinking
<1>4. QED
  BY <1>1, <1>2, <1>3 DEF Point

LEMMA OrderIs ==
  ASSUME setup \in Setups
  PROVE  /\ Len(Order) \in 1..2 /\ (~Paired => Len(Order) = 1) /\ (Paired => Len(Order) = 2)
         /\ \A t \in 1..Len(Order) : Order[t] \in Mode
         /\ Len(Order) = 2 => Order[1] # Order[2]
  BY SetupIs DEF Order, Mode

LEMMA ThreadsAre ==
  ASSUME TypeOK
  PROVE  /\ worker \in [Threads -> WorkerState]
         /\ Threads = IF setup.experiment = None THEN {} ELSE Workers
         /\ Runnable => Threads = Workers
<1>1. worker \in [IF setup.experiment = None THEN {} ELSE Workers -> WorkerState]
  BY DEF TypeOK
<1>2. Threads = IF setup.experiment = None THEN {} ELSE Workers
  BY <1>1 DEF Threads
<1>3. QED
  BY <1>1, <1>2 DEF Runnable

LEMMA IdleType == Idle \in WorkerState
  BY DEF Idle, WorkerState

LEMMA NoBatchType ==
  NoBatch \in [IF setup.experiment = None THEN {} ELSE Workers -> WorkerState]
  BY IdleType DEF NoBatch

LEMMA SuccessType ==
  ASSUME Thinking \in BOOLEAN, NEW stream \in Streams \cup Cut
  PROVE  Success(stream) \in Result
<1>1. Usual \in Seq(Line) /\ Streams \subseteq Seq(Line)
  BY ExperimentAssumption
<1>2. Len(Usual) \in Nat
  BY <1>1
<1>3. \A n \in 0..(Len(Usual) - 1) : SubSeq(Usual, 1, n) \in Seq(Line)
  BY <1>1, <1>2
<1>4. stream \in Seq(Line)
  BY <1>1, <1>3 DEF Cut
<1>5. Observed[stream][Thinking] = Measured(stream, Thinking)
  BY DEF Observed
<1>6. Measured(stream, Thinking) \in Measurement
  BY <1>4, MeasuredType
<1>7. QED
  BY <1>5, <1>6 DEF Success, Result

LEMMA FailureType == Failure \in Result
  BY DEF Failure, Result

LEMMA TypeInit == Init => TypeInv
<1> SUFFICES ASSUME Init PROVE TypeInv
  OBVIOUS
<1>1. setup \in Setups
  BY DEF Init
<1>2. worker \in [IF setup.experiment = None THEN {} ELSE Workers -> WorkerState]
  BY NoBatchType DEF Init
<1>3. \A w \in Threads : worker[w].at = "none"
  BY DEF Init, NoBatch, Idle, Threads
<1>4. before \in Capture /\ after \in Capture
  BY PartsAre DEF Init, Capture
<1>5. rep \in 1..Repetitions /\ turn \in 1..Len(Order)
  BY <1>1, OrderIs, ExperimentAssumption DEF Init
<1>6. batches \in [Mode -> Seq(Batch)]
  BY DEF Init
<1>7. identity \in Identity
  BY DEF Init, Identity
<1>8. faults \in 0..MaxFaults[setup]
  BY <1>1, SetupIs DEF Init
<1>9. QED
  BY <1>1, <1>2, <1>3, <1>4, <1>5, <1>6, <1>7, <1>8 DEF Init, TypeInv, TypeOK, RunnableInv, Phase

\* The updates of one request keep its type.
LEMMA WorkerUpdates ==
  ASSUME TypeOK, NEW w \in Threads
  PROVE  /\ \A at \in {"none", "started", "waiting", "sent", "cut", "done"} :
               [worker EXCEPT ![w].at = at] \in [Threads -> WorkerState]
         /\ \A reused \in BOOLEAN :
               [worker EXCEPT ![w].at = "sent", ![w].on = identity, ![w].reused = reused,
                              ![w].warmed = warmed] \in [Threads -> WorkerState]
         /\ \A result \in Result :
               [worker EXCEPT ![w].at = "done", ![w].result = result] \in [Threads -> WorkerState]
<1>1. worker \in [Threads -> WorkerState]
  BY ThreadsAre
<1>2. identity \in Identity /\ warmed \in BOOLEAN
  BY DEF TypeOK
<1>3. ASSUME NEW at \in {"none", "started", "waiting", "sent", "cut", "done"}
      PROVE  [worker EXCEPT ![w].at = at] \in [Threads -> WorkerState]
  BY <1>1, <1>3 DEF WorkerState
<1>4. ASSUME NEW reused \in BOOLEAN
      PROVE  [worker EXCEPT ![w].at = "sent", ![w].on = identity, ![w].reused = reused,
                            ![w].warmed = warmed] \in [Threads -> WorkerState]
  <2> DEFINE r == [worker[w] EXCEPT !.at = "sent", !.on = identity, !.reused = reused,
                                    !.warmed = warmed]
  <2>1. worker[w] \in WorkerState
    BY <1>1
  <2>2. r \in WorkerState
    BY <1>2, <2>1 DEF WorkerState
  <2>3. [worker EXCEPT ![w].at = "sent", ![w].on = identity, ![w].reused = reused,
                       ![w].warmed = warmed] = [worker EXCEPT ![w] = r]
    BY <1>1, <2>1 DEF WorkerState
  <2>4. QED
    BY <1>1, <2>2, <2>3
<1>5. ASSUME NEW result \in Result
      PROVE  [worker EXCEPT ![w].at = "done", ![w].result = result] \in [Threads -> WorkerState]
  BY <1>1, <1>5 DEF WorkerState
<1>6. QED
  BY <1>3, <1>4, <1>5

LEMMA CaptureType ==
  ASSUME NEW c \in Capture, Len(c) < Len(Parts), NEW value \in Nat \cup {Unreadable}
  PROVE  Append(c, value) \in Capture
  BY PartsAre DEF Capture

LEMMA JudgementType ==
  ASSUME NEW missed \in [Mode -> SUBSET D!Objective]
  PROVE  D!Judgement(missed) \in D!JudgementType
<1>1. D!Diagnosis(missed) \in D!Category
  BY DEF D!Diagnosis, D!Category
<1>2. \A category \in D!Category : D!ActionOn(category) \in D!Action
  BY DEF D!ActionOn, D!Category, D!Action
<1>3. missed["assistant"] \in SUBSET D!Objective
  BY DEF Mode
<1>4. QED
  BY <1>1, <1>2, <1>3 DEF D!Judgement, D!JudgementType

\* A step that leaves arguments, place and requests alone.
LEMMA SameOrder ==
  ASSUME setup' = setup, rep' = rep
  PROVE  /\ Order' = Order /\ Workers' = Workers /\ Runnable' = Runnable /\ NoBatch' = NoBatch
         /\ Thinking' = Thinking
  BY DEF Order, Workers, Runnable, NoBatch, Thinking, UsedModes, Idle

LEMMA TypeCaptures ==
  ASSUME TypeInv, CapturePart \/ GpuUnreadable \/ CaptureFails
  PROVE  TypeInv'
<1> USE DEF TypeInv, TypeOK, RunnableInv
<1>1. setup' = setup /\ rep' = rep /\ turn' = turn /\ worker' = worker
  BY DEF CapturePart, GpuUnreadable, CaptureFails
<1>2. before' \in Capture /\ after' \in Capture
  <2>1. CASE CapturePart
    <3>1. CASE CaptureBefore(identity[Reading])
      <4>1. Reading \in 1..Len(Parts)
        BY <3>1 DEF CaptureBefore, Reading, Capture
      <4>2. identity[Reading] \in Nat
        BY <4>1 DEF Identity
      <4>3. QED
        BY <3>1, <4>2, CaptureType DEF CaptureBefore
    <3>2. CASE CaptureAfter(identity[Reading])
      <4>1. Reading \in 1..Len(Parts)
        BY <3>2 DEF CaptureAfter, Reading, Capture
      <4>2. identity[Reading] \in Nat
        BY <4>1 DEF Identity
      <4>3. QED
        BY <3>2, <4>2, CaptureType DEF CaptureAfter
    <3>3. QED
      BY <2>1, <3>1, <3>2 DEF CapturePart
  <2>2. CASE GpuUnreadable
    BY <2>2, CaptureType DEF GpuUnreadable, CaptureBefore, CaptureAfter
  <2>3. CASE CaptureFails
    BY <2>3 DEF CaptureFails
  <2>4. QED
    BY <2>1, <2>2, <2>3
<1>3. phase' \in {phase, "failed"} /\ (phase' = "failed" => phase \notin Busy \/ phase = "failed")
  BY DEF CapturePart, GpuUnreadable, CaptureFails
<1>4. faults' \in 0..MaxFaults[setup]
  BY SetupIs DEF CapturePart, GpuUnreadable, CaptureFails
<1>5. UNCHANGED <<batches, report, decision, identity, cached, warmed>>
  BY DEF CapturePart, GpuUnreadable, CaptureFails
<1>6. RunnableInv'
  BY <1>1, <1>3, SameOrder DEF Threads
<1>7. QED
  BY <1>1, <1>2, <1>3, <1>4, <1>5, <1>6, SameOrder DEF Phase

LEMMA TypeStart ==
  ASSUME TypeInv, Load \/ Warmup \/ WarmupFails
  PROVE  TypeInv'
<1> USE DEF TypeInv, TypeOK, RunnableInv
<1>1. UNCHANGED <<setup, before, after, rep, turn, worker, batches, report, decision, identity>>
  BY DEF Load, Warmup, WarmupFails
<1>2. phase \notin Busy /\ phase' \in Phase
  BY DEF Load, Warmup, WarmupFails, Phase, BatchStart
<1>3. faults' \in 0..MaxFaults[setup] /\ warmed' \in BOOLEAN
  <2>1. UNCHANGED faults \/ Fault
    BY DEF Load, Warmup, WarmupFails
  <2>2. warmed' = warmed \/ warmed' = TRUE
    BY DEF Load, Warmup, WarmupFails
  <2>3. faults' \in 0..MaxFaults[setup]
    BY <2>1, SetupIs
  <2>4. QED
    BY <2>2, <2>3, Zenon
<1>4. phase' \in Busy \cup {"warmup", "recapture", "write", "written"} => Runnable
  BY DEF Load, Warmup, WarmupFails
<1>5. RunnableInv'
  <2>1. Runnable' = Runnable
    BY <1>1, SameOrder
  <2>2. \A w \in Threads' : worker'[w].at = "none"
    BY <1>1, <1>2 DEF Threads
  <2>3. QED
    BY <1>4, <2>1, <2>2
<1>6. QED
  BY <1>1, <1>2, <1>3, <1>5, SameOrder

LEMMA TypeSubmit ==
  ASSUME TypeInv, Submit \/ SubmitFails
  PROVE  TypeInv'
<1> USE DEF TypeInv, TypeOK, RunnableInv
<1>1. UNCHANGED <<setup, before, after, rep, turn, batches, report, decision, identity, warmed>>
  BY DEF Submit, SubmitFails
<1>2. phase = "submit" /\ phase' \in {"submit", "requests", "failed", "stuck"}
  BY DEF Submit, SubmitFails
<1>3. Runnable /\ Threads = Workers /\ worker \in [Threads -> WorkerState]
  BY <1>2, ThreadsAre
<1>4. worker' \in [Threads -> WorkerState] /\ Threads' = Threads
  <2>1. CASE Submit
    <3> DEFINE w == Cardinality(Submitted) + 1
    <3>1. CASE w \in Threads
      BY <2>1, <3>1, WorkerUpdates DEF Submit, Threads
    <3>2. CASE w \notin Threads
      BY <1>3, <2>1, <3>2 DEF Submit, Threads
    <3>3. QED
      BY <3>1, <3>2
  <2>2. CASE SubmitFails
    BY <1>3, <2>2 DEF SubmitFails, Threads
  <2>3. QED
    BY <2>1, <2>2
<1>5. phase' = "failed" => worker' = worker /\ \A w \in Threads : worker[w].at = "none"
  BY <1>3 DEF Submit, SubmitFails, Submitted
<1>6. faults' \in 0..MaxFaults[setup]
  BY SetupIs DEF Submit, SubmitFails
<1>7. RunnableInv'
  BY <1>1, <1>2, <1>3, <1>4, <1>5, SameOrder
<1>8. worker' \in [IF setup'.experiment = None THEN {} ELSE Workers' -> WorkerState]
  BY <1>1, <1>4, ThreadsAre, SameOrder
<1>9. QED
  BY <1>1, <1>2, <1>6, <1>7, <1>8, SameOrder DEF Phase

\* The steps of one request.
LEMMA TypeRequest ==
  ASSUME TypeInv, NEW w \in Threads,
         Arrive(w) \/ Send(w) \/ Answer(w) \/ AnswerOddly(w) \/ AnswerCut(w)
  PROVE  TypeInv'
<1> USE DEF TypeInv, TypeOK, RunnableInv
<1>1. UNCHANGED <<setup, phase, before, after, rep, turn, batches, report, decision, identity, warmed>>
  BY DEF Arrive, Send, Answer, AnswerOddly, AnswerCut, Return
<1>2. worker[w].at # "none"
  BY DEF Arrive, Send, Answer, AnswerOddly, AnswerCut
<1>3. phase \in Busy /\ Runnable /\ Thinking \in BOOLEAN
  BY <1>2, RunnableIs
<1>4. worker' \in [Threads -> WorkerState]
  <2>1. CASE Arrive(w)
    BY <2>1, WorkerUpdates DEF Arrive
  <2>2. CASE Send(w)
    <3> DEFINE reused == Head(PrepareRequest(Order[turn], w)) \in cached
    <3>1. worker' = [worker EXCEPT ![w].at = "sent", ![w].on = identity, ![w].reused = reused,
                                   ![w].warmed = warmed]
      BY <2>2 DEF Send
    <3>2. reused \in BOOLEAN
      OBVIOUS
    <3> HIDE DEF reused
    <3>3. QED
      BY <3>1, <3>2, WorkerUpdates
  <2>3. ASSUME NEW result \in Result, Return(w, result) PROVE worker' \in [Threads -> WorkerState]
    BY <2>3, WorkerUpdates DEF Return
  <2>4. CASE Answer(w)
    BY <1>3, <2>3, <2>4, SuccessType, ExperimentAssumption DEF Answer
  <2>5. CASE AnswerOddly(w)
    BY <1>3, <2>3, <2>5, SuccessType, FailureType DEF AnswerOddly
  <2>6. CASE AnswerCut(w)
    BY <1>3, <2>3, <2>6, SuccessType, FailureType DEF AnswerCut
  <2>7. QED
    BY <2>1, <2>2, <2>4, <2>5, <2>6
<1>5. faults' \in 0..MaxFaults[setup]
  <2>1. faults' \in {faults, faults + 1} /\ (faults' = faults \/ faults < MaxFaults[setup])
    BY DEF Arrive, Send, Answer, AnswerOddly, AnswerCut, Return
  <2>2. QED
    BY <2>1, SetupIs
<1>6. worker' \in [IF setup'.experiment = None THEN {} ELSE Workers' -> WorkerState]
  BY <1>1, <1>4, ThreadsAre, SameOrder
<1>7. RunnableInv'
  BY <1>1, <1>3, SameOrder
<1>8. QED
  BY <1>1, <1>5, <1>6, <1>7, SameOrder

LEMMA Recording ==
  ASSUME NEW S, NEW f \in [Mode -> Seq(S)], NEW m \in Mode, NEW b \in S
  PROVE  [f EXCEPT ![m] = Append(@, b)] \in [Mode -> Seq(S)]
<1>1. Append(f[m], b) \in Seq(S)
  OBVIOUS
<1>2. QED
  BY <1>1

LEMMA TypeJoin ==
  ASSUME TypeInv, Join
  PROVE  TypeInv'
<1> USE DEF TypeInv, TypeOK, RunnableInv
<1>1. UNCHANGED <<setup, before, after, report, decision, identity, faults>> /\ warmed' = FALSE
  BY DEF Join
<1>2. Runnable /\ phase = "requests"
  BY DEF Join
<1>3. setup \in Setups /\ setup.experiment # None /\ Len(Order) \in 1..2
      /\ setup.experiment.concurrency \in Nat \ {0}
  BY <1>2, RunnableIs, OrderIs
<1>4. worker' = NoBatch /\ worker' \in [IF setup'.experiment = None THEN {} ELSE Workers' -> WorkerState]
  BY <1>1, NoBatchType DEF Join, Workers
<1>5. Runnable' = Runnable
  BY <1>1 DEF Runnable, UsedModes, Thinking
<1>6. \A w \in Threads' : worker'[w].at = "none"
  BY <1>1, <1>4 DEF Threads, NoBatch, Idle
<1>7. phase' \in {"warmup", "submit", "recapture", "write"}
  BY DEF Join, BatchStart
<1>8. rep' \in 1..Repetitions /\ turn' \in 1..Len(Order')
  <2>1. Repetitions \in Nat /\ Len(Order') = Len(Order)
    BY <1>1, <1>3, ExperimentAssumption DEF Order
  <2>2. QED
    BY <1>3, <2>1 DEF Join
<1>9. batches' \in [Mode -> Seq(Batch)]
  <2> DEFINE b == [repetition |-> rep, requests |-> worker]
  <2>1. Threads = 1..setup.experiment.concurrency
    BY <1>2, ThreadsAre DEF Workers
  <2>2. worker \in Seq(WorkerState)
    BY <1>3, <2>1, ThreadsAre
  <2>3. rep \in Nat
    BY ExperimentAssumption
  <2>4. b \in Batch
    BY <2>2, <2>3 DEF Batch
  <2>5. batches' = [batches EXCEPT ![Order[turn]] = Append(@, b)]
    BY DEF Join
  <2> HIDE DEF b
  <2>6. Order[turn] \in Mode
    BY <1>3, OrderIs
  <2>7. QED
    BY <2>4, <2>5, <2>6, Recording
<1>10. QED
  BY <1>1, <1>2, <1>4, <1>5, <1>6, <1>7, <1>8, <1>9 DEF Phase

LEMMA TypeWrite ==
  ASSUME TypeInv, Write \/ Decide
  PROVE  TypeInv'
<1> USE DEF TypeInv, TypeOK, RunnableInv
<1>1. UNCHANGED <<setup, before, after, rep, turn, worker, batches, identity, cached, warmed, faults>>
  BY DEF Write, Decide
<1>2. phase \notin Busy /\ phase' = "written"
  BY DEF Write, Decide
<1>3. Runnable
  BY DEF Write, Decide
<1>4. report' \in ReportType \cup {None}
  <2>1. CASE Write
    <3>1. Repetitions \in Nat /\ setup.experiment.concurrency \in Nat
      BY <1>3, RunnableIs, ExperimentAssumption
    <3>2. (setup.program = "paired") \in BOOLEAN /\ (setup.program = "paired" /\ Stable) \in BOOLEAN
      OBVIOUS
    <3>3. [mode \in Mode |-> Recorded(mode)] \in [Mode -> Seq(Batch)]
      BY DEF Recorded
    <3>4. Report \in ReportType
      BY <3>1, <3>2, <3>3, Zenon DEF Report, ReportType
    <3>5. QED
      BY <2>1, <3>4 DEF Write
  <2>2. CASE Decide
    BY <2>2 DEF Decide
  <2>3. QED
    BY <2>1, <2>2
<1>5. decision' \in D!JudgementType \cup {Unreadable, None}
  <2>1. [mode \in Mode |-> Missed(mode)] \in [Mode -> SUBSET D!Objective]
    BY DEF Missed
  <2>2. Decision \in D!JudgementType \cup {Unreadable}
    BY <2>1, JudgementType, Zenon DEF Decision
  <2>3. QED
    BY <2>2 DEF Write, Decide
<1>6. Runnable' = Runnable /\ \A w \in Threads' : worker'[w].at = "none"
  BY <1>1, <1>2, SameOrder DEF Threads
<1>7. QED
  BY <1>1, <1>2, <1>3, <1>4, <1>5, <1>6, SameOrder DEF Phase

LEMMA TypeRestart ==
  ASSUME TypeInv, NEW exchanged, Restart(exchanged)
  PROVE  TypeInv'
<1> USE DEF TypeInv, TypeOK, RunnableInv
<1>1. UNCHANGED <<setup, phase, before, after, rep, turn, batches, report, decision>> /\ warmed' = FALSE
  BY DEF Restart
<1>2. worker \in [Threads -> WorkerState]
  BY ThreadsAre
<1>3. worker' \in [Threads -> WorkerState] /\ \A w \in Threads : worker[w].at = "none" => worker'[w].at = "none"
  <2>1. \A w \in Threads : [worker[w] EXCEPT !.at = "cut"] \in WorkerState
    BY <1>2 DEF WorkerState
  <2>2. worker' = [w \in Threads |->
                    IF worker[w].at = "sent" THEN [worker[w] EXCEPT !.at = "cut"] ELSE worker[w]]
    BY DEF Restart, Threads
  <2>3. QED
    BY <1>2, <2>1, <2>2
<1>4. identity' \in Identity
  BY DEF Restart, Identity
<1>5. faults' \in 0..MaxFaults[setup]
  BY SetupIs DEF Restart
<1>6. worker' \in [IF setup'.experiment = None THEN {} ELSE Workers' -> WorkerState]
  BY <1>1, <1>3, ThreadsAre, SameOrder
<1>7. RunnableInv'
  BY <1>1, <1>3, SameOrder DEF Threads
<1>8. QED
  BY <1>1, <1>4, <1>5, <1>6, <1>7, SameOrder

\* What a step is, request by request.
LEMMA Steps ==
  ASSUME [Next]_vars
  PROVE  \/ CapturePart \/ GpuUnreadable \/ CaptureFails
         \/ Load \/ Warmup \/ WarmupFails
         \/ Submit \/ SubmitFails
         \/ \E w \in Threads : Arrive(w) \/ Send(w) \/ Answer(w) \/ AnswerOddly(w) \/ AnswerCut(w)
         \/ Join
         \/ Write \/ Decide
         \/ \E exchanged \in Restarts : Restart(exchanged)
         \/ UNCHANGED vars
  BY Zenon DEF Next, Progress, Incident

LEMMA TypeStep == TypeInv /\ [Next]_vars => TypeInv'
<1> SUFFICES ASSUME TypeInv, [Next]_vars PROVE TypeInv'
  OBVIOUS
<1>1. CASE UNCHANGED vars
  <2>1. UNCHANGED <<setup, phase, before, after, rep, turn, worker, batches, report, decision, identity,
                    cached, warmed, faults>>
    BY <1>1 DEF vars
  <2>2. QED
    BY <2>1, SameOrder DEF TypeInv, TypeOK, RunnableInv, Threads
<1>2. QED
  BY <1>1, Steps, TypeCaptures, TypeStart, TypeSubmit, TypeRequest, TypeJoin, TypeWrite, TypeRestart

\* Whatever is answered, and whenever the runtime is restarted, the state keeps its type.
THEOREM TypeCorrect == Spec => []TypeOK
<1>1. TypeInv => TypeOK
  BY DEF TypeInv
<1>2. QED
  BY <1>1, TypeInit, TypeStep, PTL DEF Spec

-----------------------------------------------------------------------------
(* Versions only grow: a request that was sent between two reads of a part met a version
   between those read. *)

Gone == {"sent", "cut", "done"}

Between(on, first, last, now) ==
    /\ on \in Identity
    /\ \A k \in DOMAIN first : first[k] # Unreadable => first[k] <= on[k]
    /\ \A k \in 1..Len(Parts) : on[k] <= now[k]
    /\ \A k \in DOMAIN last : last[k] # Unreadable => on[k] <= last[k]

ReadInv == \A k \in DOMAIN before : before[k] # Unreadable => before[k] <= identity[k]

SentInv ==
    \A w \in Threads : worker[w].at \in Gone => Between(worker[w].on, before, after, identity)

RecordedInv ==
    \A m \in Mode : \A n \in DOMAIN batches[m] : \A w \in DOMAIN batches[m][n].requests :
        Between(batches[m][n].requests[w].on, before, after, identity)

\* When the captures are read, and what the file has of them.
PhaseInv ==
    /\ phase = "capture" => \A m \in Mode : batches[m] = <<>>
    /\ phase \notin {"recapture", "written", "failed"} => after = <<>>
    /\ Paired /\ phase \notin {"capture", "failed"} => Len(before) = Len(Parts)
    /\ report # None => /\ phase = "written"
                        /\ report.batches = [m \in Mode |-> batches[m]] /\ report.profile = before
                        /\ report.stable => Paired /\ before = after

OrderInv == ReadInv /\ SentInv /\ RecordedInv /\ PhaseInv

LEMMA OrderInit == Init => OrderInv
<1> SUFFICES ASSUME Init PROVE OrderInv
  OBVIOUS
<1>1. ReadInv
  BY DEF Init, ReadInv
<1>2. SentInv
  BY DEF Init, SentInv, NoBatch, Idle, Threads, Gone
<1>3. RecordedInv
  BY DEF Init, RecordedInv
<1>4. PhaseInv
  BY DEF Init, PhaseInv
<1>5. QED
  BY <1>1, <1>2, <1>3, <1>4 DEF OrderInv

\* A part read before any request, and one read after all of them.
LEMMA OrderCapture ==
  ASSUME TypeInv, OrderInv, CapturePart \/ GpuUnreadable
  PROVE  OrderInv'
<1> USE DEF TypeInv, TypeOK, OrderInv
<1>1. UNCHANGED <<setup, phase, worker, batches, report, identity>>
  BY DEF CapturePart, GpuUnreadable
<1>2. /\ \A w \in Threads : worker[w].at \notin Gone
      /\ phase \notin {"written", "failed"}
  BY DEF RunnableInv, Gone, CapturePart, GpuUnreadable, CaptureBefore, CaptureAfter
<1>3. before \in Seq(Nat \cup {Unreadable}) /\ after \in Seq(Nat \cup {Unreadable})
  BY DEF Capture
<1>4. PICK value : /\ value = Unreadable \/ value = identity[Reading]
                   /\ CaptureBefore(value) \/ CaptureAfter(value)
  BY DEF CapturePart, GpuUnreadable
<1>5. SentInv'
  BY <1>1, <1>2 DEF SentInv, Threads
<1>6. CASE CaptureBefore(value)
  <2>1. phase = "capture" /\ before' = Append(before, value) /\ after' = after /\ Reading = Len(before) + 1
    BY <1>6 DEF CaptureBefore, Reading
  <2>2. ReadInv'
    <3>1. ASSUME NEW k \in DOMAIN before', before'[k] # Unreadable PROVE before'[k] <= identity[k]
      <4>1. CASE k \in DOMAIN before
        BY <1>3, <2>1, <3>1, <4>1 DEF ReadInv
      <4>2. CASE k = Len(before) + 1
        <5>1. before'[k] = identity[k] /\ k \in 1..Len(Parts)
          BY <1>3, <1>4, <1>6, <2>1, <3>1, <4>2, PartsAre DEF CaptureBefore
        <5>2. QED
          BY <5>1 DEF Identity
      <4>3. QED
        BY <1>3, <2>1, <3>1, <4>1, <4>2
    <3>2. QED
      BY <1>1, <3>1 DEF ReadInv
  <2>3. RecordedInv' /\ PhaseInv'
    BY <1>1, <1>2, <2>1 DEF RecordedInv, PhaseInv
  <2>4. QED
    BY <1>5, <2>2, <2>3
<1>7. CASE CaptureAfter(value)
  <2>1. phase = "recapture" /\ after' = Append(after, value) /\ before' = before /\ Reading = Len(after) + 1
        /\ Len(after) < Len(Parts)
    BY <1>7 DEF CaptureAfter, Reading
  <2>2. ReadInv'
    BY <1>1, <2>1 DEF ReadInv
  <2>3. ASSUME NEW on, Between(on, before, after, identity)
        PROVE  Between(on, before, after', identity)
    <3>1. ASSUME NEW k \in DOMAIN after', after'[k] # Unreadable PROVE on[k] <= after'[k]
      <4>1. CASE k \in DOMAIN after
        BY <1>3, <2>1, <2>3, <3>1, <4>1 DEF Between
      <4>2. CASE k = Len(after) + 1
        <5>1. after'[k] = identity[k] /\ k \in 1..Len(Parts)
          BY <1>3, <1>4, <2>1, <3>1, <4>2, PartsAre
        <5>2. QED
          BY <2>3, <5>1 DEF Between
      <4>3. QED
        BY <1>3, <2>1, <3>1, <4>1, <4>2
    <3>2. QED
      BY <2>3, <3>1 DEF Between
  <2>4. RecordedInv'
    BY <1>1, <2>1, <2>3 DEF RecordedInv
  <2>5. PhaseInv'
    BY <1>1, <1>2, <2>1 DEF PhaseInv
  <2>6. QED
    BY <1>5, <2>2, <2>4, <2>5
<1>8. QED
  BY <1>4, <1>6, <1>7

\* A step that reads and sends nothing.
LEMMA OrderFrame ==
  ASSUME TypeInv, OrderInv,
         UNCHANGED <<setup, before, after, batches, report, identity>>,
         \A w \in Threads' : worker'[w].at \in Gone =>
            w \in Threads /\ worker[w].at \in Gone /\ worker'[w].on = worker[w].on,
         PhaseInv'
  PROVE  OrderInv'
<1>1. ReadInv' /\ RecordedInv'
  BY DEF OrderInv, ReadInv, RecordedInv
<1>2. SentInv'
  BY DEF OrderInv, SentInv
<1>3. QED
  BY <1>1, <1>2 DEF OrderInv

LEMMA OrderQuiet ==
  ASSUME TypeInv, OrderInv, CaptureFails \/ Load \/ Warmup \/ WarmupFails \/ Submit \/ SubmitFails \/ Decide
  PROVE  OrderInv'
<1>1. UNCHANGED <<setup, before, after, batches, report, identity>>
  BY DEF CaptureFails, Load, Warmup, WarmupFails, Submit, SubmitFails, Decide
<1>2. PhaseInv
  BY DEF OrderInv
<1>3. PhaseInv'
  <2>1. CASE CaptureFails
    BY <1>1, <1>2, <2>1 DEF PhaseInv, CaptureFails
  <2>2. CASE Load
    BY <1>1, <1>2, <2>2 DEF PhaseInv, Load, BatchStart
  <2>3. CASE Warmup \/ WarmupFails
    BY <1>1, <1>2, <2>3 DEF PhaseInv, Warmup, WarmupFails
  <2>4. CASE Submit \/ SubmitFails
    BY <1>1, <1>2, <2>4 DEF PhaseInv, Submit, SubmitFails
  <2>5. CASE Decide
    BY <1>1, <1>2, <2>5 DEF PhaseInv, Decide
  <2>6. QED
    BY <2>1, <2>2, <2>3, <2>4, <2>5
<1>4. worker \in [Threads -> WorkerState]
  BY ThreadsAre DEF TypeInv
<1>5. CASE Submit
  <2> DEFINE n == Cardinality(Submitted) + 1
  <2>1. worker' = [worker EXCEPT ![n].at = "started"]
    BY <1>5 DEF Submit
  <2> HIDE DEF n
  <2>2. \A w \in Threads' : worker'[w].at \in Gone =>
            w \in Threads /\ worker[w].at \in Gone /\ worker'[w].on = worker[w].on
    BY <1>4, <2>1 DEF Threads, Gone, WorkerState
  <2>3. QED
    BY <1>1, <1>3, <2>2, OrderFrame
<1>6. CASE ~Submit
  <2>1. worker' = worker
    BY <1>6 DEF CaptureFails, Load, Warmup, WarmupFails, SubmitFails, Decide
  <2>2. QED
    BY <1>1, <1>3, <2>1, OrderFrame DEF Threads
<1>7. QED
  BY <1>5, <1>6

LEMMA OrderRequest ==
  ASSUME TypeInv, OrderInv, NEW w \in Threads,
         Arrive(w) \/ Answer(w) \/ AnswerOddly(w) \/ AnswerCut(w)
  PROVE  OrderInv'
<1>1. UNCHANGED <<setup, phase, before, after, batches, report, identity>>
  BY DEF Arrive, Answer, AnswerOddly, AnswerCut, Return
<1>2. PhaseInv'
  BY <1>1 DEF OrderInv, PhaseInv
<1>3. worker \in [Threads -> WorkerState]
  BY ThreadsAre DEF TypeInv
<1>4. \A v \in Threads' : worker'[v].at \in Gone =>
            v \in Threads /\ worker[v].at \in Gone /\ worker'[v].on = worker[v].on
  <2>1. CASE Arrive(w)
    BY <1>3, <2>1 DEF Arrive, Threads, Gone, WorkerState
  <2>2. ASSUME NEW result, Return(w, result), worker[w].at \in Gone
        PROVE  \A v \in Threads' : worker'[v].at \in Gone =>
                    v \in Threads /\ worker[v].at \in Gone /\ worker'[v].on = worker[v].on
    BY <1>3, <2>2 DEF Return, Threads, WorkerState
  <2>3. QED
    BY <2>1, <2>2 DEF Answer, AnswerOddly, AnswerCut, Gone
<1>5. QED
  BY <1>1, <1>2, <1>4, OrderFrame

LEMMA OrderSend ==
  ASSUME TypeInv, OrderInv, NEW w \in Threads, Send(w)
  PROVE  OrderInv'
<1> USE DEF TypeInv, TypeOK, OrderInv
<1>1. UNCHANGED <<setup, phase, before, after, batches, report, identity>>
  BY DEF Send
<1>2. ReadInv' /\ RecordedInv' /\ PhaseInv'
  BY <1>1 DEF ReadInv, RecordedInv, PhaseInv
<1>3. after = <<>>
  BY DEF Send, RunnableInv, PhaseInv
<1>4. Between(identity, before, after, identity)
  <2>1. identity \in Identity
    OBVIOUS
  <2>2. \A k \in 1..Len(Parts) : identity[k] <= identity[k]
    BY <2>1 DEF Identity
  <2>3. \A k \in DOMAIN before : before[k] # Unreadable => before[k] <= identity[k]
    BY DEF ReadInv
  <2>4. \A k \in DOMAIN after : after[k] # Unreadable => identity[k] <= after[k]
    BY <1>3
  <2>5. QED
    BY <2>1, <2>2, <2>3, <2>4 DEF Between
<1>5. worker \in [Threads -> WorkerState]
  BY ThreadsAre
<1>6. \A v \in Threads' : worker'[v].at \in Gone =>
            \/ v \in Threads /\ worker[v].at \in Gone /\ worker'[v].on = worker[v].on
            \/ worker'[v].on = identity
  BY <1>5 DEF Send, Threads, WorkerState
<1>7. SentInv'
  BY <1>1, <1>4, <1>6 DEF SentInv
<1>8. QED
  BY <1>2, <1>7

LEMMA OrderJoin ==
  ASSUME TypeInv, OrderInv, Join
  PROVE  OrderInv'
<1> USE DEF TypeInv, TypeOK, OrderInv
<1>1. UNCHANGED <<setup, before, after, report, identity>>
  BY DEF Join
<1>2. Runnable /\ Threads = Workers /\ setup \in Setups
  BY ThreadsAre DEF Join, RunnableInv
<1>3. ReadInv'
  BY <1>1 DEF ReadInv
<1>4. SentInv'
  BY DEF Join, SentInv, NoBatch, Idle, Threads, Gone
<1>5. phase = "requests" /\ phase' \in {"warmup", "submit", "recapture", "write"}
  BY DEF Join, BatchStart
<1>6. PhaseInv'
  BY <1>1, <1>5 DEF PhaseInv
<1>7. RecordedInv'
  <2> DEFINE b == [repetition |-> rep, requests |-> worker]
  <2>1. PICK mode : mode = Order[turn]
    OBVIOUS
  <2>2. batches' = [batches EXCEPT ![mode] = Append(@, b)] /\ mode \in Mode
    BY <1>2, <2>1, OrderIs DEF Join
  <2>3. \A w \in DOMAIN b.requests : Between(b.requests[w].on, before, after, identity)
    BY <1>2 DEF Join, SentInv, Threads, Gone
  <2> HIDE DEF b
  <2>4. ASSUME NEW m \in Mode, NEW n \in DOMAIN batches'[m]
        PROVE  (n \in DOMAIN batches[m] /\ batches'[m][n] = batches[m][n]) \/ batches'[m][n] = b
    <3>1. batches[m] \in Seq(Batch)
      OBVIOUS
    <3>2. CASE m = mode
      BY <2>2, <2>4, <3>1, <3>2
    <3>3. CASE m # mode
      BY <2>2, <2>4, <3>1, <3>3
    <3>4. QED
      BY <3>2, <3>3
  <2>5. QED
    BY <1>1, <2>3, <2>4 DEF RecordedInv
<1>8. QED
  BY <1>3, <1>4, <1>6, <1>7

LEMMA OrderWrite ==
  ASSUME TypeInv, OrderInv, Write
  PROVE  OrderInv'
<1>1. UNCHANGED <<setup, before, after, worker, batches, identity>> /\ phase' = "written" /\ report' = Report
  BY DEF Write
<1>2. ReadInv' /\ SentInv' /\ RecordedInv'
  BY <1>1 DEF OrderInv, ReadInv, SentInv, RecordedInv, Threads
<1>3. /\ Report.batches = [m \in Mode |-> batches[m]] /\ Report.profile = before
      /\ Report.stable => Paired /\ before = after
  BY DEF Report, Recorded, Stable
<1>4. Paired => Len(before) = Len(Parts)
  BY DEF OrderInv, PhaseInv, Write
<1>5. PhaseInv'
  BY <1>1, <1>3, <1>4 DEF PhaseInv
<1>6. QED
  BY <1>2, <1>5 DEF OrderInv

LEMMA OrderRestart ==
  ASSUME TypeInv, OrderInv, NEW exchanged, Restart(exchanged)
  PROVE  OrderInv'
<1> USE DEF TypeInv, TypeOK, OrderInv
<1>1. UNCHANGED <<setup, phase, before, after, batches, report>>
  BY DEF Restart
<1>2. \A k \in 1..Len(Parts) : identity[k] \in Nat /\ identity'[k] \in Nat /\ identity[k] <= identity'[k]
  BY DEF Restart, Identity
<1>3. before \in Seq(Nat \cup {Unreadable}) /\ Len(before) <= Len(Parts)
  BY DEF Capture
<1>4. ReadInv'
  <2>1. ASSUME NEW k \in DOMAIN before, before[k] # Unreadable PROVE before[k] <= identity'[k]
    <3>1. k \in 1..Len(Parts) /\ before[k] \in Nat
      BY <1>3, <2>1, PartsAre
    <3>2. before[k] <= identity[k]
      BY <2>1 DEF ReadInv
    <3>3. QED
      BY <1>2, <3>1, <3>2
  <2>2. QED
    BY <1>1, <2>1 DEF ReadInv
<1>5. ASSUME NEW on, Between(on, before, after, identity)
      PROVE  Between(on, before, after, identity')
  <2>1. \A k \in 1..Len(Parts) : on[k] <= identity'[k]
    BY <1>2, <1>5 DEF Between, Identity
  <2>2. QED
    BY <1>5, <2>1 DEF Between
<1>6. RecordedInv'
  BY <1>1, <1>5 DEF RecordedInv
<1>7. worker \in [Threads -> WorkerState]
  BY ThreadsAre
<1>8. \A w \in Threads' : worker'[w].at \in Gone =>
            w \in Threads /\ worker[w].at \in Gone /\ worker'[w].on = worker[w].on
  BY <1>7 DEF Restart, Threads, Gone, WorkerState
<1>9. SentInv'
  BY <1>1, <1>5, <1>8 DEF SentInv
<1>10. PhaseInv'
  BY <1>1 DEF PhaseInv
<1>11. QED
  BY <1>4, <1>6, <1>9, <1>10

LEMMA OrderStep == TypeInv /\ OrderInv /\ [Next]_vars => OrderInv'
<1> SUFFICES ASSUME TypeInv, OrderInv, [Next]_vars PROVE OrderInv'
  OBVIOUS
<1>1. CASE UNCHANGED vars
  BY <1>1 DEF vars, OrderInv, ReadInv, SentInv, RecordedInv, PhaseInv, Threads
<1>2. QED
  BY <1>1, Steps, OrderCapture, OrderQuiet, OrderRequest, OrderSend, OrderJoin, OrderWrite, OrderRestart

\* Equal captures leave one version between them.
LEMMA StableFollows == TypeInv /\ OrderInv => StableMeansUnchanged
<1> SUFFICES ASSUME TypeInv, OrderInv, report # None, report.stable,
                    NEW r \in Results, NEW k \in 1..Len(Parts), report.profile[k] # Unreadable
             PROVE  r.on[k] = report.profile[k]
  BY DEF StableMeansUnchanged
<1>1. /\ report.batches = [m \in Mode |-> batches[m]] /\ report.profile = before
      /\ before = after /\ Len(before) = Len(Parts)
  BY DEF OrderInv, PhaseInv
<1>2. PICK m \in Mode : \E n \in DOMAIN batches[m] : \E w \in DOMAIN batches[m][n].requests :
        r = batches[m][n].requests[w]
  BY <1>1 DEF Results
<1>3. Between(r.on, before, after, identity)
  BY <1>2 DEF OrderInv, RecordedInv
<1>4. before \in Seq(Nat \cup {Unreadable}) /\ k \in DOMAIN before
  BY <1>1, PartsAre DEF TypeInv, TypeOK, Capture
<1>5. before[k] <= r.on[k] /\ r.on[k] <= before[k] /\ before[k] \in Nat /\ r.on[k] \in Nat
  BY <1>1, <1>3, <1>4 DEF Between, Identity
<1>6. QED
  BY <1>1, <1>5

\* Evidence called stable was measured on the profile it records, whatever was restarted,
\* and however often, between the reads of the parts, the requests and the reads at the end.
THEOREM StableIsUnchanged == Spec => []StableMeansUnchanged
<1>1. Init => TypeInv /\ OrderInv
  BY TypeInit, OrderInit
<1>2. TypeInv /\ OrderInv /\ [Next]_vars => (TypeInv /\ OrderInv)'
  BY TypeStep, OrderStep
<1>3. TypeInv /\ OrderInv => StableMeansUnchanged
  BY StableFollows
<1>4. QED
  BY <1>1, <1>2, <1>3, PTL DEF Spec

-----------------------------------------------------------------------------
(* No prompt of a cold or a warm request was ever sent before. *)

Shared == setup.experiment.cache = "shared-prefix"

\* What prompts start with: fixed texts, and instances of requests that were sent.
Used(x) ==
    /\ x[2] \in Nat
    /\ \/ x[2] = 0
       \/ x[2] < rep
       \/ x[2] = rep /\ \E t \in 1..(turn - 1) : x[1] = Order[t]
       \/ x[2] = rep /\ x[1] = Order[turn] /\ x[3] \in Threads /\ worker[x[3]].at \in Gone
       \/ phase \in {"recapture", "write", "written", "failed"}

CacheInv ==
    /\ \A x \in cached : Used(x)
    /\ warmed /\ Shared => Context \in cached
    /\ \A w \in Threads : worker[w].at \in Gone =>
          IF Shared THEN worker[w].warmed => worker[w].reused ELSE ~worker[w].reused

LEMMA StartOf ==
  ASSUME NEW S, NEW left \in Seq(S), left # <<>>, NEW right \in Seq(S)
  PROVE  left \o right \in Seq(S) /\ left \o right # <<>> /\ Head(left \o right) = left[1]
<1>1. left \o right \in Seq(S) /\ Len(left \o right) = Len(left) + Len(right)
  BY ConcatProperties
<1>2. Len(left) \in Nat \ {0} /\ Len(right) \in Nat
  OBVIOUS
<1>3. left \o right # <<>>
  BY <1>1, <1>2
<1>4. (left \o right)[1] = left[1]
  BY <1>2, ConcatProperties
<1>5. Head(left \o right) = (left \o right)[1]
  BY <1>1, <1>3
<1>6. QED
  BY <1>1, <1>3, <1>4, <1>5

LEMMA Listed ==
  ASSUME NEW S, NEW a \in S, NEW b \in S
  PROVE  /\ <<a, b>> \in Seq(S) /\ <<a, b>> # <<>> /\ <<a, b>>[1] = a /\ Len(<<a, b>>) = 2
         /\ <<b>> \in Seq(S) /\ <<>> \in Seq(S)
  OBVIOUS

LEMMA StartOfBase ==
  ASSUME NEW mode, NEW S, {Context, Fixed("question"), Fixed("oneLine")} \subseteq S
  PROVE  BaseRequest(mode) \in Seq(S) /\ BaseRequest(mode) # <<>> /\ BaseRequest(mode)[1] = Context
<1> DEFINE left == <<Context, Fixed("question")>>
           right == IF mode = "probe" THEN <<Fixed("oneLine")>> ELSE <<>>
<1>1. left \in Seq(S) /\ left # <<>> /\ left[1] = Context /\ Len(left) = 2
  BY Listed
<1>2. right \in Seq(S)
  BY Listed
<1>3. BaseRequest(mode) = left \o right
  BY DEF BaseRequest
<1> HIDE DEF left, right
<1>4. (left \o right)[1] = left[1]
  <2>1. Len(right) \in Nat
    BY <1>2
  <2>2. 1 \in 1..(Len(left) + Len(right)) /\ 1 <= Len(left)
    BY <1>1, <2>1
  <2>3. QED
    BY <1>1, <1>2, <2>2, ConcatProperties
<1>5. QED
  BY <1>1, <1>2, <1>3, <1>4, StartOf

LEMMA StartOfRequest ==
  \A mode, no : Head(PrepareRequest(mode, no)) = IF Shared THEN Context ELSE <<mode, rep, no>>
<1> TAKE mode, no
<1> DEFINE instance == <<mode, rep, no>>
           base == BaseRequest(mode)
<1>1. PICK S : base \in Seq(S) /\ base # <<>> /\ base[1] = Context /\ instance \in S
  <2> DEFINE S == {Context, Fixed("question"), Fixed("oneLine"), instance}
  <2>1. base \in Seq(S) /\ base # <<>> /\ base[1] = Context
    BY StartOfBase
  <2>2. QED
    BY <2>1
<1>2. PrepareRequest(mode, no) = IF Shared THEN base \o <<instance>> ELSE <<instance>> \o base
  BY DEF PrepareRequest, Instanced, Shared
<1> HIDE DEF base, instance
<1>3. Head(base \o <<instance>>) = Context
  BY <1>1, StartOf
<1>4. Head(<<instance>> \o base) = instance
  BY <1>1, StartOf
<1>5. QED
  BY <1>2, <1>3, <1>4 DEF instance

LEMMA CacheInit == Init => CacheInv
<1> SUFFICES ASSUME Init PROVE CacheInv
  OBVIOUS
<1>1. \A x \in cached : x[2] = 0
  BY DEF Init, Context, Fixed
<1>2. \A w \in Threads : worker[w].at = "none"
  BY DEF Init, NoBatch, Idle, Threads
<1>3. warmed = FALSE
  BY DEF Init
<1>4. QED
  BY <1>1, <1>2, <1>3 DEF CacheInv, Used, Gone

\* A step that sends nothing, at the same place.
LEMMA CacheFrame ==
  ASSUME CacheInv,
         UNCHANGED <<setup, rep, turn>>,
         cached' \subseteq cached \/ \A x \in cached' : x \in cached \/ x[2] = 0,
         warmed' /\ Shared => Context \in cached',
         phase' = phase \/ phase' \in {"recapture", "write", "written", "failed"}
                         \/ phase \notin {"recapture", "write", "written", "failed"},
         Threads' = Threads,
         \A w \in Threads : /\ worker[w].at \in Gone <=> worker'[w].at \in Gone
                            /\ worker'[w].at \in Gone => /\ worker'[w].warmed = worker[w].warmed
                                                         /\ worker'[w].reused = worker[w].reused
  PROVE  CacheInv'
<1>1. Shared' = Shared /\ Order' = Order
  BY DEF Shared, Order
<1>2. ASSUME NEW x \in cached' PROVE Used(x)'
  <2>1. CASE x \in cached
    BY <1>1, <2>1 DEF CacheInv, Used
  <2>2. CASE x[2] = 0
    BY <2>2 DEF Used
  <2>3. QED
    BY <1>2, <2>1, <2>2
<1>3. ASSUME NEW w \in Threads', worker'[w].at \in Gone
      PROVE  IF Shared THEN worker'[w].warmed => worker'[w].reused ELSE ~worker'[w].reused
  BY <1>3 DEF CacheInv
<1>4. QED
  BY <1>1, <1>2, <1>3 DEF CacheInv

\* The threads are started in their order, each once.
SubmitInv ==
    phase = "submit" => \E m \in 0..(setup.experiment.concurrency - 1) : Submitted = 1..m

LEMMA SubmitInit == Init => SubmitInv
  BY DEF Init, SubmitInv

LEMMA NextThread ==
  ASSUME TypeInv, SubmitInv, phase = "submit"
  PROVE  /\ Cardinality(Submitted) + 1 \in Threads
         /\ worker[Cardinality(Submitted) + 1].at = "none"
         /\ Submitted = 1..Cardinality(Submitted)
         /\ Cardinality(Submitted) \in 0..(setup.experiment.concurrency - 1)
<1>1. Threads = 1..setup.experiment.concurrency /\ setup.experiment.concurrency \in Nat \ {0}
      /\ Threads = Workers
  BY ThreadsAre, RunnableIs DEF TypeInv, TypeOK, RunnableInv, Workers
<1>2. PICK m \in 0..(setup.experiment.concurrency - 1) : Submitted = 1..m
  BY DEF SubmitInv
<1>3. Cardinality(Submitted) = m
  <2>1. m \in Nat
    BY <1>1
  <2>2. Cardinality(1..m) = m
    BY <2>1, FS_Interval
  <2>3. QED
    BY <1>2, <2>2
<1>4. m + 1 \in Threads /\ m + 1 \notin Submitted
  BY <1>1, <1>2
<1>5. worker[m + 1].at = "none"
  BY <1>1, <1>4 DEF Submitted
<1>6. QED
  BY <1>2, <1>3, <1>4, <1>5

LEMMA SubmitStep == TypeInv /\ SubmitInv /\ [Next]_vars => SubmitInv'
<1> SUFFICES ASSUME TypeInv, SubmitInv, [Next]_vars, phase' = "submit" PROVE SubmitInv'
  BY DEF SubmitInv
<1>0. setup' = setup
  BY Steps, Zenon DEF CapturePart, GpuUnreadable, CaptureFails, Load, Warmup, WarmupFails, Submit, SubmitFails,
        Arrive, Send, Answer, AnswerOddly, AnswerCut, Return, Join, Write, Decide, Restart, vars
<1>1. CASE Load \/ Warmup \/ Join
  <2>1. Runnable /\ setup.experiment # None /\ setup.experiment.concurrency \in Nat \ {0}
    BY <1>1, RunnableIs DEF TypeInv, TypeOK, RunnableInv, Load, Warmup, Join
  <2>2. Threads' = Workers'
    <3>1. CASE Load \/ Warmup
      BY <1>0, <2>1, <3>1, ThreadsAre DEF Load, Warmup, TypeInv, Threads, Workers
    <3>2. CASE Join
      BY <1>0, <2>1, <3>2 DEF Join, NoBatch, Threads, Workers
    <3>3. QED
      BY <1>1, <3>1, <3>2
  <2>3. \A w \in Threads' : worker'[w].at = "none"
    <3>1. CASE Load \/ Warmup
      BY <3>1 DEF Load, Warmup, TypeInv, RunnableInv, Threads
    <3>2. CASE Join
      BY <3>2 DEF Join, NoBatch, Idle, Threads
    <3>3. QED
      BY <1>1, <3>1, <3>2
  <2>4. Submitted' = {}
    BY <2>2, <2>3 DEF Submitted
  <2>5. Submitted' = 1..0 /\ 0 \in 0..(setup'.experiment.concurrency - 1)
    BY <1>0, <2>1, <2>4
  <2>6. QED
    BY <2>5 DEF SubmitInv
<1>2. CASE Submit
  <2> DEFINE n == Cardinality(Submitted)
  <2>1. phase = "submit"
    BY <1>2 DEF Submit
  <2>2. /\ n + 1 \in Threads /\ worker[n + 1].at = "none" /\ Submitted = 1..n
        /\ n \in 0..(setup.experiment.concurrency - 1)
    BY <2>1, NextThread
  <2>3. worker' = [worker EXCEPT ![n + 1].at = "started"] /\ n + 1 # setup.experiment.concurrency
    BY <1>2 DEF Submit
  <2>4. worker \in [Threads -> WorkerState] /\ Threads = Workers /\ setup.experiment.concurrency \in Nat
    BY <2>1, ThreadsAre, RunnableIs DEF TypeInv, TypeOK, RunnableInv
  <2> HIDE DEF n
  <2>5. Workers' = Workers
    BY <1>0 DEF Workers
  <2>6. Submitted' = Submitted \cup {n + 1}
    BY <2>2, <2>3, <2>4, <2>5 DEF Submitted, WorkerState
  <2>7. Submitted' = 1..(n + 1) /\ n + 1 \in 0..(setup'.experiment.concurrency - 1)
    BY <1>0, <2>2, <2>3, <2>4, <2>6
  <2>8. QED
    BY <2>7 DEF SubmitInv
<1>3. CASE ~(Load \/ Warmup \/ Join \/ Submit)
  <2>1. phase = "submit"
    BY <1>3, Steps, Zenon DEF CapturePart, GpuUnreadable, CaptureFails, WarmupFails, SubmitFails,
          Arrive, Send, Answer, AnswerOddly, AnswerCut, Return, Write, Decide, Restart, vars
  <2>2. worker \in [Threads -> WorkerState] /\ Threads = Workers
    BY <2>1, ThreadsAre DEF TypeInv, RunnableInv
  <2>3. Threads' = Threads /\ \A w \in Threads : worker'[w].at = "none" <=> worker[w].at = "none"
    <3>1. ASSUME NEW w \in Threads, Arrive(w) \/ Send(w)
          PROVE  Threads' = Threads /\ \A v \in Threads : worker'[v].at = "none" <=> worker[v].at = "none"
      BY <2>2, <3>1 DEF Arrive, Send, Threads, WorkerState
    <3>2. ASSUME NEW w \in Threads, Answer(w) \/ AnswerOddly(w) \/ AnswerCut(w)
          PROVE  Threads' = Threads /\ \A v \in Threads : worker'[v].at = "none" <=> worker[v].at = "none"
      <4>1. PICK result : Return(w, result) /\ worker[w].at \in {"sent", "cut"}
        BY <3>2 DEF Answer, AnswerOddly, AnswerCut
      <4>2. QED
        BY <2>2, <4>1 DEF Return, Threads, WorkerState
    <3>3. ASSUME NEW exchanged, Restart(exchanged)
          PROVE  Threads' = Threads /\ \A v \in Threads : worker'[v].at = "none" <=> worker[v].at = "none"
      BY <2>2, <3>3 DEF Restart, Threads, WorkerState
    <3>4. CASE worker' = worker
      BY <3>4 DEF Threads
    <3>5. QED
      BY <1>3, <3>1, <3>2, <3>3, <3>4, Steps, Zenon
      DEF CapturePart, GpuUnreadable, CaptureFails, WarmupFails, SubmitFails, Write, Decide, vars
  <2>4. Workers' = Workers
    BY <1>0 DEF Workers
  <2>5. Submitted' = Submitted
    BY <2>2, <2>3, <2>4 DEF Submitted
  <2>6. QED
    BY <1>0, <2>1, <2>5 DEF SubmitInv
<1>4. QED
  BY <1>1, <1>2, <1>3

LEMMA CacheQuiet ==
  ASSUME TypeInv, CacheInv, SubmitInv,
         \/ CapturePart \/ GpuUnreadable \/ CaptureFails \/ Load \/ WarmupFails
         \/ Submit \/ SubmitFails \/ Write \/ Decide
  PROVE  CacheInv'
<1>1. UNCHANGED <<setup, rep, turn, cached, warmed>>
  BY DEF CapturePart, GpuUnreadable, CaptureFails, Load, WarmupFails, Submit, SubmitFails, Write, Decide
<1>2. phase' = phase \/ phase' \in {"recapture", "write", "written", "failed"}
                     \/ phase \notin {"recapture", "write", "written", "failed"}
  BY DEF CapturePart, GpuUnreadable, CaptureFails, Load, WarmupFails, Submit, SubmitFails, Write, Decide
<1>3. warmed' /\ Shared => Context \in cached'
  BY <1>1 DEF CacheInv
<1>4. CASE ~Submit
  <2>1. worker' = worker
    BY <1>4 DEF CapturePart, GpuUnreadable, CaptureFails, Load, WarmupFails, SubmitFails, Write, Decide
  <2>2. QED
    BY <1>1, <1>2, <1>3, <2>1, CacheFrame DEF Threads
<1>5. CASE Submit
  <2> DEFINE n == Cardinality(Submitted) + 1
  <2>1. worker' = [worker EXCEPT ![n].at = "started"] /\ worker \in [Threads -> WorkerState]
    BY <1>5, ThreadsAre DEF Submit, TypeInv
  <2>2. n \in Threads /\ worker[n].at = "none"
    BY <1>5, NextThread DEF Submit
  <2> HIDE DEF n
  <2>3. QED
    BY <1>1, <1>2, <1>3, <2>1, <2>2, CacheFrame DEF Threads, Gone, WorkerState
<1>6. QED
  BY <1>4, <1>5

LEMMA CacheWarmup ==
  ASSUME TypeInv, CacheInv, Warmup
  PROVE  CacheInv'
<1>1. UNCHANGED <<setup, rep, turn, worker>> /\ cached' = cached \cup {Head(WarmupRequest)} /\ phase = "warmup"
  BY DEF Warmup
<1>2. Head(WarmupRequest)[2] = 0
  BY DEF WarmupRequest, Context, Fixed
<1>3. Shared => Head(WarmupRequest) = Context
  BY DEF Shared, WarmupRequest
<1>4. QED
  BY <1>1, <1>2, <1>3, CacheFrame DEF Threads

LEMMA CacheRequest ==
  ASSUME TypeInv, CacheInv, NEW w \in Threads,
         Arrive(w) \/ Answer(w) \/ AnswerOddly(w) \/ AnswerCut(w)
  PROVE  CacheInv'
<1>1. UNCHANGED <<setup, rep, turn, phase, cached, warmed>>
  BY DEF Arrive, Answer, AnswerOddly, AnswerCut, Return
<1>2. warmed' /\ Shared => Context \in cached'
  BY <1>1 DEF CacheInv
<1>3. worker \in [Threads -> WorkerState]
  BY ThreadsAre DEF TypeInv
<1>4. CASE Arrive(w)
  BY <1>1, <1>2, <1>3, <1>4, CacheFrame DEF Arrive, Threads, Gone, WorkerState
<1>5. ASSUME NEW result, Return(w, result), worker[w].at \in Gone PROVE CacheInv'
  BY <1>1, <1>2, <1>3, <1>5, CacheFrame DEF Return, Threads, Gone, WorkerState
<1>6. QED
  BY <1>4, <1>5 DEF Answer, AnswerOddly, AnswerCut, Gone

\* What a cold or a warm prompt starts with is new.
LEMMA CacheSend ==
  ASSUME TypeInv, CacheInv, NEW w \in Threads, Send(w)
  PROVE  CacheInv'
<1> DEFINE start == Head(PrepareRequest(Order[turn], w))
<1>1. UNCHANGED <<setup, rep, turn, phase, warmed>> /\ cached' = cached \cup {start}
  BY DEF Send
<1>2. worker \in [Threads -> WorkerState] /\ phase \in Busy /\ setup \in Setups
      /\ rep \in 1..Repetitions /\ turn \in 1..Len(Order)
  BY ThreadsAre DEF TypeInv, TypeOK, RunnableInv, Send
<1>3. start = IF Shared THEN Context ELSE <<Order[turn], rep, w>>
  BY StartOfRequest
<1>4. worker' = [worker EXCEPT ![w].at = "sent", ![w].on = identity,
                               ![w].reused = start \in cached, ![w].warmed = warmed]
      /\ worker[w].at = "waiting"
  BY DEF Send
<1>5. Shared => start = Context
  BY <1>3
<1>6. ~Shared => start \notin cached
  <2>1. SUFFICES ASSUME ~Shared, start \in cached PROVE FALSE
    OBVIOUS
  <2>2. start[1] = Order[turn] /\ start[2] = rep /\ start[3] = w
    BY <1>3, <2>1
  <2>3. Used(start)
    BY <2>1 DEF CacheInv
  <2> HIDE DEF start
  <2>4. rep \in Nat \ {0} /\ ~(rep < rep)
    BY <1>2, ExperimentAssumption
  <2>5. worker[start[3]].at \notin Gone
    BY <1>4, <2>2 DEF Gone
  <2>6. ASSUME NEW t \in 1..(turn - 1) PROVE Order[t] # Order[turn]
    BY <1>2, <2>6, OrderIs
  <2>7. QED
    BY <1>2, <2>2, <2>3, <2>4, <2>5, <2>6 DEF Used
<1> HIDE DEF start
<1>7. worker' \in [Threads -> WorkerState] /\ Threads' = Threads
  <2>1. (start \in cached) \in BOOLEAN
    OBVIOUS
  <2>2. PICK reused \in BOOLEAN : worker' = [worker EXCEPT ![w].at = "sent", ![w].on = identity,
                                             ![w].reused = reused, ![w].warmed = warmed]
    BY <1>4, <2>1
  <2>3. worker' \in [Threads -> WorkerState]
    BY <2>2, WorkerUpdates DEF TypeInv
  <2>4. QED
    BY <2>3 DEF Threads
<1>8. \A v \in Threads : v # w => worker'[v] = worker[v]
  BY <1>2, <1>4
<1>9. worker'[w].at = "sent" /\ worker'[w].warmed = warmed /\ (worker'[w].reused <=> start \in cached)
  BY <1>2, <1>4 DEF WorkerState
<1>10. \A x \in cached' : Used(x)'
  <2>0. Order' = Order
    BY <1>1 DEF Order
  <2>1. ASSUME NEW x \in cached PROVE Used(x)'
    <3>1. Used(x)
      BY DEF CacheInv
    <3>2. x[3] \in Threads /\ worker[x[3]].at \in Gone => worker'[x[3]].at \in Gone
      BY <1>8, <1>9 DEF Gone
    <3>3. QED
      BY <1>1, <1>7, <2>0, <3>1, <3>2 DEF Used
  <2>2. ASSUME NEW x, x = start PROVE Used(x)'
    <3>1. CASE Shared
      BY <1>5, <2>2, <3>1 DEF Used, Context, Fixed
    <3>2. CASE ~Shared
      <4>1. x[1] = Order[turn] /\ x[2] = rep /\ x[3] = w
        BY <1>3, <2>2, <3>2
      <4>2. rep \in Nat
        BY <1>2, ExperimentAssumption
      <4>3. QED
        BY <1>1, <1>7, <1>9, <2>0, <4>1, <4>2 DEF Used, Gone
    <3>3. QED
      BY <3>1, <3>2
  <2>3. QED
    BY <1>1, <2>1, <2>2
<1>11. warmed' /\ Shared' => Context \in cached'
  BY <1>1 DEF CacheInv, Shared
<1>12. \A v \in Threads' : worker'[v].at \in Gone =>
          IF Shared' THEN worker'[v].warmed => worker'[v].reused ELSE ~worker'[v].reused
  <2>1. Shared' = Shared
    BY <1>1 DEF Shared
  <2>2. IF Shared THEN worker'[w].warmed => worker'[w].reused ELSE ~worker'[w].reused
    BY <1>5, <1>6, <1>9 DEF CacheInv
  <2>3. ASSUME NEW v \in Threads, v # w, worker'[v].at \in Gone
        PROVE  IF Shared THEN worker'[v].warmed => worker'[v].reused ELSE ~worker'[v].reused
    BY <1>8, <2>3 DEF CacheInv
  <2>4. QED
    BY <1>7, <2>1, <2>2, <2>3
<1>13. QED
  BY <1>10, <1>11, <1>12 DEF CacheInv

LEMMA CacheJoin ==
  ASSUME TypeInv, CacheInv, Join
  PROVE  CacheInv'
<1>1. UNCHANGED <<setup, cached>> /\ warmed' = FALSE /\ worker' = NoBatch
  BY DEF Join
<1>2. \A w \in Threads' : worker'[w].at = "none"
  BY <1>1 DEF NoBatch, Idle, Threads
<1>3. ASSUME NEW x \in cached PROVE Used(x)'
  <2>1. Used(x) /\ x[2] \in Nat /\ phase = "requests"
    BY DEF CacheInv, Used, Join
  <2>2. setup \in Setups /\ rep \in Nat /\ turn \in 1..Len(Order) /\ Len(Order) \in 1..2
    BY OrderIs, ExperimentAssumption DEF TypeInv, TypeOK
  <2>3. CASE turn < Len(Order)
    <3>1. turn' = turn + 1 /\ rep' = rep /\ Order' = Order
      BY <1>1, <2>3 DEF Join, Order
    <3>2. turn \in 1..(turn' - 1) /\ 1..(turn - 1) \subseteq 1..(turn' - 1)
      BY <2>2, <3>1
    <3>3. QED
      BY <2>1, <3>1, <3>2 DEF Used
  <2>4. CASE ~(turn < Len(Order)) /\ rep < Repetitions
    <3>1. rep' = rep + 1
      BY <2>4 DEF Join
    <3>2. x[2] < rep'
      BY <2>1, <2>2, <3>1 DEF Used
    <3>3. QED
      BY <2>1, <3>2 DEF Used
  <2>5. CASE ~(turn < Len(Order)) /\ ~(rep < Repetitions)
    <3>1. phase' \in {"recapture", "write"}
      BY <2>5 DEF Join
    <3>2. QED
      BY <2>1, <3>1 DEF Used
  <2>6. QED
    BY <2>3, <2>4, <2>5
<1>4. QED
  BY <1>1, <1>2, <1>3 DEF CacheInv, Gone

LEMMA CacheRestart ==
  ASSUME TypeInv, CacheInv, NEW exchanged, Restart(exchanged)
  PROVE  CacheInv'
<1>1. UNCHANGED <<setup, rep, turn, phase>> /\ cached' = {} /\ warmed' = FALSE
  BY DEF Restart
<1>2. worker \in [Threads -> WorkerState]
  BY ThreadsAre DEF TypeInv
<1>3. QED
  BY <1>1, <1>2, CacheFrame DEF Restart, Threads, Gone, WorkerState

LEMMA CacheStep == TypeInv /\ SubmitInv /\ CacheInv /\ [Next]_vars => CacheInv'
<1> SUFFICES ASSUME TypeInv, SubmitInv, CacheInv, [Next]_vars PROVE CacheInv'
  OBVIOUS
<1>1. CASE UNCHANGED vars
  <2>1. UNCHANGED <<setup, rep, turn, phase, worker, cached, warmed>>
    BY <1>1 DEF vars
  <2>2. warmed' /\ Shared => Context \in cached'
    BY <2>1 DEF CacheInv
  <2>3. QED
    BY <2>1, <2>2, CacheFrame DEF Threads
<1>2. QED
  BY <1>1, Steps, CacheQuiet, CacheWarmup, CacheRequest, CacheSend, CacheJoin, CacheRestart

\* However many requests, repetitions and restarts there are, a cold or warm prompt finds
\* nothing in the prefix cache, and a shared-prefix one the context since its warm-up.
THEOREM CacheIsHonoured == Spec => []CacheStateHonoured
<1>1. Init => TypeInv /\ SubmitInv /\ CacheInv
  BY TypeInit, SubmitInit, CacheInit
<1>2. TypeInv /\ SubmitInv /\ CacheInv /\ [Next]_vars => (TypeInv /\ SubmitInv /\ CacheInv)'
  BY TypeStep, SubmitStep, CacheStep
<1>3. CacheInv => CacheStateHonoured
  BY DEF CacheInv, CacheStateHonoured, Gone, Shared
<1>4. QED
  BY <1>1, <1>2, <1>3, PTL DEF Spec

-----------------------------------------------------------------------------
(* What is written can be replayed, and the two judges of it agree. *)

Answers == {Failure} \cup {Success(stream) : stream \in Streams \cup Cut}

\* How often a mode has been measured.
Measurements(m) ==
    IF phase \in {"recapture", "write", "written"} THEN Repetitions
    ELSE IF \E t \in 1..(turn - 1) : Order[t] = m THEN rep ELSE rep - 1

\* The batches of a paired experiment: one of each mode for each repetition, in order,
\* and in each an answer for every request.
BatchInv ==
    /\ \A w \in Threads : worker[w].at = "done" => worker[w].result \in Answers
    /\ Paired /\ phase # "failed" => \A m \in Mode :
         /\ Len(batches[m]) = Measurements(m)
         /\ \A k \in DOMAIN batches[m] :
              /\ batches[m][k].repetition = k
              /\ DOMAIN batches[m][k].requests = Workers
              /\ \A w \in Workers : batches[m][k].requests[w].result \in Answers

\* The file and the decision on it are of the batches as they are.
FileInv ==
    /\ report # None => phase = "written" /\ report = Report
    /\ decision # None => decision = Decision /\ phase = "written"

LEMMA AnswersStay ==
  ASSUME setup' = setup
  PROVE  Answers' = Answers
<1>1. Thinking' = Thinking
  BY DEF Thinking
<1>2. \A stream : Success(stream)' = Success(stream)
  BY <1>1 DEF Success, Observed
<1>3. QED
  BY <1>2 DEF Answers, Failure

LEMMA ReplayInit == Init => BatchInv /\ FileInv
<1> SUFFICES ASSUME Init PROVE BatchInv /\ FileInv
  OBVIOUS
<1>1. \A w \in Threads : worker[w].at = "none"
  BY DEF Init, NoBatch, Idle, Threads
<1>2. \A m \in Mode : Len(batches[m]) = 0 /\ DOMAIN batches[m] = {}
  BY DEF Init
<1>3. \A m \in Mode : Measurements(m) = 0
  BY DEF Init, Measurements
<1>4. QED
  BY <1>1, <1>2, <1>3 DEF Init, BatchInv, FileInv

\* A step that records no batch.
LEMMA BatchFrame ==
  ASSUME BatchInv,
         UNCHANGED <<setup, rep, turn, batches>>,
         \/ phase' = phase \/ phase' = "failed"
         \/ {phase, phase'} \cap {"recapture", "write", "written"} = {} /\ phase # "failed"
         \/ {phase, phase'} \subseteq {"recapture", "write", "written"},
         \A w \in Threads' : worker'[w].at = "done" => worker'[w].result \in Answers
  PROVE  BatchInv'
<1>1. Answers' = Answers /\ Order' = Order /\ Workers' = Workers
  BY AnswersStay DEF Order, Workers
<1>2. phase' # "failed" => \A m \in Mode : Measurements(m)' = Measurements(m)
  BY <1>1 DEF Measurements
<1>3. phase' # "failed" => phase # "failed"
  OBVIOUS
<1>4. QED
  BY <1>1, <1>2, <1>3 DEF BatchInv

LEMMA BatchQuiet ==
  ASSUME TypeInv, BatchInv,
         \/ CapturePart \/ GpuUnreadable \/ CaptureFails \/ Load \/ Warmup \/ WarmupFails
         \/ Submit \/ SubmitFails \/ Write \/ Decide \/ \E exchanged \in Restarts : Restart(exchanged)
  PROVE  BatchInv'
<1>1. UNCHANGED <<setup, rep, turn, batches>>
  BY DEF CapturePart, GpuUnreadable, CaptureFails, Load, Warmup, WarmupFails, Submit, SubmitFails,
         Write, Decide, Restart
<1>2. \/ phase' = phase \/ phase' = "failed"
      \/ {phase, phase'} \cap {"recapture", "write", "written"} = {} /\ phase # "failed"
      \/ {phase, phase'} \subseteq {"recapture", "write", "written"}
  <2>1. CASE Load \/ Warmup \/ WarmupFails \/ Submit \/ SubmitFails
    BY <2>1 DEF Load, Warmup, WarmupFails, Submit, SubmitFails, BatchStart
  <2>2. CASE CapturePart \/ GpuUnreadable \/ CaptureFails \/ Write \/ Decide
             \/ \E exchanged \in Restarts : Restart(exchanged)
    BY <2>2 DEF CapturePart, GpuUnreadable, CaptureFails, Write, Decide, Restart
  <2>3. QED
    BY <2>1, <2>2
<1>3. worker \in [Threads -> WorkerState]
  BY ThreadsAre DEF TypeInv
<1>4. \A w \in Threads' : worker'[w].at = "done" =>
          w \in Threads /\ worker[w].at = "done" /\ worker'[w].result = worker[w].result
  <2>1. CASE Submit
    <3> DEFINE n == Cardinality(Submitted) + 1
    <3>1. worker' = [worker EXCEPT ![n].at = "started"]
      BY <2>1 DEF Submit
    <3> HIDE DEF n
    <3>2. QED
      BY <1>3, <3>1 DEF Threads, WorkerState
  <2>2. ASSUME NEW exchanged, Restart(exchanged)
        PROVE  \A w \in Threads' : worker'[w].at = "done" =>
                   w \in Threads /\ worker[w].at = "done" /\ worker'[w].result = worker[w].result
    BY <1>3, <2>2 DEF Restart, Threads, WorkerState
  <2>3. CASE worker' = worker
    BY <2>3 DEF Threads
  <2>4. QED
    BY <2>1, <2>2, <2>3 DEF CapturePart, GpuUnreadable, CaptureFails, Load, Warmup, WarmupFails,
       SubmitFails, Write, Decide
<1>5. \A w \in Threads' : worker'[w].at = "done" => worker'[w].result \in Answers
  BY <1>4 DEF BatchInv
<1>6. QED
  BY <1>1, <1>2, <1>5, BatchFrame

LEMMA BatchRequest ==
  ASSUME TypeInv, BatchInv, NEW w \in Threads,
         Arrive(w) \/ Send(w) \/ Answer(w) \/ AnswerOddly(w) \/ AnswerCut(w)
  PROVE  BatchInv'
<1>1. UNCHANGED <<setup, phase, rep, turn, batches>>
  BY DEF Arrive, Send, Answer, AnswerOddly, AnswerCut, Return
<1>2. worker \in [Threads -> WorkerState]
  BY ThreadsAre DEF TypeInv
<1>3. \A v \in Threads' : worker'[v].at = "done" =>
          \/ v \in Threads /\ worker[v].at = "done" /\ worker'[v].result = worker[v].result
          \/ worker'[v].result \in Answers
  <2>1. CASE Arrive(w)
    BY <1>2, <2>1 DEF Arrive, Threads, WorkerState
  <2>2. CASE Send(w)
    BY <1>2, <2>2 DEF Send, Threads, WorkerState
  <2>3. ASSUME NEW result \in Answers, Return(w, result)
        PROVE  \A v \in Threads' : worker'[v].at = "done" =>
                  \/ v \in Threads /\ worker[v].at = "done" /\ worker'[v].result = worker[v].result
                  \/ worker'[v].result \in Answers
    BY <1>2, <2>3 DEF Return, Threads, WorkerState
  <2>4. CASE Answer(w) \/ AnswerOddly(w) \/ AnswerCut(w)
    <3>1. \E result \in Answers : Return(w, result)
      BY <2>4, ExperimentAssumption DEF Answer, AnswerOddly, AnswerCut, Answers
    <3>2. QED
      BY <2>3, <3>1
  <2>5. QED
    BY <2>1, <2>2, <2>4
<1>4. \A v \in Threads' : worker'[v].at = "done" => worker'[v].result \in Answers
  BY <1>3 DEF BatchInv
<1>5. QED
  BY <1>1, <1>4, BatchFrame

\* The next batch of a mode is that of the repetition.
LEMMA BatchJoin ==
  ASSUME TypeInv, BatchInv, Join
  PROVE  BatchInv'
<1> DEFINE b == [repetition |-> rep, requests |-> worker]
<1>1. UNCHANGED setup /\ worker' = NoBatch /\ phase = "requests"
      /\ phase' \in {"warmup", "submit", "recapture", "write"}
  BY DEF Join, BatchStart
<1>2. \A w \in Threads' : worker'[w].at # "done"
  BY <1>1 DEF NoBatch, Idle, Threads
<1>3. /\ setup \in Setups /\ Runnable /\ Threads = Workers /\ turn \in 1..Len(Order)
      /\ rep \in 1..Repetitions /\ Repetitions \in Nat \ {0}
      /\ batches \in [Mode -> Seq(Batch)] /\ b \in Batch
  <2>1. Threads = Workers /\ Runnable
    BY <1>1, ThreadsAre DEF TypeInv, RunnableInv
  <2>2. setup \in Setups /\ setup.experiment.concurrency \in Nat
    BY <2>1, RunnableIs DEF TypeInv, TypeOK
  <2>3. worker \in Seq(WorkerState)
    BY <2>1, <2>2, ThreadsAre DEF TypeInv, Workers
  <2>4. rep \in 1..Repetitions /\ Repetitions \in Nat \ {0} /\ turn \in 1..Len(Order)
        /\ batches \in [Mode -> Seq(Batch)]
    BY ExperimentAssumption DEF TypeInv, TypeOK
  <2>5. b \in Batch
    BY <2>3, <2>4 DEF Batch
  <2>6. QED
    BY <2>1, <2>2, <2>4, <2>5
<1>4. ASSUME Paired, NEW m \in Mode
      PROVE  /\ Len(batches'[m]) = Measurements(m)'
             /\ \A k \in DOMAIN batches'[m] :
                  /\ batches'[m][k].repetition = k
                  /\ DOMAIN batches'[m][k].requests = Workers
                  /\ \A w \in Workers : batches'[m][k].requests[w].result \in Answers
  <2>1. PICK mode \in Mode : mode = Order[turn]
    BY <1>3, OrderIs
  <2>2. batches' = [batches EXCEPT ![mode] = Append(@, b)]
    BY <2>1 DEF Join
  <2>3. b.repetition = rep /\ DOMAIN b.requests = Workers
        /\ \A w \in Workers : b.requests[w].result \in Answers
    BY <1>3 DEF Join, BatchInv, Threads
  <2> HIDE DEF b
  <2>4. /\ Len(batches[m]) = Measurements(m)
        /\ \A k \in DOMAIN batches[m] :
                  /\ batches[m][k].repetition = k
                  /\ DOMAIN batches[m][k].requests = Workers
                  /\ \A w \in Workers : batches[m][k].requests[w].result \in Answers
    BY <1>1, <1>4 DEF BatchInv
  <2>5. Len(Order) = 2 /\ Order[1] # Order[2] /\ m \in {Order[1], Order[2]} /\ turn \in {1, 2}
    <3>0. Len(Order) = 2 /\ (\A t \in 1..Len(Order) : Order[t] \in Mode) /\ (Len(Order) = 2 => Order[1] # Order[2])
      BY <1>3, <1>4, OrderIs
    <3>1. Len(Order) = 2 /\ Order[1] # Order[2] /\ Order[1] \in Mode /\ Order[2] \in Mode
      BY <3>0
    <3>2. QED
      BY <1>3, <3>1 DEF Mode
  <2>6. Measurements(m) = IF turn = 2 /\ m = Order[1] THEN rep ELSE rep - 1
    BY <1>1, <2>5 DEF Measurements
  <2>7. Measurements(m)' = IF m = mode THEN rep ELSE Measurements(m)
    <3>1. CASE turn = 1
      <4>1. turn' = 2 /\ rep' = rep /\ phase' \in {"warmup", "submit"}
        BY <2>5, <3>1 DEF Join, BatchStart
      <4>2. Order' = Order
        BY <1>1, <4>1 DEF Order
      <4>3. QED
        BY <2>1, <2>5, <2>6, <3>1, <4>1, <4>2 DEF Measurements
    <3>2. CASE turn = 2 /\ rep < Repetitions
      <4>1. turn' = 1 /\ rep' = rep + 1 /\ phase' \in {"warmup", "submit"}
        BY <2>5, <3>2 DEF Join, BatchStart
      <4>2. Measurements(m)' = rep
        BY <1>3, <4>1 DEF Measurements
      <4>3. QED
        BY <2>1, <2>5, <2>6, <3>2, <4>2
    <3>3. CASE turn = 2 /\ ~(rep < Repetitions)
      <4>1. phase' = "recapture" /\ rep = Repetitions
        BY <1>3, <1>4, <2>5, <3>3 DEF Join
      <4>2. QED
        BY <2>1, <2>5, <2>6, <3>3, <4>1 DEF Measurements
    <3>4. QED
      BY <2>5, <3>1, <3>2, <3>3
  <2>8. CASE m # mode
    BY <1>3, <2>2, <2>4, <2>7, <2>8
  <2>9. CASE m = mode
    <3>1. Len(batches[m]) = rep - 1
      BY <2>1, <2>4, <2>5, <2>6, <2>9
    <3>2. batches[m] \in Seq(Batch) /\ batches'[m] = Append(batches[m], b)
      BY <1>3, <2>2, <2>9
    <3>3. Len(batches'[m]) = rep /\ DOMAIN batches'[m] = 1..rep
          /\ \A k \in 1..rep : batches'[m][k] = IF k = rep THEN b ELSE batches[m][k]
      BY <1>3, <3>1, <3>2
    <3>4. QED
      BY <1>3, <2>3, <2>4, <2>7, <2>9, <3>1, <3>3
  <2>10. QED
    BY <2>8, <2>9
<1>5. Answers' = Answers /\ Workers' = Workers
  BY <1>1, AnswersStay DEF Workers
<1>6. QED
  BY <1>1, <1>2, <1>4, <1>5 DEF BatchInv

LEMMA FileStep == TypeInv /\ FileInv /\ [Next]_vars => FileInv'
<1> SUFFICES ASSUME TypeInv, FileInv, [Next]_vars PROVE FileInv'
  OBVIOUS
<1> DEFINE Content == <<setup, before, after, batches>>
<1>1. ASSUME UNCHANGED Content PROVE Report' = Report /\ Decision' = Decision
  <2>1. UNCHANGED <<setup, before, after, batches>>
    BY <1>1
  <2>2. Report' = Report
    BY <2>1 DEF Report, Stable, Recorded
  <2>3. \A m, p : Outcome(m, p)' = Outcome(m, p)
    BY <2>1 DEF Outcome
  <2>4. \A m : Sent(m)' = Sent(m) /\ Answered(m)' = Answered(m)
    BY <2>1, <2>3 DEF Sent, Answered, Workers
  <2>5. \A m, field : Metric(m, field)' = Metric(m, field)
    BY <2>3, <2>4 DEF Metric
  <2>6. \A m : Scores(m)' = Scores(m)
    BY <2>3, <2>4 DEF Scores
  <2>7. \A m : Missed(m)' = Missed(m)
    BY <2>4, <2>5, <2>6, Zenon DEF Missed
  <2>8. Decision' = Decision
    BY <2>5, <2>7, Zenon DEF Decision
  <2>9. QED
    BY <2>2, <2>8
<1>2. CASE phase = "written"
  <2>1. UNCHANGED <<setup, phase, before, after, batches, report>> /\ (decision' = decision \/ decision' = Decision)
    <3>1. CASE Decide
      BY <3>1 DEF Decide
    <3>2. CASE UNCHANGED vars
      BY <3>2 DEF vars
    <3>3. \A w \in Threads : ~(Arrive(w) \/ Send(w) \/ Answer(w) \/ AnswerOddly(w) \/ AnswerCut(w))
      BY <1>2 DEF TypeInv, RunnableInv, Arrive, Send, Answer, AnswerOddly, AnswerCut
    <3>4. QED
      BY <1>2, <3>1, <3>2, <3>3, Steps DEF CapturePart, CaptureBefore, CaptureAfter, GpuUnreadable,
         CaptureFails, Load, Warmup, WarmupFails, Submit, SubmitFails, Join, Write, Restart
  <2>2. QED
    BY <1>1, <1>2, <2>1 DEF FileInv
<1>3. CASE phase # "written"
  <2>1. report = None /\ decision = None
    BY <1>3 DEF FileInv
  <2>2. CASE Write
    <3>1. UNCHANGED Content /\ phase' = "written" /\ report' = Report /\ decision' = decision
      BY <2>2 DEF Write
    <3>2. QED
      BY <1>1, <2>1, <3>1 DEF FileInv
  <2>3. CASE ~Write
    <3>1. UNCHANGED <<report, decision>>
      BY <1>3, <2>3, Steps, Zenon DEF CapturePart, GpuUnreadable, CaptureFails, Load, Warmup, WarmupFails,
         Submit, SubmitFails, Arrive, Send, Answer, AnswerOddly, AnswerCut, Return, Join, Decide, Restart, vars
    <3>2. QED
      BY <2>1, <3>1 DEF FileInv
  <2>4. QED
    BY <2>2, <2>3
<1>4. QED
  BY <1>2, <1>3

LEMMA ReplayStep ==
  TypeInv /\ BatchInv /\ FileInv /\ [Next]_vars => BatchInv' /\ FileInv'
<1> SUFFICES ASSUME TypeInv, BatchInv, FileInv, [Next]_vars PROVE BatchInv'
  BY FileStep
<1>1. CASE UNCHANGED vars
  <2>1. UNCHANGED <<setup, rep, turn, batches, phase, worker>>
    BY <1>1 DEF vars
  <2>2. QED
    BY <2>1, BatchFrame DEF Threads, BatchInv
<1>2. QED
  BY <1>1, Steps, BatchQuiet, BatchRequest, BatchJoin

\* A stream begins to answer before it ends.
LEMMA AnswersAre ==
  ASSUME Runnable, setup \in Setups, NEW result \in Answers
  PROVE  /\ result \in Result
         /\ result.success => /\ result.measured \in Measurement
                              /\ result.measured.ttfa # None => result.measured.ttfa <= result.measured.e2e
<1>1. Thinking \in BOOLEAN
  BY RunnableIs
<1>2. CASE result = Failure
  BY <1>2, FailureType DEF Failure
<1>3. ASSUME NEW stream \in Streams \cup Cut, result = Success(stream)
      PROVE  /\ result \in Result
             /\ result.measured \in Measurement
             /\ result.measured.ttfa # None => result.measured.ttfa <= result.measured.e2e
  <2>1. Success(stream) \in Result
    BY <1>1, SuccessType
  <2>2. Usual \in Seq(Line) /\ Streams \subseteq Seq(Line) /\ Len(Usual) \in Nat
    BY ExperimentAssumption
  <2>3. \A n \in 0..(Len(Usual) - 1) : SubSeq(Usual, 1, n) \in Seq(Line)
    BY <2>2
  <2>4. stream \in Seq(Line)
    BY <2>2, <2>3 DEF Cut
  <2>5. Success(stream).measured = Measured(stream, Thinking)
    BY <1>1 DEF Success, Observed
  <2>6. Measured(stream, Thinking) \in Measurement
    BY <1>1, <2>4, MeasuredType
  <2>7. FirstAnswer(stream) # None => FirstAnswer(stream) <= End(stream)
    <3> DEFINE lines == Read(stream, {"content"})
    <3>1. ASSUME lines # {} PROVE Min(lines) <= End(stream)
      <4>1. lines \in SUBSET Nat /\ End(stream) \in Nat
        BY <2>4, LinesRead
      <4>2. Min(lines) \in lines
        <5> HIDE DEF lines
        <5> QED BY <3>1, <4>1, Extremes
      <4>3. Min(lines) < End(stream) /\ Min(lines) \in Nat
        BY <4>1, <4>2 DEF Read
      <4>4. QED
        BY <4>1, <4>3
    <3>2. QED
      BY <3>1 DEF FirstAnswer, First
  <2>8. Measured(stream, Thinking).ttfa = FirstAnswer(stream) /\ Measured(stream, Thinking).e2e = End(stream)
    BY DEF Measured
  <2>9. QED
    BY <1>3, <2>1, <2>5, <2>6, <2>7, <2>8
<1>4. QED
  BY <1>2, <1>3 DEF Answers, Failure

\* The evidence file as it was written, request by request.
LEMMA FileIs ==
  ASSUME TypeInv, BatchInv, FileInv, report # None, report.paired, \A r \in Results : Whole(r.result)
  PROVE  /\ Paired /\ Runnable /\ setup \in Setups /\ Repetitions \in Nat \ {0}
         /\ report = Report /\ report.repetitions = Repetitions
         /\ report.concurrency = setup.experiment.concurrency
         /\ setup.experiment.concurrency \in Nat \ {0}
         /\ Workers = 1..setup.experiment.concurrency
         /\ report.batches = batches
         /\ \A m \in Mode :
              /\ DOMAIN batches[m] = 1..Repetitions
              /\ \A k \in 1..Repetitions :
                   /\ batches[m][k].repetition = k
                   /\ DOMAIN batches[m][k].requests = Workers
                   /\ \A w \in Workers : LET result == batches[m][k].requests[w].result
                                         IN result \in Answers /\ Whole(result)
<1>1. phase = "written" /\ report = Report
  BY DEF FileInv
<1>2. Paired /\ Runnable /\ setup \in Setups /\ Repetitions \in Nat \ {0}
  BY <1>1, ExperimentAssumption DEF Report, TypeInv, TypeOK, RunnableInv
<1>3. setup.experiment.concurrency \in Nat \ {0} /\ Workers = 1..setup.experiment.concurrency
  BY <1>2, RunnableIs DEF Workers
<1>4. report.repetitions = Repetitions /\ report.concurrency = setup.experiment.concurrency
  BY <1>1 DEF Report
<1>5. batches \in [Mode -> Seq(Batch)]
  BY DEF TypeInv, TypeOK
<1>6. report.batches = batches
  BY <1>1, <1>5 DEF Report, Recorded
<1>7. ASSUME NEW m \in Mode
      PROVE  /\ DOMAIN batches[m] = 1..Repetitions
             /\ \A k \in 1..Repetitions :
                   /\ batches[m][k].repetition = k
                   /\ DOMAIN batches[m][k].requests = Workers
                   /\ \A w \in Workers : batches[m][k].requests[w].result \in Answers
  <2>1. Measurements(m) = Repetitions
    BY <1>1 DEF Measurements
  <2>2. /\ Len(batches[m]) = Measurements(m)
        /\ \A k \in DOMAIN batches[m] :
              /\ batches[m][k].repetition = k
              /\ DOMAIN batches[m][k].requests = Workers
              /\ \A w \in Workers : batches[m][k].requests[w].result \in Answers
    BY <1>1, <1>2 DEF BatchInv
  <2>3. DOMAIN batches[m] = 1..Repetitions
    BY <1>2, <1>5, <2>1, <2>2
  <2>4. QED
    BY <2>2, <2>3
<1>8. ASSUME NEW m \in Mode, NEW k \in 1..Repetitions, NEW w \in Workers
      PROVE  Whole(batches[m][k].requests[w].result)
  <2> DEFINE r == report.batches[m][k]
             Of(mode) == {report.batches[mode][i] : i \in DOMAIN report.batches[mode]}
             All == UNION {Of(mode) : mode \in Mode}
  <2>1. k \in DOMAIN report.batches[m] /\ w \in DOMAIN r.requests
    BY <1>6, <1>7
  <2>2. r \in All
    <3>1. r \in Of(m)
      BY <2>1
    <3> HIDE DEF Of, r
    <3>2. QED
      BY <3>1
  <2>3. r.requests[w] \in Results
    <3>1. Results = UNION {{b.requests[v] : v \in DOMAIN b.requests} : b \in All}
      BY DEF Results
    <3> HIDE DEF All, r
    <3>2. QED
      BY <2>1, <2>2, <3>1
  <2>4. QED
    BY <1>6, <2>3
<1>9. QED
  BY <1>1, <1>2, <1>3, <1>4, <1>6, <1>7, <1>8

LEMMA SequenceOf ==
  ASSUME NEW n \in Nat, NEW f, f = [k \in 1..n |-> f[k]]
  PROVE  DOMAIN f = 1..n /\ Len(f) = n
<1> DEFINE S == {f[k] : k \in 1..n}
<1>1. f \in [1..n -> S]
  OBVIOUS
<1>2. f \in Seq(S)
  <2> HIDE DEF S
  <2> QED BY <1>1
<1>3. QED
  BY <1>1, <1>2

\* What the replay reads of it.
LEMMA EvidenceIs ==
  ASSUME TypeInv, BatchInv, FileInv, report # None, report.paired, \A r \in Results : Whole(r.result)
  PROVE  /\ AsEvidence.repetitions = Repetitions
         /\ AsEvidence.concurrency = setup.experiment.concurrency
         /\ \A m \in Mode :
              /\ Len(AsEvidence.batches[m]) = Repetitions
              /\ \A k \in 1..Repetitions :
                   /\ AsEvidence.batches[m][k].repetition = k
                   /\ Len(AsEvidence.batches[m][k].requests) = setup.experiment.concurrency
                   /\ \A w \in Workers : AsEvidence.batches[m][k].requests[w] =
                                            AsRequest(w, batches[m][k].requests[w].result)
<1> DEFINE n == setup.experiment.concurrency
           Req(m, k) == [w \in 1..n |-> AsRequest(w, batches[m][k].requests[w].result)]
           Bat(m) == [k \in 1..Repetitions |-> [repetition |-> k, requests |-> Req(m, k)]]
<1>1. /\ report.repetitions = Repetitions /\ Repetitions \in Nat /\ n \in Nat /\ Workers = 1..n
      /\ report.concurrency = n
      /\ report.batches = batches
      /\ \A m \in Mode :
              /\ DOMAIN batches[m] = 1..Repetitions
              /\ \A k \in 1..Repetitions :
                   /\ batches[m][k].repetition = k
                   /\ DOMAIN batches[m][k].requests = Workers
                   /\ \A w \in Workers : batches[m][k].requests[w].result \in Answers
  BY FileIs
<1>2. ASSUME NEW m \in Mode PROVE AsEvidence.batches[m] = Bat(m)
  <2>1. AsEvidence.batches[m] = [k \in DOMAIN batches[m] |->
            [repetition |-> batches[m][k].repetition,
             requests |-> [w \in DOMAIN batches[m][k].requests |->
                AsRequest(w, batches[m][k].requests[w].result)]]]
    BY <1>1 DEF AsEvidence
  <2> HIDE DEF n
  <2>2. QED
    BY <1>1, <2>1, Zenon
<1>3. ASSUME NEW m \in Mode, NEW k \in 1..Repetitions
      PROVE  Len(Req(m, k)) = n /\ \A w \in 1..n : Req(m, k)[w] = AsRequest(w, batches[m][k].requests[w].result)
  <2>1. Req(m, k) = [w \in 1..n |-> Req(m, k)[w]]
    OBVIOUS
  <2> HIDE DEF n
  <2>2. QED
    BY <1>1, <2>1, SequenceOf, Zenon
<1>4. ASSUME NEW m \in Mode
      PROVE  /\ Len(Bat(m)) = Repetitions
             /\ \A k \in 1..Repetitions : Bat(m)[k].repetition = k /\ Bat(m)[k].requests = Req(m, k)
  <2> HIDE DEF Req
  <2>1. Bat(m) = [k \in 1..Repetitions |-> Bat(m)[k]]
    OBVIOUS
  <2>2. \A k \in 1..Repetitions : Bat(m)[k].repetition = k /\ Bat(m)[k].requests = Req(m, k)
    OBVIOUS
  <2> HIDE DEF Bat
  <2>3. Len(Bat(m)) = Repetitions
    BY <1>1, <2>1, SequenceOf
  <2>4. QED
    BY <2>2, <2>3
<1>5. AsEvidence.repetitions = Repetitions /\ AsEvidence.concurrency = n
  BY <1>1 DEF AsEvidence
<1> HIDE DEF Bat, Req
<1>6. ASSUME NEW m \in Mode
      PROVE  /\ Len(AsEvidence.batches[m]) = Repetitions
             /\ \A k \in 1..Repetitions :
                   /\ AsEvidence.batches[m][k].repetition = k
                   /\ Len(AsEvidence.batches[m][k].requests) = n
                   /\ \A w \in Workers : AsEvidence.batches[m][k].requests[w] =
                                            AsRequest(w, batches[m][k].requests[w].result)
  BY <1>1, <1>2, <1>3, <1>4
<1>7. QED
  BY <1>5, <1>6

\* Both modes can be replayed.
LEMMA ReplayableFollows ==
  ASSUME TypeInv, BatchInv, FileInv, report # None, report.paired, \A r \in Results : Whole(r.result),
         NEW mode \in Mode
  PROVE  R!Replayable(AsEvidence, mode)
<1> DEFINE n == setup.experiment.concurrency
           Stored(i) == AsEvidence.batches[mode][i]
<1>1. /\ AsEvidence.repetitions = Repetitions /\ AsEvidence.concurrency = n
      /\ Len(AsEvidence.batches[mode]) = Repetitions
      /\ \A i \in 1..Repetitions :
           /\ Stored(i).repetition = i
           /\ Len(Stored(i).requests) = n
           /\ \A w \in Workers : Stored(i).requests[w] = AsRequest(w, batches[mode][i].requests[w].result)
  BY EvidenceIs
<1>2. /\ Repetitions \in Nat /\ n \in Nat /\ Workers = 1..n /\ Runnable /\ setup \in Setups
      /\ \A i \in 1..Repetitions : \A w \in Workers :
            LET result == batches[mode][i].requests[w].result IN result \in Answers /\ Whole(result)
  BY FileIs
<1> HIDE DEF n
<1>3. ASSUME NEW i \in 1..Repetitions, NEW w \in 1..n
      PROVE  /\ Stored(i).requests[w].no = w
             /\ Stored(i).requests[w].success => Stored(i).requests[w].ttfa <= Stored(i).requests[w].e2e
  <2> DEFINE result == batches[mode][i].requests[w].result
  <2>1. Stored(i).requests[w] = AsRequest(w, result) /\ result \in Answers /\ Whole(result)
    BY <1>1, <1>2
  <2> HIDE DEF result, Stored
  <2>2. result.success => result.measured.ttfa <= result.measured.e2e
    BY <1>2, <2>1, AnswersAre DEF Whole
  <2>3. QED
    BY <2>1, <2>2 DEF AsRequest
<1>4. ASSUME NEW i \in 1..Repetitions PROVE {Stored(i).requests[w].no : w \in 1..n} = 1..n
  <2> HIDE DEF Stored
  <2> QED BY <1>3
<1>5. Repetitions >= Repetitions
  BY <1>2
<1>6. ASSUME NEW i \in 1..Repetitions
      PROVE  /\ Stored(i).repetition = i /\ Len(Stored(i).requests) = n
             /\ {Stored(i).requests[w].no : w \in 1..n} = 1..n
             /\ \A w \in 1..n : Stored(i).requests[w].success => Stored(i).requests[w].ttfa <= Stored(i).requests[w].e2e
  BY <1>1, <1>3, <1>4
<1>7. PICK ev : ev = AsEvidence
  OBVIOUS
<1>8. /\ ev.repetitions >= Repetitions /\ Len(ev.batches[mode]) = ev.repetitions
      /\ \A i \in 1..ev.repetitions :
           /\ ev.batches[mode][i].repetition = i
           /\ Len(ev.batches[mode][i].requests) = ev.concurrency
           /\ {ev.batches[mode][i].requests[k].no : k \in 1..ev.concurrency} = 1..ev.concurrency
           /\ \A k \in 1..ev.concurrency : ev.batches[mode][i].requests[k].success =>
                ev.batches[mode][i].requests[k].ttfa <= ev.batches[mode][i].requests[k].e2e
  BY <1>1, <1>5, <1>6, <1>7
<1>9. R!Replayable(ev, mode)
  BY <1>8, Zenon DEF R!Replayable
<1>10. QED
  BY <1>7, <1>9

LEMMA SameCount == \A S : R!Cardinality(S) = Cardinality(S)
  BY DEF R!Cardinality, Cardinality

\* The replay and the summaries count the same answers.
LEMMA SameAnswers ==
  ASSUME TypeInv, BatchInv, FileInv, report # None, report.paired, \A r \in Results : Whole(r.result)
  PROVE  /\ R!Sent(AsEvidence) = Sent("assistant")
         /\ R!Answered(AsEvidence) = Answered("assistant")
         /\ \A p \in Sent("assistant") :
              /\ R!At(AsEvidence, p) = AsRequest(p[2], Outcome("assistant", p))
              /\ Outcome("assistant", p) \in Answers /\ Whole(Outcome("assistant", p))
<1>1. "assistant" \in Mode
  BY DEF Mode
<1>2. /\ AsEvidence.repetitions = Repetitions /\ AsEvidence.concurrency = setup.experiment.concurrency
      /\ \A i \in 1..Repetitions : \A w \in Workers :
            AsEvidence.batches["assistant"][i].requests[w] = AsRequest(w, batches["assistant"][i].requests[w].result)
  BY <1>1, EvidenceIs
<1>3. /\ Workers = 1..setup.experiment.concurrency /\ DOMAIN batches["assistant"] = 1..Repetitions
      /\ \A i \in 1..Repetitions : \A w \in Workers :
            LET result == batches["assistant"][i].requests[w].result IN result \in Answers /\ Whole(result)
  BY <1>1, FileIs
<1>4. R!Sent(AsEvidence) = Sent("assistant")
  BY <1>2, <1>3 DEF R!Sent, Sent
<1>5. ASSUME NEW p \in Sent("assistant")
      PROVE  /\ R!At(AsEvidence, p) = AsRequest(p[2], Outcome("assistant", p))
             /\ Outcome("assistant", p) \in Answers /\ Whole(Outcome("assistant", p))
             /\ R!At(AsEvidence, p).success <=> Outcome("assistant", p).success
  <2>1. p[1] \in 1..Repetitions /\ p[2] \in Workers
    BY <1>3 DEF Sent
  <2>2. R!At(AsEvidence, p) = AsRequest(p[2], Outcome("assistant", p))
    BY <1>2, <2>1 DEF R!At, Outcome
  <2>3. Outcome("assistant", p) \in Answers /\ Whole(Outcome("assistant", p))
    BY <1>3, <2>1 DEF Outcome
  <2>4. R!At(AsEvidence, p).success <=> Outcome("assistant", p).success
    BY <2>2 DEF AsRequest
  <2>5. QED
    BY <2>2, <2>3, <2>4
<1>6. R!Answered(AsEvidence) = Answered("assistant")
  BY <1>4, <1>5 DEF R!Answered, Answered
<1>7. QED
  BY <1>4, <1>5, <1>6

\* Their metrics are the same, and the scores too if every answer is complete.
LEMMA SameMetrics ==
  ASSUME TypeInv, BatchInv, FileInv, report # None, report.paired, \A r \in Results : Whole(r.result)
  PROVE  /\ R!Ttfa(AsEvidence) = Metric("assistant", "ttfa")
         /\ R!EndToEnd(AsEvidence) = Metric("assistant", "e2e")
         /\ R!Rate(AsEvidence) = Metric("assistant", "rate")
         /\ \A field \in {"ttfa", "e2e", "rate"} : DOMAIN Metric("assistant", field) = Answered("assistant")
         /\ R!Complete(AsEvidence) => R!Scores(AsEvidence) = Scores("assistant")
<1> DEFINE m == "assistant"
           ans == Answered(m)
<1>1. ASSUME NEW p \in ans
      PROVE  LET result == Outcome(m, p) IN
             /\ result.measured.ttfa # None /\ result.measured.e2e # None /\ result.measured.rate # None
             /\ R!At(AsEvidence, p).ttfa = result.measured.ttfa
             /\ R!At(AsEvidence, p).e2e = result.measured.e2e
             /\ R!At(AsEvidence, p).rate = result.measured.rate
             /\ R!At(AsEvidence, p).checks = result.measured.checks
  <2> DEFINE result == Outcome(m, p)
  <2>1. /\ R!At(AsEvidence, p) = AsRequest(p[2], result)
        /\ result \in Answers /\ Whole(result) /\ result.success
    BY SameAnswers DEF Answered
  <2>2. Runnable /\ setup \in Setups
    BY FileIs
  <2> HIDE DEF result
  <2>3. result.measured \in Measurement
    BY <2>1, <2>2, AnswersAre
  <2>4. result.measured.e2e # None
    BY <2>3, StreamChatAssumption DEF Measurement
  <2>5. result.measured.ttfa # None /\ result.measured.rate # None
    BY <2>1 DEF Whole
  <2>6. /\ R!At(AsEvidence, p).ttfa = result.measured.ttfa
        /\ R!At(AsEvidence, p).e2e = result.measured.e2e
        /\ R!At(AsEvidence, p).rate = result.measured.rate
        /\ R!At(AsEvidence, p).checks = result.measured.checks
    BY <2>1 DEF AsRequest
  <2>7. QED
    BY <2>4, <2>5, <2>6 DEF result
<1>2. R!Answered(AsEvidence) = ans
  BY SameAnswers
<1>3. ASSUME NEW field \in {"ttfa", "e2e", "rate"}
      PROVE  Metric(m, field) = [p \in ans |-> Outcome(m, p).measured[field]]
  <2>1. {p \in ans : Outcome(m, p).measured[field] # None} = ans
    BY <1>1
  <2>2. QED
    BY <2>1, Zenon DEF Metric
<1> HIDE DEF ans, m
<1>4. R!Ttfa(AsEvidence) = Metric(m, "ttfa")
  BY <1>1, <1>2, <1>3 DEF R!Ttfa
<1>5. R!EndToEnd(AsEvidence) = Metric(m, "e2e")
  BY <1>1, <1>2, <1>3 DEF R!EndToEnd
<1>6. R!Rate(AsEvidence) = Metric(m, "rate")
  BY <1>1, <1>2, <1>3 DEF R!Rate
<1>7. ASSUME R!Complete(AsEvidence) PROVE R!Scores(AsEvidence) = Scores(m)
  <2>1. \A p \in ans : R!Score(R!At(AsEvidence, p)) = Cardinality(Outcome(m, p).measured.checks)
    BY <1>1, <1>2, <1>7, SameCount DEF R!Complete, R!Score
  <2>2. QED
    BY <1>2, <2>1 DEF R!Scores, Scores, ans
<1>8. QED
  BY <1>3, <1>4, <1>5, <1>6, <1>7 DEF m, ans

\* What the recommender finds eligible misses no objective of the summaries.
LEMMA NoneMissed ==
  ASSUME TypeInv, BatchInv, FileInv, report # None, report.paired, \A r \in Results : Whole(r.result),
         R!Blocking(AsEvidence) = {}
  PROVE  Missed("assistant") = {}
<1>1. \A o \in R!Objective : R!Meets(AsEvidence, o)
  BY DEF R!Blocking, R!Deployment
<1>2. R!Answered(AsEvidence) # {} /\ R!Complete(AsEvidence)
  BY <1>1 DEF R!Meets, R!Objective
<1>3. /\ Answered("assistant") # {} /\ R!Answered(AsEvidence) = Answered("assistant")
      /\ R!Sent(AsEvidence) = Sent("assistant")
  BY <1>2, SameAnswers
<1>4. /\ R!Ttfa(AsEvidence) = Metric("assistant", "ttfa")
      /\ R!EndToEnd(AsEvidence) = Metric("assistant", "e2e")
      /\ R!Rate(AsEvidence) = Metric("assistant", "rate")
      /\ R!Scores(AsEvidence) = Scores("assistant")
      /\ \A field \in {"ttfa", "e2e", "rate"} : DOMAIN Metric("assistant", field) # {}
  BY <1>2, <1>3, SameMetrics
<1>5. R!Rounded(R!Percentile(Metric("assistant", "ttfa"))) <= Target.ttfa
  BY <1>1, <1>4 DEF R!Meets, R!Objective
<1>6. R!Rounded(R!Percentile(Metric("assistant", "e2e"))) <= Target.e2e
  BY <1>1, <1>4 DEF R!Meets, R!Objective
<1>7. R!Rounded(R!Minimum(Metric("assistant", "rate"))) >= Target.rate
  BY <1>1, <1>4 DEF R!Meets, R!Objective
<1>8. 100 * Cardinality(Sent("assistant") \ Answered("assistant"))
          <= Target.errors * Cardinality(Sent("assistant"))
  BY <1>1, <1>3, SameCount DEF R!Meets, R!Objective
<1>9. R!Minimum(Scores("assistant")) >= Target.score
  BY <1>1, <1>4 DEF R!Meets, R!Objective
<1>10. DOMAIN Scores("assistant") = Answered("assistant")
  BY DEF Scores
<1> DEFINE within(field, bound) ==
               /\ DOMAIN Metric("assistant", field) # {}
               /\ R!Rounded(R!Percentile(Metric("assistant", field))) <= bound
           above(f, bound) == DOMAIN f # {} /\ R!Rounded(R!Minimum(f)) >= bound
           errors == 100 * Cardinality(Sent("assistant") \ Answered("assistant"))
                         <= Target.errors * Cardinality(Sent("assistant"))
           quality == Answered("assistant") # {} /\ R!Minimum(Scores("assistant")) >= Target.score
           kept == [ttfa_p95_ms |-> within("ttfa", Target.ttfa),
                    end_to_end_p95_ms |-> within("e2e", Target.e2e),
                    answer_tokens_per_second_min |-> above(Metric("assistant", "rate"), Target.rate),
                    error_rate_max |-> errors,
                    quality_minimum_score |-> quality]
<1>11. Missed("assistant") = {o \in D!Objective : ~kept[o]}
  BY DEF Missed
<1>12. /\ within("ttfa", Target.ttfa) /\ within("e2e", Target.e2e)
       /\ above(Metric("assistant", "rate"), Target.rate)
       /\ errors /\ quality
  BY <1>3, <1>4, <1>5, <1>6, <1>7, <1>8, <1>9
<1>13. \A o \in D!Objective : kept[o]
  <2> HIDE DEF within, above, errors, quality
  <2>1. kept = [ttfa_p95_ms |-> TRUE, end_to_end_p95_ms |-> TRUE, answer_tokens_per_second_min |-> TRUE,
                error_rate_max |-> TRUE, quality_minimum_score |-> TRUE]
    BY <1>12, Zenon
  <2> HIDE DEF kept
  <2>2. QED
    BY <2>1 DEF D!Objective
<1>14. QED
  <2> HIDE DEF kept
  <2> QED BY <1>11, <1>13

LEMMA ReplayFollows == TypeInv /\ BatchInv /\ FileInv => EvidenceReplays
<1> SUFFICES ASSUME TypeInv, BatchInv, FileInv, report # None, report.paired,
                    \A r \in Results : Whole(r.result)
             PROVE  /\ \A mode \in Mode : R!Replayable(AsEvidence, mode)
                    /\ R!Blocking(AsEvidence) = {} /\ decision \notin {None, Unreadable} => decision.meets
  BY DEF EvidenceReplays
<1>1. ASSUME R!Blocking(AsEvidence) = {}, decision \notin {None, Unreadable} PROVE decision.meets
  <2>1. decision = D!Judgement([mode \in Mode |-> Missed(mode)])
    BY <1>1, Zenon DEF FileInv, Decision
  <2>2. Missed("assistant") = {}
    BY <1>1, NoneMissed
  <2>3. QED
    BY <2>1, <2>2 DEF D!Judgement, Mode
<1>2. QED
  BY <1>1, ReplayableFollows

\* Whatever failed, was cut short or restarted, a paired file whose successes carry their
\* metrics has for each mode and repetition one batch, in order, with an outcome of every
\* request, so evidence.py can replay it; and the two judges of it agree: nothing that the
\* recommender would let through was found by decision/engine.py to miss an objective.
THEOREM EvidenceIsReplayable == Spec => []EvidenceReplays
<1>1. Init => TypeInv /\ BatchInv /\ FileInv
  BY TypeInit, ReplayInit
<1>2. TypeInv /\ BatchInv /\ FileInv /\ [Next]_vars
        => (TypeInv /\ BatchInv /\ FileInv)'
  BY TypeStep, ReplayStep
<1>3. TypeInv /\ BatchInv /\ FileInv => EvidenceReplays
  BY ReplayFollows
<1>4. QED
  BY <1>1, <1>2, <1>3, PTL DEF Spec
=============================================================================
