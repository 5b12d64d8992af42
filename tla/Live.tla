-------------------------------- MODULE Live --------------------------------
(***************************************************************************)
(* The requests of srh/capacity/server.py, one thread each: the live       *)
(* comparison of srh/recommendation/live.py and the benchmark of           *)
(* srh/capacity/local_runtime.py it calls for every candidate, against     *)
(* local runtimes that come, go and are replaced while they are measured;  *)
(* the capacity plan of srh/capacity/planner.py; and, beside the server,   *)
(* the program srh/workloads/planner.py.  What is measured is in the unit  *)
(* to which the code rounds it.                                            *)
(***************************************************************************)
EXTENDS PowerMeter, Capacity

CONSTANTS
    Requests,      \* what each client may ask for
    Contracts,     \* by name, the contracts in the requests
    Intakes,       \* by name, the intakes
    Inventories,   \* what the local runtimes may offer
    Usual,         \* what each runtime answers without incident
    Results,       \* what else may come back
    Protocols,     \* repetitions of a comparison: {3, 5}
    Complete,      \* repetitions a recommendation takes: 5
    Percent,       \* 95
    MaxFaults      \* bound: incidents

Profile == {"quick", "representative", "stress", "other"}
Policy == {"performance_first", "other"}
Fingerprint == DOMAIN Usual
Place == [endpoint : STRING, model : STRING]

\* A fingerprint stands for its digest too; the order of the digests is theirs.
Entry == [endpoint : STRING, model : STRING, print : Fingerprint]

Comparison == [kind : {"comparison"}, contract : DOMAIN Contracts,
               candidates : Seq(Fingerprint \cup {None}), profile : Profile,
               repetitions : Nat, concurrency : Nat, policy : Policy]
Benchmark == [kind : {"benchmark"}, contract : DOMAIN Contracts,
              place : Place, local : BOOLEAN, profile : Profile,
              repetitions : Nat, concurrency : Nat]
Plan == [kind : {"plan"}, contract : DOMAIN Contracts] \cup [kind : {"capacity"}, intake : DOMAIN Intakes]

\* _quality: the score is the share of the checks that pass.
Run == {run \in [success : BOOLEAN, ttfa : Nat \cup {None}, e2e : Nat \cup {None}, rate : Nat \cup {None},
                 score : 0..100, pass : BOOLEAN] : run.pass <=> run.score = 100}

ASSUME LiveAssumption ==
    /\ Fingerprint \subseteq Nat
    /\ \A c \in Client : Requests[c] \subseteq Comparison \cup Benchmark \cup Plan
    /\ \A name \in DOMAIN Contracts : Contracts[name] \in Contract
    /\ \A name \in DOMAIN Intakes : Intakes[name] \in Intake
    /\ \A name \in DOMAIN Intakes, h \in Device :       \* the code keeps a share for any number
          IntakeOk(Intakes[name]) => Intakes[name].concurrent \in DOMAIN HardwareItems[h].keepDecode
                                                          \cap DOMAIN HardwareItems[h].keepPrefill
    /\ Inventories \subseteq Seq(Entry) /\ Inventories # {}
    /\ Usual \in [Fingerprint -> Run] /\ Results \subseteq Run
    /\ Protocols \subseteq Nat \ {0} /\ Complete \in Protocols
    /\ Percent \in 1..100 /\ MaxFaults \in Nat

VARIABLES
    ask,        \* the request of each client, None before
    at,         \* where its thread is
    known,      \* the inventory the comparison read
    observed,   \* fingerprint the benchmark found at its place, None if it found none
    open, runs, \* requests out, and what came back, in the order in which it did
    rows,       \* candidates measured so far
    answer,     \* what the client was answered, None until then
    inventory,  \* what the local runtimes offer
    faults      \* incidents so far

thread == <<ask, at, known, observed, open, runs, rows, answer>>
vars == <<thread, meter, inventory, faults>>

Fault == faults < MaxFaults /\ faults' = faults + 1

-----------------------------------------------------------------------------
(* What is measured. *)

\* {item["runtime_fingerprint"]: item ...}: the last one stays.
Named(offer, print) == {i \in DOMAIN offer : offer[i].print = print}
Chosen(offer, print) == offer[Max(Named(offer, print))]

\* The first model of that name at that endpoint.
Placed(offer, place) ==
    {i \in DOMAIN offer : offer[i].endpoint = place.endpoint /\ offer[i].model = place.model}
Found(offer, place) ==
    IF Placed(offer, place) = {} THEN None ELSE offer[Min(Placed(offer, place))].print

Compares(c) == ask[c].kind = "comparison"
Selected(c) == ask[c].candidates[Len(rows[c]) + 1]
Subject(c) ==
    IF Compares(c) THEN [endpoint |-> Chosen(known[c], Selected(c)).endpoint,
                         model |-> Chosen(known[c], Selected(c)).model]
                   ELSE ask[c].place
Total(c) == ask[c].repetitions * ask[c].concurrency

-----------------------------------------------------------------------------
(* What it amounts to. *)

Successful(measured) == {k \in DOMAIN measured : measured[k].success}

\* _metric leaves out what is missing.
Metric(measured, field) ==
    [k \in {i \in Successful(measured) : measured[i][field] # None} |-> measured[k][field]]

Percentile(f) ==
    Min({f[k] : k \in {i \in DOMAIN f :
            100 * Cardinality({j \in DOMAIN f : f[j] <= f[i]}) >= Percent * Cardinality(DOMAIN f)}})
P95(f) == IF DOMAIN f = {} THEN None ELSE Percentile(f)
Least(f) == IF DOMAIN f = {} THEN None ELSE Min({f[k] : k \in DOMAIN f})

\* Mutant: the requests that failed are left out.
ScoredOnlyIfAnswered(measured) ==
    [k \in Successful(measured) |-> [score |-> measured[k].score, pass |-> measured[k].pass]]

\* A request that failed scores 0 and does not pass.
Quality(measured) ==
    [k \in DOMAIN measured |->
        IF measured[k].success THEN [score |-> measured[k].score, pass |-> measured[k].pass]
                               ELSE [score |-> 0, pass |-> FALSE]]
Score(measured) == Min({Quality(measured)[k].score : k \in DOMAIN Quality(measured)} \cup {100})

\* The objectives kept, and required_quality_checks.
Checked(measured, want) ==
    LET ttfa == P95(Metric(measured, "ttfa"))
        e2e == P95(Metric(measured, "e2e"))
        rate == Least(Metric(measured, "rate"))
        failed == Len(measured) - Cardinality(Successful(measured))
    IN [ttfa_p95_ms |-> ttfa # None /\ ttfa <= want["ttfa_p95_ms"],
        end_to_end_p95_ms |-> e2e # None /\ e2e <= want["end_to_end_p95_ms"],
        answer_tokens_per_second_min |-> rate # None /\ rate >= want["answer_tokens_per_second_min"],
        error_rate_max |-> 100 * failed <= want["error_rate_max"] * Len(measured),
        quality_minimum_score |-> Score(measured) >= want["quality_minimum_score"],
        required_quality_checks |->
            \A k \in DOMAIN Quality(measured) : Quality(measured)[k].pass]

CandidateRow(print, found, measured, want) ==
    [print |-> print, observed |-> found, runs |-> measured,
     ttfa |-> P95(Metric(measured, "ttfa")), e2e |-> P95(Metric(measured, "e2e")),
     rate |-> Least(Metric(measured, "rate")), score |-> Score(measured),
     blocking |-> {o \in DOMAIN Checked(measured, want) : ~Checked(measured, want)[o]}]

Eligible(measured) == {k \in DOMAIN measured : measured[k].blocking = {}}

\* "ranked" and "diagnostic_ranked"; the digest decides between equals.
RankKey(row) == <<row.ttfa, row.e2e, -row.rate, row.print>>
DiagnosticKey(row) == <<Cardinality(row.blocking), -row.score, row.ttfa, row.e2e, row.print>>

Ranked(measured) ==
    {k \in Eligible(measured) :
        \A i \in Eligible(measured) \ {k} : Precedes(RankKey(measured[k]), RankKey(measured[i]))}
Closest(measured) ==
    {k \in DOMAIN measured :
        \A i \in DOMAIN measured \ {k} :
            Precedes(DiagnosticKey(measured[k]), DiagnosticKey(measured[i]))}

Verdict(measured, repetitions) ==
    IF repetitions # Complete THEN "INSUFFICIENT_EVIDENCE"
    ELSE IF Eligible(measured) # {} THEN "RECOMMENDED"
    ELSE "NO_DEPLOYMENT_MEETS_REQUIREMENTS"

Report(measured, repetitions) ==
    [verdict |-> Verdict(measured, repetitions),
     recommended |-> IF Verdict(measured, repetitions) = "RECOMMENDED"
                     THEN measured[Max(Ranked(measured))].print ELSE None,
     closest |-> measured[Max(Closest(measured))].print]

-----------------------------------------------------------------------------

At == {"idle", "accepted", "discover", "candidate", "observe", "baseline", "work", "join", "read",
       "stuck", "done"}
Row == [print : Fingerprint, observed : Fingerprint \cup {None}, runs : Seq(Run),
        ttfa : Nat \cup {None}, e2e : Nat \cup {None}, rate : Nat \cup {None}, score : 0..100,
        blocking : SUBSET (Objective \cup {"required_quality_checks"})]
Answer == [verdict : {"REFUSED", "DROPPED", "MEASURED", "INSUFFICIENT_EVIDENCE", "RECOMMENDED",
                      "NO_DEPLOYMENT_MEETS_REQUIREMENTS"},
           recommended : Fingerprint \cup {None}, closest : Fingerprint \cup {None}]
Planned == [verdict : {"PLANNED", "WRITTEN"}, experiments : Seq([id : Label \X Nat, concurrency : Nat,
                input : Nat \cup {Null}, output : Nat \cup {Null},
                cache : {"warm", "cold", "shared-prefix"}]),
            shortlist : Seq([hardware : Device, model : Model, bits : Nat, status : Status, score : Int])]

TypeOK ==
    /\ MeterTypeOK
    /\ \A c \in Client : ask[c] \in Requests[c] \cup {None}
    /\ at \in [Client -> At]
    /\ known \in [Client -> Inventories \cup {<<>>}]
    /\ observed \in [Client -> Fingerprint \cup {None}]
    /\ runs \in [Client -> Seq(Run)]
    /\ \A c \in Client : at[c] \in {"work", "join"} =>      \* the pool
          open[c] \in 0..ask[c].concurrency /\ (at[c] = "work" => open[c] + Len(runs[c]) <= Total(c))
    /\ rows \in [Client -> Seq(Row)]
    /\ answer \in [Client -> Answer \cup Planned \cup {None}]
    /\ inventory \in Inventories
    /\ faults \in 0..MaxFaults

Init ==
    /\ MeterInit
    /\ ask = [c \in Client |-> None]
    /\ at = [c \in Client |-> "idle"]
    /\ known = [c \in Client |-> <<>>]
    /\ observed = [c \in Client |-> None]
    /\ open = [c \in Client |-> 0]
    /\ runs = [c \in Client |-> <<>>]
    /\ rows = [c \in Client |-> <<>>]
    /\ answer = [c \in Client |-> None]
    /\ inventory \in Inventories
    /\ faults = 0

Go(c, there) == at' = [at EXCEPT ![c] = there]
Reply(c, what) == Go(c, "done") /\ answer' = [answer EXCEPT ![c] = what]
Plain(verdict) == [verdict |-> verdict, recommended |-> None, closest |-> None]

\* ValueError is answered with a 400; nothing answers any other exception.
Refuse(c) == Reply(c, Plain("REFUSED"))
Drop(c) == Reply(c, Plain("DROPPED"))

-----------------------------------------------------------------------------
(* server.py do_POST, and what run_live_comparison checks first. *)

Ask(c) ==
    /\ at[c] = "idle"
    /\ \E request \in Requests[c] : ask' = [ask EXCEPT ![c] = request]
    /\ Go(c, "accepted")
    /\ UNCHANGED <<known, observed, open, runs, rows, answer, meter, inventory, faults>>

Objectives(c) == Contracts[ask[c].contract].objectives

ComparisonOk(request) ==
    /\ Valid(Contracts[request.contract])
    /\ Len(request.candidates) \in 2..6
    /\ request.profile # "other"
    /\ request.repetitions \in Protocols
    /\ request.concurrency \in 1..8
    /\ request.policy = "performance_first"

AcceptComparison(c) ==
    /\ at[c] = "accepted" /\ Compares(c)
    /\ IF Contracts[ask[c].contract].null THEN Drop(c)
       ELSE IF ComparisonOk(ask[c]) THEN Go(c, "discover") /\ UNCHANGED answer
       ELSE Refuse(c)
    /\ UNCHANGED <<ask, known, observed, open, runs, rows, meter, inventory, faults>>

\* The inventory is read once, for the whole comparison.
Discover(c) ==
    /\ at[c] = "discover"
    /\ known' = [known EXCEPT ![c] = inventory]
    /\ LET wanted == ask[c].candidates IN
       IF \A i \in DOMAIN wanted : wanted[i] # None /\ \A j \in 1..(i - 1) : wanted[j] # wanted[i]
       THEN Go(c, "candidate") /\ UNCHANGED answer
       ELSE Refuse(c)
    /\ UNCHANGED <<ask, observed, open, runs, rows, meter, inventory, faults>>

\* One candidate after the other; the end of them.
NextCandidate(c) ==
    /\ at[c] = "candidate" /\ Len(rows[c]) < Len(ask[c].candidates)
    /\ IF Named(known[c], Selected(c)) # {} THEN Go(c, "observe") /\ UNCHANGED answer ELSE Refuse(c)
    /\ UNCHANGED <<ask, known, observed, open, runs, rows, meter, inventory, faults>>

Conclude(c) ==
    /\ at[c] = "candidate" /\ Len(rows[c]) = Len(ask[c].candidates)
    /\ Reply(c, Report(rows[c], ask[c].repetitions))
    /\ UNCHANGED <<ask, known, observed, open, runs, rows, meter, inventory, faults>>

-----------------------------------------------------------------------------
(* run_local_benchmark, for a comparison or by itself. *)

BenchmarkOk(request) ==
    /\ request.local /\ request.profile # "other"
    /\ request.repetitions \in 1..5 /\ request.concurrency \in 1..8

\* The percentile a profile takes its two sizes from.
Percentiles(request) ==
    LET contract == Contracts[request.contract]
        Taken(d) == IF d = None THEN None ELSE IF request.profile = "stress" THEN d.p95 ELSE d.p50
    IN {Taken(contract.input), Taken(contract.output)}

\* The contract of a single benchmark is not validated: what is not there is a KeyError.
AcceptBenchmark(c) ==
    /\ at[c] = "accepted" /\ ask[c].kind = "benchmark"
    /\ IF ~BenchmarkOk(ask[c]) THEN Refuse(c)
       ELSE IF None \in Percentiles(ask[c]) THEN Drop(c)
       ELSE Go(c, "observe") /\ UNCHANGED answer
    /\ UNCHANGED <<ask, known, observed, open, runs, rows, meter, inventory, faults>>

\* Discovery once more, for the report, and a warm-up whose failure is only noted.
Observe(c) ==
    /\ at[c] = "observe"
    /\ observed' = [observed EXCEPT ![c] = Found(inventory, Subject(c))]
    /\ Go(c, "baseline")
    /\ UNCHANGED <<ask, known, open, runs, rows, answer, meter, inventory, faults>>

\* Three samples in the benchmark's own thread, then the monitor.
Baseline(c) ==
    /\ at[c] = "baseline"
    /\ Go(c, "work") /\ Start(c)
    /\ open' = [open EXCEPT ![c] = 0]
    /\ runs' = [runs EXCEPT ![c] = <<>>]
    /\ UNCHANGED <<ask, known, observed, rows, answer, inventory, faults>>

\* An nvidia-smi that cannot be killed holds it for good.
BaselineHangs(c) ==
    /\ at[c] = "baseline" /\ Fault
    /\ Go(c, "stuck")
    /\ UNCHANGED <<ask, known, observed, open, runs, rows, answer, meter, inventory>>

\* Mutant: as many at a time as there are.
PoolUnbounded(c) == TRUE

\* ThreadPoolExecutor(max_workers=concurrency)
PoolFree(c) == open[c] < ask[c].concurrency

Send(c) ==
    /\ at[c] = "work" /\ PoolFree(c) /\ open[c] + Len(runs[c]) < Total(c)
    /\ open' = [open EXCEPT ![c] = @ + 1]
    /\ UNCHANGED <<ask, at, known, observed, runs, rows, answer, meter, inventory, faults>>

Failure == [success |-> FALSE, ttfa |-> None, e2e |-> None, rate |-> None, score |-> 0, pass |-> FALSE]
Returns(c, run) ==
    /\ at[c] = "work" /\ open[c] > 0
    /\ open' = [open EXCEPT ![c] = @ - 1]
    /\ runs' = [runs EXCEPT ![c] = Append(@, run)]
    /\ UNCHANGED <<ask, at, known, observed, rows, answer, meter, inventory>>

\* Whatever serves that name answers; without one the request fails.
Answered(c) ==
    /\ Returns(c, IF Found(inventory, Subject(c)) = None THEN Failure
                  ELSE Usual[Found(inventory, Subject(c))])
    /\ UNCHANGED faults

AnsweredOddly(c) == Fault /\ \E run \in Results \cup {Failure} : Returns(c, run)

WorkDone(c) ==
    /\ at[c] = "work" /\ Len(runs[c]) = Total(c)
    /\ Go(c, "join") /\ Stop(c)
    /\ UNCHANGED <<ask, known, observed, open, runs, rows, answer, inventory, faults>>

Join(c) ==
    /\ at[c] = "join" /\ Joined(c)
    /\ Go(c, "read")
    /\ UNCHANGED <<ask, known, observed, open, runs, rows, answer, meter, inventory, faults>>

ReadPower(c) ==
    /\ at[c] = "read" /\ Read(c)
    /\ UNCHANGED <<thread, inventory, faults>>

\* An objective or a p95 the contract does not name is a KeyError, after all the work.
Incomplete(contract) ==
    \/ \E o \in Objective : contract.objectives[o] = None
    \/ None \in {contract.input.p95, contract.output.p95}

Summarise(c) ==
    /\ at[c] = "read" /\ Len(power[c]) = 3
    /\ IF Incomplete(Contracts[ask[c].contract]) THEN Drop(c) /\ UNCHANGED rows
       ELSE IF Compares(c)
            THEN /\ rows' = [rows EXCEPT ![c] = Append(@, CandidateRow(Selected(c), observed[c], runs[c], Objectives(c)))]
                 /\ Go(c, "candidate") /\ UNCHANGED answer
            ELSE Reply(c, Plain("MEASURED")) /\ UNCHANGED rows
    /\ UNCHANGED <<ask, known, observed, open, runs, meter, inventory, faults>>

-----------------------------------------------------------------------------
(* Planning. *)

\* "/api/plan": screening and experiments for an intake.
CapacityAnswer ==
    [name \in DOMAIN Intakes |->
        LET intake == Intakes[name] IN
        IF Plannable(intake)
        THEN [verdict |-> "PLANNED", experiments |-> BuildPlan(Translate(intake)),
              shortlist |-> Shortlist(Candidates(intake), ShortlistSize(intake))]
        ELSE Plain("REFUSED")]

\* The program: load_contract, build_plan, the file, and a listing that cannot show a null.
WorkloadAnswer ==
    [name \in DOMAIN Contracts |->
        LET plan == BuildPlan(Contracts[name])
            shown == \A i \in DOMAIN plan : Null \notin {plan[i].input, plan[i].output}
        IN IF Contracts[name].null THEN Plain("DROPPED")
           ELSE IF ~Valid(Contracts[name]) THEN Plain("REFUSED")
           ELSE [verdict |-> IF shown THEN "PLANNED" ELSE "WRITTEN",
                 experiments |-> plan, shortlist |-> <<>>]]

MakePlan(c) ==
    /\ at[c] = "accepted"
    /\ \/ ask[c].kind = "capacity" /\ Reply(c, CapacityAnswer[ask[c].intake])
       \/ ask[c].kind = "plan" /\ Reply(c, WorkloadAnswer[ask[c].contract])
    /\ UNCHANGED <<ask, known, observed, open, runs, rows, meter, inventory, faults>>

-----------------------------------------------------------------------------
(* The runtimes. *)

\* A runtime is started, stopped, or replaced under the same name.
Change ==
    /\ Fault
    /\ inventory' \in Inventories \ {inventory}
    /\ UNCHANGED <<thread, meter>>

Main(c) ==
    \/ AcceptComparison(c) \/ Discover(c) \/ NextCandidate(c) \/ Conclude(c)
    \/ AcceptBenchmark(c) \/ Observe(c) \/ Baseline(c) \/ WorkDone(c) \/ Join(c) \/ ReadPower(c)
    \/ Summarise(c) \/ MakePlan(c)

Traffic(c) == Send(c) \/ Answered(c)

Sampling(c) == (Check(c) \/ Sampled(c)) /\ UNCHANGED <<thread, inventory, faults>>

Incident(c) ==
    \/ AnsweredOddly(c) \/ BaselineHangs(c)
    \/ Hang(c) /\ Fault /\ UNCHANGED <<thread, inventory>>
    \/ Die(c) /\ UNCHANGED <<thread, inventory, faults>>

Time == Tick /\ UNCHANGED <<thread, inventory, faults>>

Next == Change \/ Time \/ \E c \in Client : Ask(c) \/ Main(c) \/ Traffic(c) \/ Sampling(c) \/ Incident(c)

\* Threads are scheduled, time passes, and stream_chat gives up on a request after 300 s.
Spec ==
    /\ Init /\ [][Next]_vars
    /\ WF_vars(Time)
    /\ \A c \in Client : WF_vars(Main(c)) /\ WF_vars(Traffic(c)) /\ WF_vars(Sampling(c))

-----------------------------------------------------------------------------
(* Properties. *)

\* At least Percent of the values a metric is made of are within a bound.
Mostly(f, bound) ==
    100 * Cardinality({k \in DOMAIN f : f[k] <= bound}) >= Percent * Cardinality(DOMAIN f)
AsFast(measured, other, field) ==
    \A k \in DOMAIN Metric(other, field) :
        LET bound == Metric(other, field)[k] IN
        Mostly(Metric(other, field), bound) => Mostly(Metric(measured, field), bound)

Fit(measured, want) ==
    /\ \A k \in DOMAIN measured :
          measured[k].success /\ measured[k].pass /\ measured[k].score >= want["quality_minimum_score"]
    /\ want["error_rate_max"] >= 0
    /\ \A k \in DOMAIN measured : measured[k].rate # None => measured[k].rate >= want["answer_tokens_per_second_min"]
    /\ \A field \in {"ttfa", "e2e", "rate"} : DOMAIN Metric(measured, field) # {}
    /\ Mostly(Metric(measured, "ttfa"), want["ttfa_p95_ms"])
    /\ Mostly(Metric(measured, "e2e"), want["end_to_end_p95_ms"])

\* What a live comparison recommends (live.py: quality and objectives are binding, then
\* TTFA, E2E and the lowest rate decide) is borne out by the requests themselves: every
\* one of them came back and passed every check, whatever error rate the contract allows,
\* no fit candidate was faster, the candidate it shows as closest is as fast, and when it
\* recommends none, or too little was measured, that is so.
RecommendedIsFit ==
    \A c \in Client : answer[c] # None /\ Compares(c) =>
        LET fit == {k \in DOMAIN rows[c] : Fit(rows[c][k].runs, Objectives(c))}
            row(print) == CHOOSE k \in DOMAIN rows[c] : rows[c][k].print = print
            runsOf(print) == rows[c][row(print)].runs
        IN CASE answer[c].verdict = "RECOMMENDED" ->
                  /\ row(answer[c].recommended) \in fit
                  /\ Len(runsOf(answer[c].recommended)) = Complete * ask[c].concurrency
                  /\ \A k \in fit : AsFast(runsOf(answer[c].recommended), rows[c][k].runs, "ttfa")
                  /\ row(answer[c].closest) \in fit
                  /\ \A field \in {"ttfa", "e2e"} :
                        AsFast(runsOf(answer[c].closest), runsOf(answer[c].recommended), field)
             [] answer[c].verdict = "NO_DEPLOYMENT_MEETS_REQUIREMENTS" -> fit = {}
             [] OTHER -> TRUE

\* Average, number and peak of one power reading are taken of the same samples, however
\* slow or stuck nvidia-smi is: what is not sampled by JoinLimit never is.
PowerOfOneSet ==
    \A c \in Client : \A i, j \in DOMAIN power[c] : power[c][i] = power[c][j]

\* Every request to the server comes to an end, unless an nvidia-smi that cannot be
\* killed holds the thread itself; one that holds the monitor delays it no further.
RequestsEnd == \A c \in Client : ask[c] # None ~> at[c] \in {"done", "stuck"}

\* What a plan is made for: at most the declared number of users, each point once.
Covers(plan, contract) ==
    LET users == ToSet(contract.users)
        out == contract.output
        in == contract.input
        Has(n, input, output, cache) ==
            \E i \in DOMAIN plan : /\ plan[i].concurrency = n /\ plan[i].cache = cache
                                   /\ plan[i].input = input /\ plan[i].output = output
    IN /\ \A i, j \in DOMAIN plan : i # j =>
            plan[i].id # plan[j].id /\ PointKey(plan[i]) # PointKey(plan[j])
       /\ \A n \in users : Has(n, in.p50, out.p50, "warm")
       /\ \A n \in {Min(users), Max(users)} : Has(n, in.p95, out.p95, "warm")
       /\ Has(Min(users), in.p95, out.p95, "cold")
       /\ Given(in.max) /\ Given(out.max) => Has(Min(users), in.max, out.max, "warm")
       /\ contract.reuse => Has(Min(users), in.p50, out.p50, "shared-prefix")

\* No request of the plan is beyond what the contract itself allows.
Runs(plan, contract) ==
    \A i \in DOMAIN plan :
        /\ plan[i].output <= contract.assistant
        /\ contract.context # None => plan[i].input + plan[i].output <= contract.context

\* Whatever percentiles coincide, whatever the order and the gaps of the users, a plan
\* covers the contract it is made from (workloads/planner.py) with every experiment under
\* an id and a key of its own, and every one can be run within the contract's context and
\* output limit if both maxima are declared; the translation of an intake that passes
\* validation is a valid contract.
PlanCoversEnvelope ==
    \A c \in Client : answer[c] # None /\ ask[c].kind \in {"plan", "capacity"} =>
        LET contract == IF ask[c].kind = "plan" THEN Contracts[ask[c].contract]
                                                ELSE Translate(Intakes[ask[c].intake])
        IN /\ answer[c].verdict \in {"PLANNED", "WRITTEN"} =>
                /\ Covers(answer[c].experiments, contract)
                /\ Given(contract.input.max) /\ Given(contract.output.max) =>
                      Runs(answer[c].experiments, contract)
           /\ ask[c].kind = "capacity" /\ IntakeOk(Intakes[ask[c].intake]) => Valid(contract)

\* The shortlist of planner.py is as long as it can be, nothing on it infeasible or twice,
\* the best candidate first, and each model that is feasible anywhere there with its best
\* tier and within 15 points of its best score; where the models are more than the longest
\* list, it has as many models, all of them with a better candidate than any left out.
\* Whoever is passed over for a lesser candidate loses to a model the list did not have yet,
\* or to a device it did not have yet and is itself on a device it did have.
ShortlistSound ==
    \A c \in Client : answer[c] # None /\ ask[c].kind = "capacity" /\ answer[c].verdict = "PLANNED" =>
        LET intake == Intakes[ask[c].intake]
            list == answer[c].shortlist
            feasible == {x \in Candidates(intake) : x.status # "NOT_FEASIBLE"}
            Best(S) == CHOOSE x \in S : \A y \in S \ {x} : Better(x, y)
            BestOf(model) == Best({x \in feasible : x.model = model})
        IN /\ Len(list) = Min({ShortlistSize(intake), Cardinality(feasible)})
           /\ IsInjective(list) /\ ToSet(list) \subseteq feasible
           /\ list # <<>> => list[1] = Best(feasible)
           /\ \A x \in feasible :
                LET best == BestOf(x.model) IN
                \/ \E i \in DOMAIN list : /\ list[i].model = x.model /\ list[i].status = best.status
                                          /\ list[i].score >= best.score - 1500
                \/ /\ Len(list) = Longest
                   /\ \A i \in DOMAIN list :
                        /\ Better(BestOf(list[i].model), best)
                        /\ \A j \in DOMAIN list \ {i} : list[j].model # list[i].model
           /\ \A i \in DOMAIN list : \A x \in feasible \ ToSet(list) :
                Better(x, list[i]) =>
                    \/ \A j \in 1..(i - 1) : list[j].model # list[i].model
                    \/ /\ \A j \in 1..(i - 1) : list[j].hardware # list[i].hardware
                       /\ \E j \in 1..(i - 1) : list[j].hardware = x.hardware

\* docs/ESTIMATOR-METHODOLOGY.md, "Shortlist rule": diversity can no longer promote a
\* weaker tier into the shortlist.  A candidate of a weaker tier than one that is left out
\* is there for its model alone, never for its device.
DiversityKeepsTier ==
    \A c \in Client : answer[c] # None /\ ask[c].kind = "capacity" /\ answer[c].verdict = "PLANNED" =>
        LET list == answer[c].shortlist
            out == {x \in Candidates(Intakes[ask[c].intake]) : x.status # "NOT_FEASIBLE"} \ ToSet(list)
        IN \A i \in DOMAIN list : \A x \in out :
              Rank[x.status] < Rank[list[i].status] =>
                  \A j \in 1..(i - 1) : list[j].model # list[i].model
=============================================================================
