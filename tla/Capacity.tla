------------------------------ MODULE Capacity ------------------------------
(***************************************************************************)
(* srh/capacity/planner.py: a client's intake translated into a Workload   *)
(* Contract, every combination of the hardware, models and weight formats  *)
(* to explore screened against it, and the shortlist of what to measure.   *)
(* Times are in ms, rates in thousandths of a token per second, memory in  *)
(* MiB, probabilities in per cent, scores in hundredths of a point; a      *)
(* quotient is rounded down where the code rounds to a digit.              *)
(***************************************************************************)
EXTENDS Workload

CONSTANTS
    HardwareItems,    \* catalog/hardware-v1.json
    ModelItems,       \* catalog/model-archetypes-v1.json
    SingleUserRate,   \* decode rate of one request, for each combination
    WordsPerPage, TokensPerWord, Overhead,   \* translation: 450, 134 %, 256
    Shortest, Longest                        \* shortlist: 3 and 8

Device == DOMAIN HardwareItems
Model == DOMAIN ModelItems

\* keepDecode and keepPrefill: the share of its rate a request keeps among n users.
HardwareItem == [usable : Nat \ {0}, power : Nat, anchored : BOOLEAN, latency : Nat,
                 multiplier : Nat \ {0}, keepDecode : Seq(1..100), keepPrefill : Seq(1..100)]
ModelItem == [sparse : BOOLEAN, bits : SUBSET Nat, context : Nat,
              parameters : Nat \ {0},    \* at 8 bits
              perToken : Nat]            \* of the KV cache, in KiB
Status == {"STRONG_FIT", "CONDITIONAL_FIT", "BORDERLINE_FIT", "UNLIKELY_FIT", "NOT_FEASIBLE"}

ASSUME CapacityAssumption ==
    /\ Device \subseteq Nat /\ \A h \in Device : HardwareItems[h] \in HardwareItem
    /\ Model \subseteq Nat /\ \A m \in Model : ModelItems[m] \in ModelItem
    /\ {WordsPerPage, TokensPerWord} \subseteq Nat \ {0} /\ Overhead \in Nat
    /\ {Shortest, Longest} \subseteq Nat \ {0} /\ Shortest <= Longest
    /\ \A h \in Device, m \in Model : \A bits \in ModelItems[m].bits : SingleUserRate[<<h, m, bits>>] \in Nat

Intake == [identified : BOOLEAN, total : Int, concurrent : Int,
           pages : Distribution \cup {None}, retrieved : Distribution \cup {None},
           retrieval : BOOLEAN, words : Distribution \cup {None},
           shared : Int, repeated : Int, first : Int, complete : Int, errors : Int, score : Int,
           hardware : Seq(Nat), models : Seq(Nat), bits : Seq(Int), power : Int \cup {None}]

-----------------------------------------------------------------------------
(* validate_intake and translate_intake. *)

\* _distribution: all three are required.
Graded(d) ==
    /\ d # None /\ d.p50 # None /\ d.p95 # None /\ Given(d.max)
    /\ 0 < d.p50 /\ d.p50 <= d.p95 /\ d.p95 <= d.max

IntakeOk(intake) ==
    /\ intake.identified
    /\ 0 < intake.concurrent /\ intake.concurrent <= intake.total
    /\ Graded(intake.pages) /\ Graded(intake.retrieved) /\ Graded(intake.words)
    /\ {intake.shared, intake.repeated, intake.errors, intake.score} \subseteq 0..100
    /\ 0 < intake.first /\ intake.first < intake.complete
    /\ intake.hardware # <<>> /\ intake.models # <<>> /\ intake.bits # <<>>
    /\ \A i \in DOMAIN intake.bits : intake.bits[i] > 0

Ceil(a, b) == (a + b - 1) \div b
Graduated(d, Size(_)) == [p50 |-> Size(d.p50), p95 |-> Size(d.p95), max |-> Size(d.max)]

Translate(intake) ==
    LET pages == IF intake.retrieval THEN intake.retrieved ELSE intake.pages
        input == Graduated(pages, LAMBDA n :
                    Ceil(n * WordsPerPage * TokensPerWord, 100) + Overhead)
        output == Graduated(intake.words, LAMBDA n : Ceil(n * TokensPerWord, 100))
    IN [identified |-> intake.identified,
        users |-> IF intake.concurrent = 1 THEN <<1>> ELSE <<1, intake.concurrent>>,
        input |-> input, output |-> output,
        objectives |->
            [ttfa_p95_ms |-> 1000 * intake.first, end_to_end_p95_ms |-> 1000 * intake.complete,
             answer_tokens_per_second_min |->
                Max({1000, (1000 * output.p50) \div (intake.complete - intake.first)}),
             error_rate_max |-> intake.errors, quality_minimum_score |-> intake.score],
        reuse |-> intake.shared > 0 \/ intake.repeated > 0,
        context |-> input.max + output.max,
        tools |-> FALSE, calls |-> FALSE,
        modes |-> {"probe", "assistant"}, mode |-> "assistant",
        probe |-> Min({128, output.p50}), assistant |-> output.max, null |-> FALSE]

-----------------------------------------------------------------------------
(* _estimate_candidate. *)

Uncertainty(hardware, model) ==
    IF model.sparse THEN 60 ELSE IF hardware.anchored THEN 30 ELSE 45

\* Weights, the cache of all users at their p95, and the runtime's own.
MemoryOf(model, bits, contract) ==
    LET weights == (model.parameters * bits * 27) \div 200
        tokens == contract.input.p95 + contract.output.p95
    IN weights + (model.perToken * tokens * Max(ToSet(contract.users))) \div 1024
       + Max({4096, (weights * 12) \div 100})

Possible(hardware, model, bits, contract, limit) ==
    /\ bits \in model.bits
    /\ contract.input.max + contract.output.max <= model.context
    /\ MemoryOf(model, bits, contract) <= hardware.usable
    /\ limit # None => hardware.power <= limit

\* The point estimates, from the rate of a single user.
Projected(hardware, single, contract) ==
    LET users == Max(ToSet(contract.users))
        rate == (single * hardware.keepDecode[users]) \div 100
        prefill == (single * hardware.multiplier * hardware.keepPrefill[users]) \div 100
        ttfa == hardware.latency + (contract.input.p95 * 1000000) \div Max({prefill, 1000})
    IN [ttfa |-> ttfa, e2e |-> ttfa + (contract.output.p95 * 1000000) \div Max({rate, 100}), rate |-> rate]

\* At this much over the point estimate, or under it.
KeepsAt(share, metrics, want) ==
    /\ metrics.ttfa * (100 + share) <= 100 * want["ttfa_p95_ms"]
    /\ metrics.e2e * (100 + share) <= 100 * want["end_to_end_p95_ms"]
    /\ metrics.rate * (100 - share) >= 100 * want["answer_tokens_per_second_min"]

Points(usable, spare, metrics, want) ==
    Max({-5000, (5000 * spare) \div usable})
    + Min({5000, (2500 * want["end_to_end_p95_ms"]) \div Max({metrics.e2e, 1})})
    + Min({5000, (2500 * metrics.rate) \div want["answer_tokens_per_second_min"]})

Estimate(h, m, bits, contract, limit) ==
    LET hardware == HardwareItems[h]
        model == ModelItems[m]
        want == contract.objectives
        possible == Possible(hardware, model, bits, contract, limit)
        metrics == Projected(hardware, SingleUserRate[<<h, m, bits>>], contract)
        spread == Uncertainty(hardware, model)
        spare == hardware.usable - MemoryOf(model, bits, contract)
    IN [hardware |-> h, model |-> m, bits |-> bits,
        status |-> IF ~possible THEN "NOT_FEASIBLE"
                   ELSE IF KeepsAt(spread, metrics, want) /\ 100 * spare >= 15 * hardware.usable
                   THEN "STRONG_FIT"
                   ELSE IF KeepsAt(0, metrics, want) THEN "CONDITIONAL_FIT"
                   ELSE IF KeepsAt(-spread, metrics, want) THEN "BORDERLINE_FIT"
                   ELSE "UNLIKELY_FIT",
        score |-> IF possible THEN Points(hardware.usable, spare, metrics, want) ELSE -100000]

-----------------------------------------------------------------------------
(* _shortlist. *)

\* Ascending in each value in turn; a None counts as infinite.
Less(x, y) == x # None /\ (y = None \/ x < y)
Precedes(left, right) ==
    \E i \in DOMAIN left : Less(left[i], right[i]) /\ \A j \in 1..(i - 1) : left[j] = right[j]

Rank == [STRONG_FIT |-> 0, CONDITIONAL_FIT |-> 1, BORDERLINE_FIT |-> 2, UNLIKELY_FIT |-> 3]
Better(x, y) ==
    Precedes(<<Rank[x.status], -x.score, x.hardware, x.model, x.bits>>,
             <<Rank[y.status], -y.score, y.hardware, y.model, y.bits>>)

\* Mutant: any score of the same tier for the sake of another device.
ComparableOnTier(candidate, best) == candidate.status = best.status

Comparable(candidate, best) ==
    candidate.status = best.status /\ candidate.score >= best.score - 1500

Devices(selected) == {selected[i].hardware : i \in DOMAIN selected}

\* The best of a model's, or the first comparable one on a device not selected yet.
Representative(eligible, best, selected) ==
    LET diverse == {i \in DOMAIN eligible :
                        /\ eligible[i].model = best.model /\ Comparable(eligible[i], best)
                        /\ eligible[i].hardware \notin Devices(selected)}
    IN IF diverse = {} THEN best ELSE eligible[Min(diverse)]

\* One for each model, in the order of their best, until there are as many as wanted.
OnePerModel(eligible, size) ==
    LET best == Distinct(eligible, [i \in DOMAIN eligible |-> eligible[i].model])
        chosen[k \in 0..Len(best)] ==
            IF k = 0 THEN <<>>
            ELSE LET so == chosen[k - 1] IN Append(so, Representative(eligible, best[k], so))
    IN chosen[Min({size, Len(best)})]

\* Adds what no selected candidate shares the mark of, until the size is reached, which
\* it looks at after every candidate.
Fill(eligible, start, size, mark) ==
    LET selected[k \in 0..Len(eligible)] ==
            IF k = 0 THEN start
            ELSE LET so == selected[k - 1] IN
                 IF k > 1 /\ Len(so) = size THEN so
                 ELSE IF \E i \in DOMAIN so : mark[so[i]] = mark[eligible[k]] THEN so
                 ELSE Append(so, eligible[k])
    IN selected[Len(eligible)]

\* eligible.sort: the best first.
BestFirst(S) ==
    [k \in 1..Cardinality(S) |-> CHOOSE x \in S : Cardinality({y \in S : Better(y, x)}) = k - 1]

\* Candidates listed twice are equal, and taken once.
Shortlist(candidates, size) ==
    LET feasible == {x \in candidates : x.status # "NOT_FEASIBLE"}
        eligible == BestFirst(feasible)
        models == OnePerModel(eligible, size)
        diverse == Fill(eligible, models, size, [x \in feasible |-> x.hardware])
    IN IF Len(models) = size THEN models ELSE Fill(eligible, diverse, size, [x \in feasible |-> x])

-----------------------------------------------------------------------------
(* build_capacity_plan. *)

Plannable(intake) ==
    /\ IntakeOk(intake)
    /\ Valid(Translate(intake))
    /\ ToSet(intake.hardware) \subseteq Device /\ ToSet(intake.models) \subseteq Model
    /\ intake.power # None => intake.power > 0

Candidates(intake) ==
    {Estimate(x[1], x[2], x[3], Translate(intake), intake.power) :
        x \in ToSet(intake.hardware) \X ToSet(intake.models) \X ToSet(intake.bits)}

ShortlistSize(intake) == Min({Longest, Max({Shortest, Len(intake.models)})})
=============================================================================
