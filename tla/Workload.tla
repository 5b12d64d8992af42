------------------------------ MODULE Workload ------------------------------
(***************************************************************************)
(* srh/workloads: what contract.py accepts as a Workload Contract, and the *)
(* experiments planner.py derives from one.                                *)
(***************************************************************************)
EXTENDS Integers, SequencesExt

CONSTANTS
    None,   \* nothing, or nothing of the type asked for
    Null    \* a JSON null, where the code tells it from nothing

Objective == {"ttfa_p95_ms", "end_to_end_p95_ms", "answer_tokens_per_second_min",
              "error_rate_max", "quality_minimum_score"}
Distribution == [p50 : Int \cup {None}, p95 : Int \cup {None}, max : Int \cup {None, Null}]

ASSUME WorkloadAssumption == None \notin Int /\ Null \notin Int /\ None # Null /\ None \notin Distribution

\* "reuse" says that the declared probability of a repeated context or a shared prefix is
\* positive, "null" that context_behavior, tools or quality is a JSON null, which
\* validate_contract lets pass and then reads from; the quality requirement is listed
\* with the objectives, None where the contract has no quality section.
Contract == [identified : BOOLEAN, users : Seq(Int),
             input : Distribution \cup {None}, output : Distribution \cup {None},
             objectives : [Objective -> Int \cup {None}],
             reuse : BOOLEAN, context : Int \cup {None},
             tools : BOOLEAN, calls : BOOLEAN,
             modes : SUBSET {"probe", "assistant"}, mode : {"probe", "assistant"},
             probe : Int \cup {None}, assistant : Int \cup {None}, null : BOOLEAN]

-----------------------------------------------------------------------------
(* validate_contract: the warnings are left out. *)

Positive(value) == value # None /\ value >= 1

\* _validate_distribution.  A null maximum is taken for one that is not given.
Given(maximum) == maximum \notin {None, Null}
Sound(d) ==
    /\ d # None
    /\ Positive(d.p50) /\ Positive(d.p95) /\ d.p50 <= d.p95
    /\ Given(d.max) => d.max >= 1 /\ d.p95 <= d.max

\* Traffic, request profile and objectives.
DemandValid(contract) ==
    /\ contract.identified
    /\ contract.users # <<>> /\ IsInjective(contract.users)
    /\ \A i \in DOMAIN contract.users : contract.users[i] >= 1
    /\ Sound(contract.input) /\ Sound(contract.output)
    /\ \E o \in Objective \ {"quality_minimum_score"} : contract.objectives[o] # None

\* Context, tools and response contract.
LimitsValid(contract) ==
    /\ contract.context # None /\ Given(contract.input.max) /\ Given(contract.output.max) =>
          contract.input.max + contract.output.max <= contract.context
    /\ contract.calls => contract.tools
    /\ contract.mode \in contract.modes
    /\ Positive(contract.probe) /\ Positive(contract.assistant)
    /\ Given(contract.output.max) => contract.output.max <= contract.assistant

Valid(contract) == DemandValid(contract) /\ LimitsValid(contract)

-----------------------------------------------------------------------------
(* build_plan. *)

Label == {"baseline-p50", "concurrency-p50", "tail-p95", "max-envelope", "cold-p95",
          "shared-prefix-p50", "shared-prefix-p95"}
Point(id, users, input, output, cache) ==
    [id |-> id, concurrency |-> users, input |-> input, output |-> output, cache |-> cache]

\* The elements of S, smallest first.
Ascending(S) ==
    [k \in 1..Cardinality(S) |-> CHOOSE x \in S : Cardinality({y \in S : y < x}) = k - 1]

\* Of all that have the same key, the first one.
Distinct(seq, keys) ==
    LET kept == Ascending({i \in DOMAIN keys : \A j \in 1..(i - 1) : keys[j] # keys[i]})
    IN [k \in DOMAIN kept |-> seq[kept[k]]]

\* Mutant: a cold request is a duplicate of a warm one.
SizeOnly(p) == <<p.concurrency, p.input, p.output>>

PointKey(p) == <<p.concurrency, p.input, p.output, p.cache>>

\* .get("max", p95) returns a null that is there.
Largest(d) == IF d.max = None THEN d.p95 ELSE d.max

Experiments(contract) ==
    LET users == ToSet(contract.users)
        least == Min(users)
        most == Max(users)
        more == Ascending(users \ {least})
        in == contract.input
        out == contract.output
        Optional(condition, p) == IF condition THEN <<p>> ELSE <<>>
    IN  <<Point(<<"baseline-p50", 1>>, least, in.p50, out.p50, "warm")>>
        \o [k \in DOMAIN more |->
              Point(<<"concurrency-p50", more[k]>>, more[k], in.p50, out.p50, "warm")]
        \o <<Point(<<"tail-p95", 1>>, least, in.p95, out.p95, "warm")>>
        \o Optional(most # least, Point(<<"tail-p95", most>>, most, in.p95, out.p95, "warm"))
        \o Optional(Largest(in) # in.p95 \/ Largest(out) # out.p95,
                    Point(<<"max-envelope", 1>>, least, Largest(in), Largest(out), "warm"))
        \o <<Point(<<"cold-p95", 1>>, least, in.p95, out.p95, "cold")>>
        \o Optional(contract.reuse,
                    Point(<<"shared-prefix-p50", least>>, least, in.p50, out.p50, "shared-prefix"))
        \o Optional(contract.reuse,
                    Point(<<"shared-prefix-p95", most>>, most, in.p95, out.p50, "shared-prefix"))

BuildPlan(contract) ==
    LET all == Experiments(contract)
    IN Distinct(all, [i \in DOMAIN all |-> PointKey(all[i])])
=============================================================================
