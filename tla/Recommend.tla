------------------------------ MODULE Recommend ------------------------------
(***************************************************************************)
(* The decision over recorded evidence: srh/recommendation/engine.py for   *)
(* runtime profiles of one system, deployment.py for deployments across    *)
(* systems, both over evidence.py, which replays the raw requests.         *)
(*                                                                         *)
(* A profile is its hash, a number.  Latencies and rates are in units of   *)
(* which Grain make the last digit the code keeps.                         *)
(***************************************************************************)
EXTENDS Naturals, Sequences, FiniteSets

CONSTANTS
    Profile,         \* profile hashes
    Condition,       \* experiment, scenario, comparison and protocol
    System,          \* hardware, model, engine and image
    Check,           \* checks of the evaluator
    Required,        \* checks the contract makes mandatory
    Target,          \* service objectives of the contract
    Percent,         \* 95, the percentile of the objectives
    Grain,           \* rounding of a metric
    MinRepetitions,  \* 5
    Inputs,          \* the sequences of evidence tried
    Manifests,       \* the candidate manifests tried
    None, Refused

Mode == {"probe", "assistant"}
Policy == {"profile", "performance_first", "cost_first"}
\* NOTHING_MEETS_REQUIREMENTS is NO_PROFILE_MEETS_SLO of the one decision and
\* NO_DEPLOYMENT_MEETS_REQUIREMENTS of the other.
Verdict == {"RECOMMENDED", "NOTHING_MEETS_REQUIREMENTS", "INSUFFICIENT_EVIDENCE"}
Objective == {"ttfa_p95_ms", "end_to_end_p95_ms", "answer_tokens_per_second_min",
              "error_rate_max", "quality_minimum_score", "required_quality_checks",
              "license_review_status"}

Request == [no : Nat, success : BOOLEAN, ttfa : Nat, e2e : Nat, rate : Nat,
            checks : SUBSET Check, stop : BOOLEAN]
Batch == [repetition : Nat, requests : Seq(Request)]

\* "sound" stands for the gates that do not compare requests: schema, hashes, a live
\* runtime that did not change, the plan's experiment, the contract's terms, and
\* fields that are present and finite.
Evidence == [sound : BOOLEAN, profile : Profile, condition : Condition, system : System,
             repetitions : Nat, concurrency : Nat \ {0}, batches : [Mode -> Seq(Batch)]]
Report == [verdict : Verdict, comparable : BOOLEAN, ranking : Seq(Profile)]
Metadata == [approved : BOOLEAN, cost : Nat \cup {None}]

ASSUME RecommendAssumption ==
    /\ Profile \subseteq Nat
    /\ IsFiniteSet(Check) /\ Required \subseteq Check
    /\ Target \in [ttfa : Nat, e2e : Nat, rate : Nat, errors : 0..100, score : Nat, mode : Mode]
    /\ Percent \in 1..100 /\ Grain \in Nat \ {0} /\ MinRepetitions \in Nat \ {0}
    /\ Inputs \subseteq Seq(Evidence)
    /\ \A m \in Manifests : DOMAIN m \subseteq Profile /\ \A p \in DOMAIN m : m[p] \in Metadata
    /\ None \notin Nat /\ None # Refused /\ {None, Refused} \cap Report = {}

VARIABLES
    policy,     \* which decision is asked for
    manifest,   \* metadata of the deployments, by profile
    evidences,  \* the files, in the order given
    next,       \* index of the next one to examine
    rows,       \* candidates so far
    rejected,   \* indices of rejected evidence
    report      \* None until decided; Refused for an unusable manifest

input == <<policy, manifest, evidences>>
vars == <<policy, manifest, evidences, next, rows, rejected, report>>

-----------------------------------------------------------------------------
(* evidence.py and executor.py: the replay of one evidence file. *)

Replayable(ev, mode) ==
    /\ ev.repetitions >= MinRepetitions
    /\ Len(ev.batches[mode]) = ev.repetitions
    /\ \A i \in 1..ev.repetitions :
         LET batch == ev.batches[mode][i] IN
         /\ batch.repetition = i
         /\ Len(batch.requests) = ev.concurrency
         /\ {batch.requests[k].no : k \in 1..ev.concurrency} = 1..ev.concurrency
         /\ \A k \in 1..ev.concurrency :
              batch.requests[k].success => batch.requests[k].ttfa <= batch.requests[k].e2e

\* Requests are named by batch and place; those of the contract's own mode count.
Sent(ev) == (1..ev.repetitions) \X (1..ev.concurrency)
At(ev, p) == ev.batches[Target.mode][p[1]].requests[p[2]]
Answered(ev) == {p \in Sent(ev) : At(ev, p).success}

Ttfa(ev) == [p \in Answered(ev) |-> At(ev, p).ttfa]
EndToEnd(ev) == [p \in Answered(ev) |-> At(ev, p).e2e]
Rate(ev) == [p \in Answered(ev) |-> At(ev, p).rate]

\* A truncated answer scores nothing, whatever it holds.
Score(r) == IF r.stop THEN Cardinality(r.checks) ELSE 0
Scores(ev) == [p \in Answered(ev) |-> Score(At(ev, p))]

\* Mutant: the rank is rounded down.
RankDown(n) == IF Percent * n < 100 THEN 1 ELSE (Percent * n) \div 100

\* Nearest rank: max(1, ceil(pct / 100 * n)).
Rank(n) == IF Percent * n < 100 THEN 1 ELSE (Percent * n + 99) \div 100

\* The value at that rank of the sorted values of f.
Percentile(f) ==
    CHOOSE v \in {f[p] : p \in DOMAIN f} :
        /\ Cardinality({p \in DOMAIN f : f[p] < v}) < Rank(Cardinality(DOMAIN f))
        /\ Cardinality({p \in DOMAIN f : f[p] <= v}) >= Rank(Cardinality(DOMAIN f))

Minimum(f) == CHOOSE v \in {f[p] : p \in DOMAIN f} : \A p \in DOMAIN f : v <= f[p]

Rounded(x) == Grain * ((2 * x + Grain) \div (2 * Grain))

-----------------------------------------------------------------------------
(* paired_modes.slo_assessment and engine.candidate: one candidate. *)

\* required_quality_pass_rate = 1.0
Complete(ev) == \A p \in Answered(ev) : Required \subseteq At(ev, p).checks /\ At(ev, p).stop

\* Without an answer there is no metric, and nothing but the error rate can be met.
Meets(ev, objective) ==
    LET answered == Answered(ev) # {} IN
    CASE objective = "ttfa_p95_ms" -> answered /\ Rounded(Percentile(Ttfa(ev))) <= Target.ttfa
      [] objective = "end_to_end_p95_ms" ->
           answered /\ Rounded(Percentile(EndToEnd(ev))) <= Target.e2e
      [] objective = "answer_tokens_per_second_min" ->
           answered /\ Rounded(Minimum(Rate(ev))) >= Target.rate
      [] objective = "error_rate_max" ->
           100 * Cardinality(Sent(ev) \ Answered(ev)) <= Target.errors * Cardinality(Sent(ev))
      [] objective = "quality_minimum_score" -> answered /\ Minimum(Scores(ev)) >= Target.score
      [] objective = "required_quality_checks" -> answered /\ Complete(ev)
      [] OTHER -> TRUE

Deployment == policy # "profile"

\* Mutant: a name that is no objective.
BlockingMisnamed(ev) ==
    {o \in Objective : ~Meets(ev, o)}
        \cup (IF Deployment /\ ~manifest[ev.profile].approved THEN {"license"} ELSE {})

\* A licence that is not approved blocks a deployment like a missed objective.
Blocking(ev) ==
    {o \in Objective : ~Meets(ev, o)}
        \cup (IF Deployment /\ ~manifest[ev.profile].approved THEN {"license_review_status"} ELSE {})

Candidate(i) ==
    LET ev == evidences[i]
        answered == Answered(ev) # {}
    IN [source |-> i,
        profile |-> ev.profile,
        blocking |-> Blocking(ev),
        ttfa |-> IF answered THEN Rounded(Percentile(Ttfa(ev))) ELSE None,
        e2e |-> IF answered THEN Rounded(Percentile(EndToEnd(ev))) ELSE None,
        rate |-> IF answered THEN Rounded(Minimum(Rate(ev))) ELSE None,
        cost |-> IF Deployment THEN manifest[ev.profile].cost ELSE None]

Eligible(row) == row.blocking = {}

\* What evidence must have in common: profiles share the system too.
Signature(ev) ==
    [condition |-> ev.condition, repetitions |-> ev.repetitions, concurrency |-> ev.concurrency,
     system |-> IF Deployment THEN None ELSE ev.system]

Acceptable(i) ==
    LET ev == evidences[i] IN
    /\ ev.sound
    /\ \A mode \in Mode : Replayable(ev, mode)
    /\ Deployment => ev.profile \in DOMAIN manifest

NoManifest == [p \in {} |-> None]

Examined == {rows[k].profile : k \in DOMAIN rows}

-----------------------------------------------------------------------------

Optional(S) == S \cup {None}
Row == [source : Nat, profile : Profile, blocking : SUBSET Objective,
        ttfa : Optional(Nat), e2e : Optional(Nat), rate : Optional(Nat), cost : Optional(Nat)]

TypeOK ==
    /\ policy \in Policy
    /\ manifest \in Manifests \cup {NoManifest}
    /\ evidences \in Seq(Evidence)
    /\ next \in 1..(Len(evidences) + 1)
    /\ rows \in Seq(Row)
    /\ rejected \subseteq 1..Len(evidences)
    /\ report \in {None, Refused} \cup Report

Init ==
    /\ policy \in Policy
    /\ manifest \in IF policy = "profile" THEN {NoManifest} ELSE Manifests
    /\ evidences \in Inputs
    /\ next = 1 /\ rows = <<>> /\ rejected = {} /\ report = None

\* _manifest_by_profile: at least two deployments must be described.
Usable == Deployment => Cardinality(DOMAIN manifest) >= 2

RefuseManifest ==
    /\ report = None
    /\ ~Usable
    /\ report' = Refused
    /\ UNCHANGED <<input, next, rows, rejected>>

Examine ==
    /\ report = None
    /\ Usable
    /\ next <= Len(evidences)
    /\ next' = next + 1
    /\ UNCHANGED <<input, report>>

Accept ==
    /\ Examine
    /\ Acceptable(next)
    /\ evidences[next].profile \notin Examined
    /\ rows' = Append(rows, Candidate(next))
    /\ UNCHANGED rejected

Reject ==
    /\ Examine
    /\ ~Acceptable(next) \/ evidences[next].profile \in Examined
    /\ rejected' = rejected \cup {next}
    /\ UNCHANGED rows

-----------------------------------------------------------------------------
(* The verdict. *)

SignatureOf(k) == Signature(evidences[rows[k].source])
Comparable == rows # <<>> /\ \A k \in DOMAIN rows : SignatureOf(k) = SignatureOf(1)
MinimumCandidates == IF Deployment THEN 2 ELSE 3
Sufficient == Comparable /\ Len(rows) >= MinimumCandidates /\ rejected = {}

\* A cost that is not given counts as infinite.
Cheaper(c, d) == c # None /\ (d = None \/ c < d)

\* Mutant: E2E decides before TTFA.
BeforeByE2E(r, s) ==
    \/ r.e2e < s.e2e
    \/ r.e2e = s.e2e /\ r.ttfa < s.ttfa
    \/ r.e2e = s.e2e /\ r.ttfa = s.ttfa /\ r.profile < s.profile

\* The keys of sorted(): lexicographic, the hash last.
Before(r, s) ==
    LET byHash == r.profile < s.profile
        byCost == Cheaper(r.cost, s.cost) \/ (r.cost = s.cost /\ byHash)
        byRate == r.rate > s.rate \/ (r.rate = s.rate /\ byCost)
        byE2E(rest) == r.e2e < s.e2e \/ (r.e2e = s.e2e /\ rest)
        byTtfa(rest) == r.ttfa < s.ttfa \/ (r.ttfa = s.ttfa /\ rest)
    IN IF policy = "cost_first"
       THEN Cheaper(r.cost, s.cost) \/ (r.cost = s.cost /\ byTtfa(byE2E(byHash)))
       ELSE byTtfa(byE2E(byRate))

EligibleRows == {rows[k] : k \in {j \in DOMAIN rows : Eligible(rows[j])}}

\* sorted(eligible): the place of a row is the number of rows before it.
Ranked ==
    [n \in 1..Cardinality(EligibleRows) |->
        CHOOSE r \in EligibleRows : Cardinality({s \in EligibleRows : Before(s, r)}) = n - 1]

MissingCost == policy = "cost_first" /\ \E r \in EligibleRows : r.cost = None

Decision ==
    [verdict |-> IF ~Sufficient \/ MissingCost THEN "INSUFFICIENT_EVIDENCE"
                 ELSE IF EligibleRows # {} THEN "RECOMMENDED"
                 ELSE "NOTHING_MEETS_REQUIREMENTS",
     comparable |-> Comparable,
     ranking |-> IF Sufficient /\ ~MissingCost
                 THEN [n \in DOMAIN Ranked |-> Ranked[n].profile] ELSE <<>>]

Decide ==
    /\ report = None
    /\ Usable
    /\ next > Len(evidences)
    /\ report' = Decision
    /\ UNCHANGED <<input, next, rows, rejected>>

Next == RefuseManifest \/ Accept \/ Reject \/ Decide

Spec == Init /\ [][Next]_vars

-----------------------------------------------------------------------------
(* Properties. *)

\* The same decision without order: the evidence as a set, the winner as what is
\* left when each criterion in turn keeps its best.
Given == 1..Len(evidences)
Sound ==
    /\ \A i \in Given : Acceptable(i)
    /\ \A i, j \in Given :
          /\ i # j => evidences[i].profile # evidences[j].profile
          /\ Signature(evidences[i]) = Signature(evidences[j])
    /\ Cardinality(Given) >= MinimumCandidates
Fit == {i \in Given : Blocking(evidences[i]) = {}}
Priced == policy = "cost_first" => \A i \in Fit : manifest[evidences[i].profile].cost # None

BestTtfa(S) == {i \in S : \A j \in S : Candidate(i).ttfa <= Candidate(j).ttfa}
BestEndToEnd(S) == {i \in S : \A j \in S : Candidate(i).e2e <= Candidate(j).e2e}
BestRate(S) == {i \in S : \A j \in S : Candidate(i).rate >= Candidate(j).rate}
BestCost(S) == {i \in S : \A j \in S : ~Cheaper(Candidate(j).cost, Candidate(i).cost)}
Best(S) == IF policy = "cost_first" THEN BestEndToEnd(BestTtfa(BestCost(S)))
                                    ELSE BestCost(BestRate(BestEndToEnd(BestTtfa(S))))

Decided == report \notin {None, Refused}

\* The decision depends on the set of evidence files and not on their order, though
\* they are examined one by one, a repeated profile loses to its first file, and all
\* are compared with the first (engine.py:98-129, deployment.py:61-117).
DecisionIsOfTheSet ==
    Decided =>
        /\ report.verdict = "INSUFFICIENT_EVIDENCE" <=> ~Sound \/ ~Priced
        /\ report.verdict = "NOTHING_MEETS_REQUIREMENTS" => Fit = {}
        /\ report.verdict = "RECOMMENDED" =>
             /\ {report.ranking[n] : n \in DOMAIN report.ranking} =
                    {evidences[i].profile : i \in Fit}
             /\ \E i \in Best(Fit) :
                    /\ report.ranking[1] = evidences[i].profile
                    /\ \A j \in Best(Fit) : evidences[i].profile <= evidences[j].profile

\* The raw requests of what is recommended bear it out (recommendation/README.md,
\* "Produce a decision"): every answer is whole and passes the mandatory checks, the
\* failures stay within the error rate, no answer is slower than the rate asked, and
\* Percent of the answers are as fast as asked, to half a last digit.
RecommendedIsBorneOut ==
    Decided /\ report.verdict = "RECOMMENDED" =>
        \A i \in Given : evidences[i].profile = report.ranking[1] =>
            LET ev == evidences[i]
                n == Cardinality(Answered(ev))
            IN /\ n > 0
               /\ 100 * (Cardinality(Sent(ev)) - n) <= Target.errors * Cardinality(Sent(ev))
               /\ \A p \in Answered(ev) :
                     /\ At(ev, p).stop /\ Required \subseteq At(ev, p).checks
                     /\ Cardinality(At(ev, p).checks) >= Target.score
                     /\ 2 * At(ev, p).rate + Grain >= 2 * Target.rate
               /\ 100 * Cardinality({p \in Answered(ev) :
                                       2 * At(ev, p).ttfa <= 2 * Target.ttfa + Grain}) >= Percent * n
               /\ 100 * Cardinality({p \in Answered(ev) :
                                       2 * At(ev, p).e2e <= 2 * Target.e2e + Grain}) >= Percent * n
=============================================================================
