------------------------------ MODULE Workbench ------------------------------
(***************************************************************************)
(* The page of srh/capacity/web: one assessment in a browser tab.  Every   *)
(* handler sends a request, lets other handlers run while it awaits the    *)
(* answer, and then updates the page.  The server gives each request a     *)
(* thread of its own, so the answers come in any order, or not at all.     *)
(***************************************************************************)
EXTENDS Naturals, FiniteSets

CONSTANTS Client,      \* workload contracts the form can translate to
          Demo,        \* the contract of the bundled demo
          Model,       \* local models that can be measured
          None,
          MaxRequests  \* bound: requests in flight

Contract == Client \cup {Demo}
Verdict == {"RECOMMENDED", "NO_DEPLOYMENT_MEETS_REQUIREMENTS", "INSUFFICIENT_EVIDENCE"}
Recommendation == [contract : Contract, verdict : Verdict]

Request ==
    [kind : {"plan", "simulate"}, contract : Client] \cup
    [kind : {"list"}] \cup
    [kind : {"evaluate"}, contract : Contract] \cup
    [kind : {"test"}, contract : Client, model : Model] \cup
    [kind : {"compare"}, contract : Client, models : SUBSET Model]

ASSUME WorkbenchAssumption ==
    /\ Demo \notin Client
    /\ None \notin Contract
    /\ None \notin Request
    /\ None \notin Recommendation
    /\ IsFiniteSet(Model)
    /\ MaxRequests \in Nat

VARIABLES
    flight,          \* requests not yet answered
    plan,            \* latestPlan, by its contract
    recommendation,  \* latestRecommendation
    runs,            \* localBenchmarkRuns: the contract each model was measured for
    simulated,       \* referenceSimulationRuns: the contract simulated
    ticked,          \* candidates ticked for the comparison
    testOff,         \* the benchmark button is disabled
    compareOff,      \* the comparison button is disabled
    report           \* the composed report

evidence == <<recommendation, runs, simulated>>
buttons == <<ticked, testOff, compareOff>>
vars == <<flight, plan, recommendation, runs, simulated, ticked, testOff, compareOff, report>>

NoRuns == [m \in Model |-> None]

-----------------------------------------------------------------------------
(* workflow.js *)

\* Mutant: any recommendation is taken for the assessment's.
CurrentUnchecked(p, rec) == p # None /\ rec # None

\* currentRecommendationIsForAssessment()
Current(p, rec) ==
    /\ p # None
    /\ rec # None
    /\ rec.contract = p

\* workflowStatus(); VERIFIED_RECOMMENDATION stands for LAB_RECOMMENDATION too.
WorkflowStatus(p, rec, observed) ==
    IF Current(p, rec)
    THEN CASE rec.verdict = "RECOMMENDED" -> "VERIFIED_RECOMMENDATION"
           [] rec.verdict = "NO_DEPLOYMENT_MEETS_REQUIREMENTS" -> "VERIFIED_NO_MATCH"
           [] OTHER -> "MEASURED_INCONCLUSIVE"
    ELSE IF \E m \in Model : observed[m] # None
    THEN "READINESS_OBSERVED"
    ELSE "PRELIMINARY_SCREENING"

\* What buildConsultingReport() writes.
Composed(p, rec, observed, sim) ==
    [plan |-> p,
     status |-> WorkflowStatus(p, rec, observed),
     decision |-> IF Current(p, rec) THEN rec ELSE None,
     runs |-> observed,
     simulated |-> sim]

Statuses == {"VERIFIED_RECOMMENDATION", "VERIFIED_NO_MATCH", "MEASURED_INCONCLUSIVE",
             "READINESS_OBSERVED", "PRELIMINARY_SCREENING"}
Report == [plan : Client, status : Statuses, decision : {None} \cup Recommendation,
           runs : [Model -> Client \cup {None}], simulated : Client \cup {None}]

TypeOK ==
    /\ flight \in [1..MaxRequests -> {None} \cup Request]
    /\ plan \in {None} \cup Client
    /\ recommendation \in {None} \cup Recommendation
    /\ runs \in [Model -> Client \cup {None}]
    /\ simulated \in {None} \cup Client
    /\ ticked \in SUBSET Model
    /\ testOff \in BOOLEAN
    /\ compareOff \in BOOLEAN
    /\ report = None \/ report \in Report

Init ==
    /\ flight = [i \in 1..MaxRequests |-> None]
    /\ plan = None
    /\ recommendation = None
    /\ runs = NoRuns
    /\ simulated = None
    /\ ticked = {}
    /\ testOff = FALSE
    /\ compareOff = TRUE
    /\ report = None

\* refreshBuiltReport(): only a report that was composed before is composed again.
RefreshBuiltReport ==
    report' = IF report = None THEN None
              ELSE Composed(plan', recommendation', runs', simulated')

\* compose-report, print and beforeprint.
ComposeReport ==
    /\ plan # None
    /\ report' = Composed(plan, recommendation, runs, simulated)
    /\ UNCHANGED <<flight, plan, evidence, buttons>>

-----------------------------------------------------------------------------
(* app.js: the handlers up to their first await. *)

\* The first free place; which one it is makes no difference.
Send(request) ==
    \E i \in 1..MaxRequests :
        /\ flight[i] = None
        /\ \A j \in 1..i - 1 : flight[j] # None
        /\ flight' = [flight EXCEPT ![i] = request]

SubmitIntake(c) ==
    /\ Send([kind |-> "plan", contract |-> c])
    /\ UNCHANGED <<plan, evidence, buttons, report>>

RefreshRuntimeChoices ==
    /\ Send([kind |-> "list"])
    /\ UNCHANGED <<plan, evidence, buttons, report>>

\* updateComparisonSelection()
UpdateComparisonSelection == compareOff' = (Cardinality(ticked') < 2)

Tick(m) ==
    /\ ticked' = (ticked \ {m}) \cup ({m} \ ticked)
    /\ UpdateComparisonSelection
    /\ UNCHANGED <<flight, plan, evidence, testOff, report>>

\* Mutant: the button works before there is a plan.
RunModelTestEarly ==
    /\ ~testOff
    /\ \/ \E m \in Model : Send([kind |-> "test", contract |-> plan, model |-> m])
       \/ Send([kind |-> "simulate", contract |-> plan])
    /\ testOff' = TRUE
    /\ UNCHANGED <<plan, evidence, ticked, compareOff, report>>

\* The contract sent is the one of the plan on screen at the click.
RunModelTest ==
    /\ ~testOff
    /\ plan # None
    /\ \/ \E m \in Model : Send([kind |-> "test", contract |-> plan, model |-> m])
       \/ Send([kind |-> "simulate", contract |-> plan])
    /\ testOff' = TRUE
    /\ UNCHANGED <<plan, evidence, ticked, compareOff, report>>

RunLiveComparison ==
    /\ ~compareOff
    /\ plan # None
    /\ Cardinality(ticked) >= 2
    /\ Send([kind |-> "compare", contract |-> plan, models |-> ticked])
    /\ compareOff' = TRUE
    /\ UNCHANGED <<plan, evidence, ticked, testOff, report>>

\* The demo needs no plan; imported evidence may come with a contract of its own.
EvaluateMeasured(c) ==
    /\ plan # None \/ c = Demo
    /\ Send([kind |-> "evaluate", contract |-> c])
    /\ UNCHANGED <<plan, evidence, buttons, report>>

-----------------------------------------------------------------------------
(* app.js: the handlers after the answer. *)

InFlight(i, kind) == flight[i] # None /\ flight[i].kind = kind
Answered(i) == flight' = [flight EXCEPT ![i] = None]

\* render(plan): a new plan starts without evidence.
Render(i) ==
    /\ InFlight(i, "plan")
    /\ Answered(i)
    /\ plan' = flight[i].contract
    /\ runs' = NoRuns
    /\ simulated' = None
    /\ recommendation' = None
    /\ RefreshBuiltReport
    /\ UNCHANGED buttons

\* Mutant: the selection is not counted again.
RenderChoicesOnly(i) ==
    /\ InFlight(i, "list")
    /\ Answered(i)
    /\ ticked' = {}
    /\ UNCHANGED <<plan, evidence, testOff, compareOff, report>>

\* The candidates are drawn again, none of them ticked.
RenderChoices(i) ==
    /\ InFlight(i, "list")
    /\ Answered(i)
    /\ ticked' = {}
    /\ UpdateComparisonSelection
    /\ UNCHANGED <<plan, evidence, testOff, report>>

\* renderLocalBenchmark(): the run replaces an earlier one of the same model.
RenderLocalBenchmark(i) ==
    /\ InFlight(i, "test")
    /\ Answered(i)
    /\ runs' = [runs EXCEPT ![flight[i].model] = flight[i].contract]
    /\ testOff' = FALSE
    /\ UNCHANGED <<plan, recommendation, simulated, ticked, compareOff>>
    /\ RefreshBuiltReport

RenderSimulation(i) ==
    /\ InFlight(i, "simulate")
    /\ Answered(i)
    /\ simulated' = flight[i].contract
    /\ testOff' = FALSE
    /\ UNCHANGED <<plan, recommendation, runs, ticked, compareOff>>
    /\ RefreshBuiltReport

\* Mutant: the observations are added after the report was composed again.
RenderComparisonLate(i) ==
    /\ InFlight(i, "compare")
    /\ Answered(i)
    /\ \E v \in Verdict : recommendation' = [contract |-> flight[i].contract, verdict |-> v]
    /\ runs' = [m \in Model |-> IF m \in flight[i].models THEN flight[i].contract ELSE runs[m]]
    /\ report' = IF report = None THEN None
                 ELSE Composed(plan, recommendation', runs, simulated)
    /\ UNCHANGED <<plan, simulated, ticked, testOff>>
    /\ UpdateComparisonSelection

\* A comparison brings a verdict and an observation of every model compared.
RenderComparison(i) ==
    /\ InFlight(i, "compare")
    /\ Answered(i)
    /\ \E v \in Verdict : recommendation' = [contract |-> flight[i].contract, verdict |-> v]
    /\ runs' = [m \in Model |-> IF m \in flight[i].models THEN flight[i].contract ELSE runs[m]]
    /\ UNCHANGED <<plan, simulated, ticked, testOff>>
    /\ UpdateComparisonSelection
    /\ RefreshBuiltReport

RenderEvaluation(i) ==
    /\ InFlight(i, "evaluate")
    /\ Answered(i)
    /\ \E v \in Verdict : recommendation' = [contract |-> flight[i].contract, verdict |-> v]
    /\ UNCHANGED <<plan, runs, simulated, buttons>>
    /\ RefreshBuiltReport

\* Mutant: the benchmark button is enabled again on success only.
RejectWithoutFinally(i) ==
    /\ flight[i] # None
    /\ Answered(i)
    /\ ticked' = IF InFlight(i, "list") THEN {} ELSE ticked
    /\ IF InFlight(i, "list") \/ InFlight(i, "compare")
       THEN UpdateComparisonSelection ELSE UNCHANGED compareOff
    /\ UNCHANGED <<plan, evidence, testOff, report>>

\* An error status or a lost connection: the message is shown, and the finally
\* clauses give the buttons back.  A failed listing leaves no local candidate.
Reject(i) ==
    /\ flight[i] # None
    /\ Answered(i)
    /\ ticked' = IF InFlight(i, "list") THEN {} ELSE ticked
    /\ testOff' = (testOff /\ ~InFlight(i, "test") /\ ~InFlight(i, "simulate"))
    /\ IF InFlight(i, "list") \/ InFlight(i, "compare")
       THEN UpdateComparisonSelection ELSE UNCHANGED compareOff
    /\ UNCHANGED <<plan, evidence, report>>

-----------------------------------------------------------------------------
Click ==
    \/ \E c \in Client : SubmitIntake(c)
    \/ \E m \in Model : Tick(m)
    \/ \E c \in Contract : EvaluateMeasured(c)
    \/ RefreshRuntimeChoices \/ RunModelTest \/ RunLiveComparison \/ ComposeReport

Answer(i) ==
    \/ Render(i) \/ RenderChoices(i) \/ RenderLocalBenchmark(i) \/ RenderSimulation(i)
    \/ RenderComparison(i) \/ RenderEvaluation(i) \/ Reject(i)

Next == Click \/ \E i \in 1..MaxRequests : Answer(i)

Spec == Init /\ [][Next]_vars

\* The server answers or the connection fails; nobody has to click.
FairSpec == Spec /\ \A i \in 1..MaxRequests : WF_vars(Answer(i))
-----------------------------------------------------------------------------
(* Properties. *)

\* The report on screen is what composing it now would give: whichever answer
\* came last, every handler that changes the assessment composes it again.
ReportIsCurrent ==
    report # None => report = Composed(plan, recommendation, runs, simulated)

\* A decision the report shows was made for the contract of its plan, and its
\* label claims one only then: late answers and the demo are excluded.
DecisionIsForPlan ==
    report # None =>
        /\ report.decision # None => report.decision.contract = plan
        /\ report.status \in {"VERIFIED_RECOMMENDATION", "VERIFIED_NO_MATCH",
                              "MEASURED_INCONCLUSIVE"} =>
               recommendation # None /\ recommendation.contract = plan

\* A comparison can be started only with two candidates to compare, whatever
\* was ticked, redrawn or answered while another one ran.
OffersValidComparison == ~compareOff => Cardinality(ticked) >= 2

\* The benchmark button comes back after every benchmark and simulation.
BenchmarkComesBack == testOff ~> ~testOff

\* srh/capacity/README.md: the report labels itself according to the evidence
\* actually linked to the current Workload Contract.
LabelMatchesEvidence ==
    report # None /\ report.status = "READINESS_OBSERVED" =>
        \E m \in Model : report.runs[m] = report.plan
=============================================================================
