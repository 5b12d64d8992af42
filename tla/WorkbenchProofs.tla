--------------------------- MODULE WorkbenchProofs ---------------------------
(***************************************************************************)
(* Proofs about Workbench, for any contracts, models and requests in       *)
(* flight.                                                                 *)
(***************************************************************************)
EXTENDS Workbench, FiniteSetTheorems, TLAPS

USE DEF evidence, buttons

LEMMA ComposedType ==
  ASSUME NEW p \in Client, NEW rec \in {None} \cup Recommendation,
         NEW observed \in [Model -> Client \cup {None}], NEW sim \in Client \cup {None}
  PROVE  Composed(p, rec, observed, sim) \in Report
<1>1. WorkflowStatus(p, rec, observed) \in Statuses
  BY DEF WorkflowStatus, Statuses
<1>2. QED
  BY <1>1 DEF Composed, Report

LEMMA FlightType ==
  ASSUME NEW f \in [1..MaxRequests -> {None} \cup Request],
         NEW i \in 1..MaxRequests, NEW r \in {None} \cup Request
  PROVE  [f EXCEPT ![i] = r] \in [1..MaxRequests -> {None} \cup Request]
  OBVIOUS

\* There is a report only when there is a plan to report on.
PlanInv == report # None => plan # None

LEMMA RequestFields ==
  ASSUME TypeOK, NEW i \in 1..MaxRequests
  PROVE  /\ InFlight(i, "plan") => flight[i].contract \in Client
         /\ InFlight(i, "simulate") => flight[i].contract \in Client
         /\ InFlight(i, "evaluate") => flight[i].contract \in Contract
         /\ InFlight(i, "test") => flight[i].contract \in Client /\ flight[i].model \in Model
         /\ InFlight(i, "compare") => flight[i].contract \in Client
<1>1. flight[i] \in {None} \cup Request
  BY DEF TypeOK
<1>2. QED
  BY <1>1 DEF InFlight, Request

LEMMA SendType ==
  ASSUME TypeOK, NEW r \in Request, Send(r)
  PROVE  flight' \in [1..MaxRequests -> {None} \cup Request]
<1>1. PICK i \in 1..MaxRequests : flight' = [flight EXCEPT ![i] = r]
  BY DEF Send
<1>2. QED
  BY <1>1, FlightType DEF TypeOK

LEMMA AnsweredType ==
  ASSUME TypeOK, NEW i \in 1..MaxRequests, Answered(i)
  PROVE  flight' \in [1..MaxRequests -> {None} \cup Request]
  BY FlightType DEF TypeOK, Answered

\* The report composed again after a step that keeps the other types.
LEMMA RefreshType ==
  ASSUME RefreshBuiltReport, report = None \/ plan' \in Client,
         recommendation' \in {None} \cup Recommendation,
         runs' \in [Model -> Client \cup {None}], simulated' \in {None} \cup Client
  PROVE  report' = None \/ report' \in Report
  BY ComposedType DEF RefreshBuiltReport

TypeInv == TypeOK /\ PlanInv

LEMMA TypeInit == Init => TypeInv
  BY DEF Init, TypeInv, TypeOK, PlanInv, NoRuns

LEMMA TypeStep == TypeInv /\ [Next]_vars => TypeInv'
<1> SUFFICES ASSUME TypeInv, [Next]_vars PROVE TypeInv'
  OBVIOUS
<1> USE DEF TypeInv
<1>0. TypeOK /\ PlanInv
  OBVIOUS
<1>1. ASSUME NEW c \in Client, SubmitIntake(c) PROVE TypeInv'
  <2>1. [kind |-> "plan", contract |-> c] \in Request
    BY DEF Request
  <2>2. flight' \in [1..MaxRequests -> {None} \cup Request]
    BY <1>1, <2>1, SendType DEF SubmitIntake
  <2>3. QED
    BY <1>0, <1>1, <2>2 DEF SubmitIntake, TypeOK, PlanInv
<1>2. ASSUME NEW m \in Model, Tick(m) PROVE TypeInv'
  BY <1>0, <1>2 DEF Tick, UpdateComparisonSelection, TypeOK, PlanInv
<1>3. ASSUME NEW c \in Contract, EvaluateMeasured(c) PROVE TypeInv'
  <2>1. [kind |-> "evaluate", contract |-> c] \in Request
    BY DEF Request
  <2>2. flight' \in [1..MaxRequests -> {None} \cup Request]
    BY <1>3, <2>1, SendType DEF EvaluateMeasured
  <2>3. QED
    BY <1>0, <1>3, <2>2 DEF EvaluateMeasured, TypeOK, PlanInv
<1>4. CASE RefreshRuntimeChoices
  <2>1. [kind |-> "list"] \in Request
    BY DEF Request
  <2>2. flight' \in [1..MaxRequests -> {None} \cup Request]
    BY <1>4, <2>1, SendType DEF RefreshRuntimeChoices
  <2>3. QED
    BY <1>0, <1>4, <2>2 DEF RefreshRuntimeChoices, TypeOK, PlanInv
<1>5. CASE RunModelTest
  <2>1. plan \in Client
    BY <1>0, <1>5 DEF RunModelTest, TypeOK
  <2>2. \A m \in Model : [kind |-> "test", contract |-> plan, model |-> m] \in Request
    BY <2>1 DEF Request
  <2>3. [kind |-> "simulate", contract |-> plan] \in Request
    BY <2>1 DEF Request
  <2>4. flight' \in [1..MaxRequests -> {None} \cup Request]
    BY <1>5, <2>2, <2>3, SendType DEF RunModelTest
  <2>5. QED
    BY <1>0, <1>5, <2>4 DEF RunModelTest, TypeOK, PlanInv
<1>6. CASE RunLiveComparison
  <2>1. [kind |-> "compare", contract |-> plan, models |-> ticked] \in Request
    BY <1>0, <1>6 DEF RunLiveComparison, TypeOK, Request
  <2>2. flight' \in [1..MaxRequests -> {None} \cup Request]
    BY <1>6, <2>1, SendType DEF RunLiveComparison
  <2>3. QED
    BY <1>0, <1>6, <2>2 DEF RunLiveComparison, TypeOK, PlanInv
<1>7. CASE ComposeReport
  <2>1. report' \in Report
    BY <1>0, <1>7, ComposedType DEF ComposeReport, TypeOK
  <2>2. QED
    BY <1>0, <1>7, <2>1 DEF ComposeReport, TypeOK, PlanInv
<1>8. ASSUME NEW i \in 1..MaxRequests, Render(i) PROVE TypeInv'
  <2>1. /\ flight' \in [1..MaxRequests -> {None} \cup Request]
        /\ plan' \in Client
        /\ recommendation' \in {None} \cup Recommendation
        /\ runs' \in [Model -> Client \cup {None}]
        /\ simulated' \in {None} \cup Client
    BY <1>0, <1>8, AnsweredType, RequestFields DEF Render, NoRuns
  <2>2. report' = None \/ report' \in Report
    BY <1>8, <2>1, RefreshType DEF Render
  <2>3. QED
    BY <1>0, <1>8, <2>1, <2>2, WorkbenchAssumption DEF Render, TypeOK, PlanInv, Contract
<1>9. ASSUME NEW i \in 1..MaxRequests, RenderChoices(i) PROVE TypeInv'
  <2>1. flight' \in [1..MaxRequests -> {None} \cup Request]
    BY <1>9, AnsweredType DEF RenderChoices
  <2>2. QED
    BY <1>0, <1>9, <2>1 DEF RenderChoices, UpdateComparisonSelection, TypeOK, PlanInv
<1>10. ASSUME NEW i \in 1..MaxRequests, RenderLocalBenchmark(i) PROVE TypeInv'
  <2>1. /\ flight' \in [1..MaxRequests -> {None} \cup Request]
        /\ runs' \in [Model -> Client \cup {None}]
        /\ report = None \/ plan' \in Client
        /\ recommendation' \in {None} \cup Recommendation
        /\ simulated' \in {None} \cup Client
    BY <1>0, <1>10, AnsweredType, RequestFields DEF RenderLocalBenchmark, TypeOK, PlanInv
  <2>2. report' = None \/ report' \in Report
    BY <1>10, <2>1, RefreshType DEF RenderLocalBenchmark
  <2>3. QED
    BY <1>0, <1>10, <2>1, <2>2 DEF RenderLocalBenchmark, RefreshBuiltReport, TypeOK, PlanInv
<1>11. ASSUME NEW i \in 1..MaxRequests, RenderSimulation(i) PROVE TypeInv'
  <2>1. /\ flight' \in [1..MaxRequests -> {None} \cup Request]
        /\ runs' \in [Model -> Client \cup {None}]
        /\ report = None \/ plan' \in Client
        /\ recommendation' \in {None} \cup Recommendation
        /\ simulated' \in {None} \cup Client
    BY <1>0, <1>11, AnsweredType, RequestFields DEF RenderSimulation, TypeOK, PlanInv
  <2>2. report' = None \/ report' \in Report
    BY <1>11, <2>1, RefreshType DEF RenderSimulation
  <2>3. QED
    BY <1>0, <1>11, <2>1, <2>2 DEF RenderSimulation, RefreshBuiltReport, TypeOK, PlanInv
<1>12. ASSUME NEW i \in 1..MaxRequests, RenderComparison(i) PROVE TypeInv'
  <2>1. /\ flight' \in [1..MaxRequests -> {None} \cup Request]
        /\ runs' \in [Model -> Client \cup {None}]
        /\ report = None \/ plan' \in Client
        /\ recommendation' \in {None} \cup Recommendation
        /\ simulated' \in {None} \cup Client
    BY <1>0, <1>12, AnsweredType, RequestFields
       DEF RenderComparison, Recommendation, Contract, TypeOK, PlanInv
  <2>2. report' = None \/ report' \in Report
    BY <1>12, <2>1, RefreshType DEF RenderComparison
  <2>3. QED
    BY <1>0, <1>12, <2>1, <2>2
       DEF RenderComparison, UpdateComparisonSelection, RefreshBuiltReport, TypeOK, PlanInv
<1>13. ASSUME NEW i \in 1..MaxRequests, RenderEvaluation(i) PROVE TypeInv'
  <2>1. /\ flight' \in [1..MaxRequests -> {None} \cup Request]
        /\ runs' \in [Model -> Client \cup {None}]
        /\ report = None \/ plan' \in Client
        /\ recommendation' \in {None} \cup Recommendation
        /\ simulated' \in {None} \cup Client
    BY <1>0, <1>13, AnsweredType, RequestFields
       DEF RenderEvaluation, Recommendation, TypeOK, PlanInv
  <2>2. report' = None \/ report' \in Report
    BY <1>13, <2>1, RefreshType DEF RenderEvaluation
  <2>3. QED
    BY <1>0, <1>13, <2>1, <2>2 DEF RenderEvaluation, RefreshBuiltReport, TypeOK, PlanInv
<1>14. ASSUME NEW i \in 1..MaxRequests, Reject(i) PROVE TypeInv'
  <2>1. flight' \in [1..MaxRequests -> {None} \cup Request]
    BY <1>14, AnsweredType DEF Reject
  <2>2. ticked' \in SUBSET Model
    BY <1>0, <1>14 DEF Reject, TypeOK
  <2>3. testOff' \in BOOLEAN
    BY <1>14 DEF Reject
  <2>4. compareOff' \in BOOLEAN
    <3>1. CASE UpdateComparisonSelection
      BY <3>1 DEF UpdateComparisonSelection
    <3>2. CASE UNCHANGED compareOff
      BY <1>0, <3>2 DEF TypeOK
    <3>3. QED
      BY <1>14, <3>1, <3>2 DEF Reject
  <2>5. QED
    BY <1>0, <1>14, <2>1, <2>2, <2>3, <2>4 DEF Reject, TypeOK, PlanInv
<1>15. CASE UNCHANGED vars
  BY <1>0, <1>15 DEF vars, TypeOK, PlanInv
<1>16. QED
  BY <1>1, <1>2, <1>3, <1>4, <1>5, <1>6, <1>7, <1>8, <1>9, <1>10, <1>11, <1>12, <1>13,
     <1>14, <1>15 DEF Next, Click, Answer

\* Every variable of the page keeps its type, whatever answers arrive and in
\* whatever order.
THEOREM TypeCorrect == Spec => []TypeOK
<1>1. TypeInv => TypeOK
  BY DEF TypeInv
<1>2. QED
  BY TypeInit, TypeStep, <1>1, PTL DEF Spec

-----------------------------------------------------------------------------
(* The report. *)

LEMMA CurrentStep == ReportIsCurrent /\ [Next]_vars => ReportIsCurrent'
<1> SUFFICES ASSUME ReportIsCurrent, [Next]_vars PROVE ReportIsCurrent'
  OBVIOUS
<1> USE DEF ReportIsCurrent
<1>1. ASSUME UNCHANGED <<plan, evidence, report>> PROVE ReportIsCurrent'
  BY <1>1
<1>2. ASSUME RefreshBuiltReport PROVE ReportIsCurrent'
  BY <1>2 DEF RefreshBuiltReport
<1>3. ASSUME ComposeReport PROVE ReportIsCurrent'
  BY <1>3 DEF ComposeReport
<1>4. CASE Click
  BY <1>1, <1>3, <1>4 DEF Click, SubmitIntake, Tick, EvaluateMeasured,
     RefreshRuntimeChoices, RunModelTest, RunLiveComparison
<1>5. CASE \E i \in 1..MaxRequests : Answer(i)
  <2>1. PICK i \in 1..MaxRequests : Answer(i)
    BY <1>5
  <2>2. CASE RenderChoices(i) \/ Reject(i)
    BY <1>1, <2>2 DEF RenderChoices, Reject
  <2>3. CASE Render(i) \/ RenderLocalBenchmark(i) \/ RenderSimulation(i)
             \/ RenderComparison(i) \/ RenderEvaluation(i)
    BY <1>2, <2>3 DEF Render, RenderLocalBenchmark, RenderSimulation, RenderComparison,
       RenderEvaluation
  <2>4. QED
    BY <2>1, <2>2, <2>3 DEF Answer
<1>6. CASE UNCHANGED vars
  BY <1>1, <1>6 DEF vars
<1>7. QED
  BY <1>4, <1>5, <1>6 DEF Next

\* The report on screen is always what composing it now would give.
THEOREM ReportStaysCurrent == Spec => []ReportIsCurrent
<1>1. Init => ReportIsCurrent
  BY DEF Init, ReportIsCurrent
<1>2. QED
  BY <1>1, CurrentStep, PTL DEF Spec

\* No report shows a decision, or a label that claims one, of another contract:
\* a consequence of the guard and of the report being current.
THEOREM DecisionShownIsForPlan == Spec => []DecisionIsForPlan
<1>1. ReportIsCurrent => DecisionIsForPlan
  <2> SUFFICES ASSUME ReportIsCurrent, report # None PROVE DecisionIsForPlan
    BY DEF DecisionIsForPlan
  <2>1. report = Composed(plan, recommendation, runs, simulated)
    BY DEF ReportIsCurrent
  <2>2. report.decision # None => report.decision.contract = plan
    BY <2>1 DEF Composed, Current
  <2>3. CASE Current(plan, recommendation)
    BY <2>2, <2>3 DEF Current, DecisionIsForPlan
  <2>4. CASE ~Current(plan, recommendation)
    BY <2>1, <2>2, <2>4 DEF Composed, WorkflowStatus, DecisionIsForPlan
  <2>5. QED
    BY <2>3, <2>4
<1>2. QED
  BY <1>1, ReportStaysCurrent, PTL

-----------------------------------------------------------------------------
(* The comparison button. *)

LEMMA Selected ==
  ASSUME NEW T \in SUBSET Model, ~(Cardinality(T) < 2)
  PROVE  Cardinality(T) >= 2
<1>1. Cardinality(T) \in Nat
  BY WorkbenchAssumption, FS_Subset, FS_CardinalityType
<1>2. QED
  BY <1>1

LEMMA OfferStep ==
  TypeOK' /\ OffersValidComparison /\ [Next]_vars => OffersValidComparison'
<1> SUFFICES ASSUME TypeOK', OffersValidComparison, [Next]_vars
             PROVE  OffersValidComparison'
  OBVIOUS
<1> USE DEF OffersValidComparison
<1>0. ticked' \in SUBSET Model
  BY DEF TypeOK
<1>1. ASSUME UNCHANGED <<ticked, compareOff>> PROVE OffersValidComparison'
  BY <1>1
<1>2. ASSUME UpdateComparisonSelection PROVE OffersValidComparison'
  BY <1>0, <1>2, Selected DEF UpdateComparisonSelection
<1>3. CASE Click
  BY <1>1, <1>2, <1>3 DEF Click, SubmitIntake, Tick, EvaluateMeasured,
     RefreshRuntimeChoices, RunModelTest, RunLiveComparison, ComposeReport
<1>4. CASE \E i \in 1..MaxRequests : Answer(i)
  <2>1. PICK i \in 1..MaxRequests : Answer(i)
    BY <1>4
  <2>2. CASE Render(i) \/ RenderLocalBenchmark(i) \/ RenderSimulation(i) \/ RenderEvaluation(i)
    BY <1>1, <2>2 DEF Render, RenderLocalBenchmark, RenderSimulation, RenderEvaluation
  <2>3. CASE RenderChoices(i) \/ RenderComparison(i)
    BY <1>2, <2>3 DEF RenderChoices, RenderComparison
  <2>4. CASE Reject(i)
    BY <1>1, <1>2, <2>4 DEF Reject
  <2>5. QED
    BY <2>1, <2>2, <2>3, <2>4 DEF Answer
<1>5. CASE UNCHANGED vars
  BY <1>1, <1>5 DEF vars
<1>6. QED
  BY <1>3, <1>4, <1>5 DEF Next

\* The comparison button is enabled only with two candidates ticked.
THEOREM OffersOnlyComparisons == Spec => []OffersValidComparison
<1>1. Init => OffersValidComparison
  BY DEF Init, OffersValidComparison
<1>2. QED
  BY <1>1, OfferStep, TypeCorrect, PTL DEF Spec
=============================================================================
