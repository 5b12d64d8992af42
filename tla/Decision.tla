------------------------------ MODULE Decision ------------------------------
(***************************************************************************)
(* srh/decision/engine.py: what one paired experiment says of the profile  *)
(* it measured, and which experiment to run next.  An assessment is taken  *)
(* as the set of objectives each mode misses; one that was not declared is *)
(* never missed.                                                           *)
(***************************************************************************)

Objective == {"ttfa_p95_ms", "end_to_end_p95_ms", "answer_tokens_per_second_min",
              "error_rate_max", "quality_minimum_score"}
Category == {"QUALITY_BOUND", "RELIABILITY_BOUND", "CONTEXT_PREFILL_BOUND",
             "RESPONSE_GENERATION_BOUND", "DECODE_BOUND", "UNRESOLVED"}
Action == {"TEST_MODEL_OR_REASONING_POLICY", "INVESTIGATE_RUNTIME_STABILITY",
           "RUN_SHARED_PREFIX_CONTROL", "TEST_RESPONSE_POLICY", "TEST_RUNTIME_PROFILE",
           "COLLECT_DISCRIMINATING_EVIDENCE"}

Missing(missed, objective) == {mode \in DOMAIN missed : objective \in missed[mode]}

\* diagnose: the first that applies.
Diagnosis(missed) ==
    LET kept(objective) == Missing(missed, objective) = {} IN
    IF ~kept("quality_minimum_score") THEN "QUALITY_BOUND"
    ELSE IF ~kept("error_rate_max") THEN "RELIABILITY_BOUND"
    ELSE IF Missing(missed, "ttfa_p95_ms") = DOMAIN missed /\ kept("answer_tokens_per_second_min")
         THEN "CONTEXT_PREFILL_BOUND"
    ELSE IF kept("ttfa_p95_ms") /\ Missing(missed, "end_to_end_p95_ms") = {"assistant"}
         THEN "RESPONSE_GENERATION_BOUND"
    ELSE IF ~kept("answer_tokens_per_second_min") THEN "DECODE_BOUND"
    ELSE "UNRESOLVED"

ActionOn(category) ==
    CASE category = "QUALITY_BOUND" -> "TEST_MODEL_OR_REASONING_POLICY"
      [] category = "RELIABILITY_BOUND" -> "INVESTIGATE_RUNTIME_STABILITY"
      [] category = "CONTEXT_PREFILL_BOUND" -> "RUN_SHARED_PREFIX_CONTROL"
      [] category = "RESPONSE_GENERATION_BOUND" -> "TEST_RESPONSE_POLICY"
      [] category = "DECODE_BOUND" -> "TEST_RUNTIME_PROFILE"
      [] OTHER -> "COLLECT_DISCRIMINATING_EVIDENCE"

\* The verdict is that of the assistant mode, the diagnosis that of both.
Judgement(missed) ==
    [meets |-> missed["assistant"] = {},
     blocking |-> missed["assistant"],
     category |-> Diagnosis(missed),
     action |-> ActionOn(Diagnosis(missed))]

JudgementType == [meets : BOOLEAN, blocking : SUBSET Objective, category : Category, action : Action]
=============================================================================
