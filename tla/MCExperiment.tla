---------------------------- MODULE MCExperiment ----------------------------
(* Instances for Experiment: every cache state with two requests at a time,  *)
(* a run of each program, and plans, packs and contracts that are refused.   *)
EXTENDS Experiment

L(kind) == [kind |-> kind, holds |-> {}, stop |-> FALSE, tokens |-> 0, thought |-> None]
Content(holds) == [L("content") EXCEPT !.holds = holds]
Finished(stop) == [L("finish") EXCEPT !.stop = stop]
Used(tokens) == [L("usage") EXCEPT !.tokens = tokens]

MCUsual == <<L("reasoning"), Content(Check), Finished(TRUE), Used(5), L("done")>>
MCStreams ==
    {MCUsual,
     <<Content({}), L("other"), Finished(TRUE), Used(5), L("done"), Content(Check)>>,  \* wrong answer
     <<Content(Check), Finished(FALSE), Used(5), L("done")>>,                          \* max_tokens
     <<L("other"), L("other"), L("other"), Content(Check), Finished(TRUE), Used(2), L("done")>>,  \* slow
     <<Content({}), [Used(3) EXCEPT !.thought = 3], L("done")>>,                       \* all of it thought
     <<L("reasoning"), L("other"), L("done")>>}                                        \* an error in the stream

P(concurrency, cache) == [concurrency |-> concurrency, cache |-> cache, tokens |-> 8]
Good(program, experiment) ==
    [program |-> program, experiment |-> experiment, packTokens |-> 8, reasoning |-> "disabled",
     override |-> "plan", modes |-> Mode, mode |-> "assistant", limit |-> [m \in Mode |-> 4],
     streaming |-> TRUE]
Base == Good("paired", P(2, "warm"))

MCSetups ==
    {Good("paired", P(2, cache)) : cache \in CacheState}
    \cup {Good("single", P(2, "shared-prefix")), Good("paired", P(1, "cold")),
          [Good("single", P(1, "warm")) EXCEPT !.modes = {"assistant"}],
          [Good("paired", P(1, "cold")) EXCEPT !.reasoning = "optional", !.override = "required"]}
    \cup {[Base EXCEPT !.experiment = None],
          [Base EXCEPT !.packTokens = 9],
          [Base EXCEPT !.reasoning = "optional"],
          [Base EXCEPT !.modes = {"assistant"}],
          [Base EXCEPT !.limit["probe"] = 0],
          [Base EXCEPT !.program = "single", !.streaming = FALSE]}

\* Two incidents where one request runs at a time, one otherwise.
MCMaxFaults == [s \in MCSetups |->
    IF s.experiment # None /\ s.experiment.concurrency = 1 THEN 2 ELSE 1]

MCTarget == [ttfa |-> 3, e2e |-> 6, rate |-> 100, errors |-> 30, score |-> 1]
=============================================================================
