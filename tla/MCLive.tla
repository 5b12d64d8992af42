------------------------------- MODULE MCLive -------------------------------
(* Instances for Live: requests of every kind against three runtimes under   *)
(* two names, of which two change places; contracts and intakes, and a       *)
(* catalog of two devices and four models.                                   *)
EXTENDS Live

Good(ttfa, e2e, rate) ==
    [success |-> TRUE, ttfa |-> ttfa, e2e |-> e2e, rate |-> rate, score |-> 100, pass |-> TRUE]
MCUsual == <<Good(2, 5, 6), Good(3, 5, 9), Good(2, 5, 7)>>
MCResults == {[Good(2, 5, 6) EXCEPT !.score = 80, !.pass = FALSE], Good(9, 9, 6), Good(1, 4, None)}

Offer(endpoint, model, print) == [endpoint |-> endpoint, model |-> model, print |-> print]
A(print) == Offer("vllm", "a", print)
B == Offer("ollama", "b", 2)
MCInventories == {<<A(1), B>>, <<A(3), B>>, <<A(1), Offer("vllm", "b", 1), B>>}

-----------------------------------------------------------------------------
D(p50, p95, max) == [p50 |-> p50, p95 |-> p95, max |-> max]
GoodContract ==
    [identified |-> TRUE, users |-> <<1, 2, 4>>, input |-> D(2, 4, 6), output |-> D(1, 2, 3),
     objectives |-> [ttfa_p95_ms |-> 4, end_to_end_p95_ms |-> 8, answer_tokens_per_second_min |-> 5,
                     error_rate_max |-> 50, quality_minimum_score |-> 80],
     reuse |-> TRUE, context |-> 9, tools |-> FALSE, calls |-> FALSE,
     modes |-> {"probe", "assistant"}, mode |-> "assistant", probe |-> 1, assistant |-> 3,
     null |-> FALSE]
Partial == [GoodContract EXCEPT !.objectives["error_rate_max"] = None]
Bodiless == [GoodContract EXCEPT !.input = None]
Tailless == [GoodContract EXCEPT !.input = D(2, None, None)]
Nulled == [GoodContract EXCEPT !.null = TRUE]
Faulty ==
    <<[GoodContract EXCEPT !.identified = FALSE], [GoodContract EXCEPT !.users = <<>>],
      [GoodContract EXCEPT !.users = <<2, 2>>], [GoodContract EXCEPT !.users = <<0>>],
      [GoodContract EXCEPT !.input = D(4, 2, 6)], [GoodContract EXCEPT !.output = D(1, 2, 1)],
      [GoodContract EXCEPT !.input = D(None, 2, 6)], [GoodContract EXCEPT !.objectives = [o \in Objective |-> None]],
      [GoodContract EXCEPT !.context = 8], [GoodContract EXCEPT !.calls = TRUE],
      [GoodContract EXCEPT !.modes = {"probe"}], [GoodContract EXCEPT !.probe = None],
      [GoodContract EXCEPT !.assistant = 2]>>

\* Percentiles that coincide, maxima that are not declared or null, users out of order.
Users == <<<<1>>, <<3>>, <<4, 2>>, <<1, 2, 4>>>>
Inputs == <<D(2, 2, 2), D(2, 4, 4), D(2, 4, None), D(2, 4, Null)>>
Outputs == <<D(1, 1, 1), D(1, 2, 3), D(2, 2, None)>>
Variant(n) ==
    [GoodContract EXCEPT !.users = Users[1 + (n % 4)], !.input = Inputs[1 + ((n \div 4) % 4)],
                         !.output = Outputs[1 + ((n \div 16) % 3)], !.reuse = n \div 48 = 1,
                         !.context = IF n % 5 = 0 THEN None ELSE 9]
Few == <<GoodContract, Partial, Bodiless, Tailless, Nulled>> \o Faulty
MCContracts == [n \in 1..(Len(Few) + 96) |-> IF n \in DOMAIN Few THEN Few[n] ELSE Variant(n - Len(Few) - 1)]

-----------------------------------------------------------------------------
GoodIntake ==
    [identified |-> TRUE, total |-> 9, concurrent |-> 2,
     pages |-> D(5, 8, 9), retrieved |-> D(1, 2, 3), retrieval |-> TRUE, words |-> D(2, 4, 6),
     shared |-> 30, repeated |-> 0, first |-> 1, complete |-> 3, errors |-> 1, score |-> 95,
     hardware |-> <<1, 2>>, models |-> <<1, 2, 3>>, bits |-> <<4, 8>>, power |-> None]
WrongIntakes ==
    <<[GoodIntake EXCEPT !.identified = FALSE], [GoodIntake EXCEPT !.concurrent = 10],
      [GoodIntake EXCEPT !.words = D(4, 2, 6)], [GoodIntake EXCEPT !.shared = 101],
      [GoodIntake EXCEPT !.complete = 1], [GoodIntake EXCEPT !.bits = <<>>],
      [GoodIntake EXCEPT !.models = <<1, 9>>], [GoodIntake EXCEPT !.power = 0]>>

\* Users, pace, power limit and what is explored: short lists, one twice the same.
Explored == <<<<1, 2, 3, 4>>, <<3>>, <<2, 2, 1>>, <<4, 1>>>>
Asked(n) ==
    [GoodIntake EXCEPT !.concurrent = 1 + (n % 3), !.complete = 2 + ((n \div 3) % 2),
                       !.power = IF n % 4 = 3 THEN 100 ELSE None,
                       !.bits = IF n % 5 = 1 THEN <<4>> ELSE <<4, 8>>,
                       !.retrieval = n % 7 < 5, !.words = IF n % 2 = 0 THEN D(2, 4, 6) ELSE D(20, 20, 20),
                       !.models = Explored[1 + ((n \div 6) % 4)]]
FewIntakes == <<GoodIntake>> \o WrongIntakes
MCIntakes == [n \in 1..(Len(FewIntakes) + 48) |->
    IF n \in DOMAIN FewIntakes THEN FewIntakes[n] ELSE Asked(n - Len(FewIntakes) - 1)]

Kept(first, second, third) == <<first, second, third>>
MCHardware ==
    <<[usable |-> 24000, power |-> 90, anchored |-> TRUE, latency |-> 100, multiplier |-> 9,
       keepDecode |-> Kept(100, 80, 60), keepPrefill |-> Kept(100, 70, 50)],
      [usable |-> 60000, power |-> 300, anchored |-> FALSE, latency |-> 300, multiplier |-> 5,
       keepDecode |-> Kept(100, 90, 80), keepPrefill |-> Kept(100, 90, 80)]>>
MCModels ==
    <<[sparse |-> FALSE, bits |-> {4, 8}, context |-> 400, parameters |-> 8000, perToken |-> 64],
      [sparse |-> FALSE, bits |-> {4}, context |-> 400, parameters |-> 30000, perToken |-> 256],
      [sparse |-> TRUE, bits |-> {4, 8}, context |-> 100, parameters |-> 35000, perToken |-> 32],
     [sparse |-> FALSE, bits |-> {4, 8}, context |-> 400, parameters |-> 3000, perToken |-> 16]>>
MCRate == [x \in (1..2) \X (1..4) \X {4, 8} |->
    (CASE x[2] = 1 -> 12000 [] x[2] = 2 -> 4500 [] x[2] = 3 -> 15000 [] OTHER -> 30000)
        * (IF x[1] = 1 THEN 1 ELSE 2) * (IF x[3] = 8 THEN 1 ELSE 2)]

-----------------------------------------------------------------------------
Compare(candidates, repetitions, concurrency) ==
    [kind |-> "comparison", contract |-> 1, candidates |-> candidates, profile |-> "quick",
     repetitions |-> repetitions, concurrency |-> concurrency, policy |-> "performance_first"]
One(repetitions) ==
    [kind |-> "benchmark", contract |-> 1, place |-> [endpoint |-> "vllm", model |-> "a"],
     local |-> TRUE, profile |-> "quick", repetitions |-> repetitions, concurrency |-> 1]

Pair == Compare(<<1, 2>>, 2, 1)
Comparisons ==
    {Pair, Compare(<<2, 1>>, 1, 1), Compare(<<2, 3>>, 2, 1), Compare(<<1, 1>>, 2, 1),
     Compare(<<1, None>>, 2, 1), Compare(<<1>>, 2, 1), Compare(<<1, 2>>, 4, 1), Compare(<<1, 2>>, 2, 9)}
    \cup {[Pair EXCEPT !.contract = 3], [Pair EXCEPT !.contract = 2],
          [Pair EXCEPT !.contract = 5], [Pair EXCEPT !.profile = "other"], [Pair EXCEPT !.policy = "other"]}
Benchmarks ==
    {One(1), [One(2) EXCEPT !.concurrency = 2], One(6), [One(1) EXCEPT !.contract = 3],
     [One(1) EXCEPT !.contract = 2], [One(1) EXCEPT !.local = FALSE],
     [One(1) EXCEPT !.contract = 4], [One(1) EXCEPT !.contract = 4, !.profile = "stress"]}
Plans == [kind : {"plan"}, contract : DOMAIN MCContracts]
         \cup [kind : {"capacity"}, intake : DOMAIN MCIntakes]

MCRequests == [c \in Client |-> Comparisons \cup Benchmarks \cup Plans]
=============================================================================
