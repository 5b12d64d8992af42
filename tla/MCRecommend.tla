---------------------------- MODULE MCRecommend ----------------------------
(* Evidence for Recommend: one file with any mix of four requests between   *)
(* two fixed ones, and files of every structural kind in every order.       *)
EXTENDS Recommend

R(ttfa, e2e, rate, checks, stop) ==
    [no |-> 1, success |-> TRUE, ttfa |-> ttfa, e2e |-> e2e, rate |-> rate,
     checks |-> checks, stop |-> stop]
Fast == R(1, 4, 6, Check, TRUE)
Even == R(2, 6, 6, Check, TRUE)
Late == R(4, 4, 6, Check, TRUE)
Slow == R(7, 8, 6, Check, TRUE)
Uncited == R(1, 4, 6, Check \ {"evidence"}, TRUE)
Cut == R(1, 4, 2, Check, FALSE)
Failed == [Fast EXCEPT !.success = FALSE]
Kind == <<Fast, Even, Slow, Uncited, Cut, Failed>>

Two(r, s) == <<r, [s EXCEPT !.no = 2]>>
Batches(a, b, c, d) == <<[repetition |-> 1, requests |-> Two(a, b)],
                         [repetition |-> 2, requests |-> Two(c, d)]>>
File(profile, batches) ==
    [sound |-> TRUE, profile |-> profile, condition |-> "c1", system |-> "s1", repetitions |-> 2,
     concurrency |-> 2, batches |-> [m \in Mode |-> batches]]
Same(profile, r) == File(profile, Batches(r, r, r, r))

Sorted == {t \in [1..4 -> 1..6] : \A i \in 1..3 : t[i] <= t[i + 1]}
Mixed == {Batches(Kind[t[1]], Kind[t[2]], Kind[t[3]], Kind[t[4]]) : t \in Sorted}
Structural ==
    {Same(2, Fast), Same(3, Late), Same(3, Fast), Same(1, Even), Same(1, Failed)} \cup
    {[Same(1, Fast) EXCEPT !.sound = FALSE],
     [Same(1, Fast) EXCEPT !.condition = "c2"],
     [Same(1, Fast) EXCEPT !.system = "s2"],
     [Same(1, Fast) EXCEPT !.batches["probe"] = <<>>],
     [Same(1, Fast) EXCEPT !.repetitions = 1, !.batches = [m \in Mode |-> SubSeq(@[m], 1, 1)]],
     [Same(1, Fast) EXCEPT !.batches["assistant"][2].repetition = 1],
     [Same(1, Fast) EXCEPT !.batches["assistant"][1].requests[2].no = 1]}

MCInputs ==
    {<<Same(2, Even), File(1, b), f>> : b \in Mixed, f \in {Same(3, Slow), Same(3, R(2, 4, 8, Check, TRUE))}}
        \cup {<<f, g, h>> : f, g, h \in Structural} \cup {<<f, g>> : f, g \in Structural} \cup {<<>>}

M(cost, approved) == [cost |-> cost, approved |-> approved]
MCManifests ==
    {[p \in Profile |-> M(CASE p = 1 -> a [] p = 2 -> 3 [] OTHER -> 2, ok \/ p # 1)] :
        a \in {1, None}, ok \in BOOLEAN}
    \cup {[p \in S |-> M(1, TRUE)] : S \in {{1}, {2, 3}}}

MCTarget == [ttfa |-> 4, e2e |-> 6, rate |-> 4, errors |-> 30, score |-> 3, mode |-> "assistant"]
============================================================================
