----------------------------- MODULE StreamChat -----------------------------
(***************************************************************************)
(* srh/benchmark.py stream_chat: what the client measures of one streamed   *)
(* answer.  A stream is the sequence of lines that reach the client, its   *)
(* end the end of the connection; line i arrives at time i, the request    *)
(* was sent at 0.  A chunk with several fields is several lines.           *)
(***************************************************************************)
EXTENDS Naturals, FiniteSetsExt, Sequences

CONSTANTS Check,    \* what an answer can be found to hold
          None

ASSUME StreamChatAssumption == None \notin Nat

\* "holds" is what the text of a line adds to the answer; "other" stands for blank
\* lines, lines that are no JSON, and chunks without choices, errors among them.
Line == [kind : {"reasoning", "content", "finish", "usage", "done", "other"},
         holds : SUBSET Check, stop : BOOLEAN, tokens : Nat, thought : Nat \cup {None}]

First(S) == IF S = {} THEN None ELSE Min(S)
Since(start, end) == IF start = None THEN None ELSE end - start
At(stream, kinds) == {i \in DOMAIN stream : stream[i].kind \in kinds}

\* [DONE] ends the reading; so does the end of the connection, without an error.
End(stream) == IF At(stream, {"done"}) = {} THEN Len(stream) + 1 ELSE Min(At(stream, {"done"}))
Read(stream, kinds) == {i \in At(stream, kinds) : i < End(stream)}

FirstGenerated(stream) == First(Read(stream, {"reasoning", "content"}))
FirstAnswer(stream) == First(Read(stream, {"content"}))

\* The last of each replaces the earlier ones.
Finish(stream) == IF Read(stream, {"finish"}) = {} THEN None
                  ELSE Max(Read(stream, {"finish"}))
Usage(stream) == IF Read(stream, {"usage"}) = {} THEN None ELSE Max(Read(stream, {"usage"}))

CompletionTokens(stream) == IF Usage(stream) = None THEN None ELSE stream[Usage(stream)].tokens
ReasoningTokens(stream) == IF Usage(stream) = None THEN None ELSE stream[Usage(stream)].thought

AnswerTokens(stream, thinking) ==
    LET completion == CompletionTokens(stream)
        reasoning == ReasoningTokens(stream)
    IN IF completion = None THEN None
       ELSE IF reasoning # None THEN IF completion > reasoning THEN completion - reasoning ELSE 0
       ELSE IF thinking THEN None ELSE completion

\* Mutant: without the guard for one token or none.
PerSecondUnguarded(tokens, seconds) ==
    IF tokens = None \/ seconds = None THEN None ELSE (100 * (tokens - 1)) \div seconds

\* Tokens after the first per second, in hundredths.
PerSecond(tokens, seconds) ==
    IF tokens = None \/ seconds = None THEN None
    ELSE IF tokens <= 1 \/ seconds <= 0 THEN None
    ELSE (100 * (tokens - 1)) \div seconds

Rate(stream, thinking) ==
    PerSecond(AnswerTokens(stream, thinking), Since(FirstAnswer(stream), End(stream)))

\* The fields the callers use.
Measured(stream, thinking) ==
    [ttft |-> FirstGenerated(stream),
     ttfa |-> FirstAnswer(stream),
     e2e |-> End(stream),
     tokens |-> CompletionTokens(stream),
     rate |-> Rate(stream, thinking),
     checks |-> UNION {stream[i].holds : i \in Read(stream, {"content"})},
     stop |-> Finish(stream) # None /\ stream[Finish(stream)].stop]

Measurement == [ttft : Nat \cup {None}, ttfa : Nat \cup {None}, e2e : Nat, tokens : Nat \cup {None},
                rate : Nat \cup {None}, checks : SUBSET Check, stop : BOOLEAN]
=============================================================================
