---------------------------- MODULE SglangRollout ----------------------------
(***************************************************************************)
(* Rollout with SGLang inside the worker, rollout.mode = sync: the first   *)
(* rank of a tensor-parallel group runs one coroutine per row of the batch *)
(* in its event loop (_async_rollout_a_request), and broadcasts the rows   *)
(* to the others.  A training batch may be asked for with more rows than   *)
(* are waited for: the rest is cancelled and comes back as padding.        *)
(*                                                                         *)
(* A token is its origin.  The header is what the chat template puts       *)
(* before an assistant's turn, end what it puts after one; both stand for  *)
(* as many tokens as the template has.                                     *)
(***************************************************************************)
EXTENDS Integers, Sequences, FiniteSets

CONSTANTS
  BatchSize, PromptLength, ResponseLength,
  MaxUserTurns, MaxAssistantTurns,   \* 0 for None
  MaxObservation,                    \* bound: tokens of a tool's or a user's turn
  MaxFailures,                       \* bound: awaited calls that raise
  Options                            \* configurations of the worker

VARIABLES
  options,   \* multiTurn, tools, interaction, tokenIds (skip_tokenizer_init), logProbs, validate,
             \* overSample (in percent), spare (of max_model_len over prompt and response)
  stage,     \* of generate_sequences
  request,   \* the AsyncRolloutRequest of each row, and where its coroutine awaits
  rows,      \* the batch that is returned
  busy       \* the rows the engine works on

sglangVars == <<options, stage, request, rows, busy>>

Requests == 1 .. BatchSize
Cap(a, b) == IF a <= b THEN a ELSE b
Cut(q, n) == SubSeq(q, 1, Cap(Len(q), n))
Repeat(x, n) == [i \in 1 .. n |-> x]

\* max_model_len of the configuration, and the turns it stands for where none are given.
ModelLen     == PromptLength + ResponseLength + options.spare
TurnLimit    == IF MaxAssistantTurns = 0 THEN ModelLen \div 3 ELSE MaxAssistantTurns
UserLimit    == IF MaxUserTurns = 0 THEN ModelLen \div 3 ELSE MaxUserTurns

-----------------------------------------------------------------------------
(* AsyncRolloutRequest.                                                    *)

\* The prompt ends with the header of the first answer.
NewRequest(n) ==
  [at |-> "ready", prompt |-> n, tokens |-> Append(Repeat("prompt", n - 1), "header"),
   loss |-> Repeat(FALSE, n), turns |-> 0, userTurns |-> 0, finish |-> "none", tools |-> "none"]

\* _update_input_ids
Add(q, new, trained) ==
  [q EXCEPT !.tokens = @ \o new, !.loss = @ \o Repeat(trained, Len(new))]

EndsWithHeader(q) == q.tokens # <<>> /\ q.tokens[Len(q.tokens)] = "header"

WithHeader(q) == IF EndsWithHeader(q) THEN q ELSE Add(q, <<"header">>, FALSE)

KeepsHeader(q) == q

WithoutHeader(q) ==
  IF EndsWithHeader(q)
  THEN [q EXCEPT !.tokens = Cut(@, Len(@) - 1), !.loss = Cut(@, Len(@) - 1)]
  ELSE q

\* An answer is taken over as the ids the engine gave, or rendered again from its text: always
\* so for one with tool calls, whose text was normalised.
AddAnswer(q, n, rendered) ==
  Add(q, IF rendered THEN Append(Repeat("llm", n), "end") ELSE Repeat("llm", n), TRUE)

\* An empty observation adds nothing at all.
AddObservation(q, origin, n) ==
  IF n = 0 THEN q ELSE Add(WithoutHeader(q), Repeat(origin, n), FALSE)

\* finalize, with its refusal of a conversation that waits for a tool, and truncate_output_ids.
MaxSequence == Cap(ModelLen, PromptLength + ResponseLength)

Finalized(q) ==
  [WithoutHeader(q) EXCEPT
     !.tokens = Cut(@, MaxSequence),
     !.loss   = Cut(@, MaxSequence),
     !.at     = CASE q.finish \notin {"stop", "length"} -> "refused"
                  [] options.logProbs -> "logprobs"
                  [] OTHER -> "done"]

Response(q)     == Cut(SubSeq(q.tokens, q.prompt + 1, Len(q.tokens)), ResponseLength)
ResponseLoss(q) == Cut(SubSeq(q.loss, q.prompt + 1, Len(q.loss)), ResponseLength)

-----------------------------------------------------------------------------
(* _async_rollout_a_request, from one await to the next.                   *)

OutOfTurns(q) == q.turns >= TurnLimit

\* Whatever a conversation that is out of turns waited for, it has stopped.
AsTold(q, finish)   == finish
FinishOf(q, finish) == IF OutOfTurns(q) THEN "stop" ELSE finish

\* Out of the loop: the tools are asked for their rewards and released.
Leave(q, finish) ==
  LET p == [q EXCEPT !.finish = FinishOf(q, finish)]
  IN  IF options.tools THEN [p EXCEPT !.at = "release"] ELSE Finalized(p)

\* The engine is asked only if it has room for a token and the one that ends the sequence.
Crammed(length) == length >= ModelLen
Full(length)    == length + 1 >= ModelLen

Ask(q) ==
  LET p == WithHeader(q)
  IN  IF Full(Len(p.tokens)) THEN Leave(p, "length") ELSE [p EXCEPT !.at = "engine"]

Resume(q) == IF OutOfTurns(q) THEN Leave(q, q.finish) ELSE Ask(q)

\* The answer of a tool or a user may fill the model's context.
Observed(q) == IF Len(q.tokens) >= ModelLen THEN Leave(q, "stop") ELSE Resume(q)

\* A pending request creates its tools and starts its interaction.
Started(q) == IF options.tools \/ options.interaction THEN [q EXCEPT !.at = "create"] ELSE Ask(q)

Room(q) == Cap(ResponseLength, ModelLen - Len(q.tokens) - 1)

\* What becomes of an answer of n tokens: it was cut off, it calls tools, it is handed to the
\* user, or it ends the conversation, also where its calls could not be parsed.
Answers(q, n) ==
  LET told   == [q EXCEPT !.turns = @ + 1]
      plain  == AddAnswer(told, n, ~options.tokenIds)
      calls  == AddAnswer([told EXCEPT !.finish = "tool_calls"], n, TRUE)
      toUser == options.interaction /\ told.userTurns < UserLimit /\ ~OutOfTurns(told)
  IN  (IF n = Room(q) THEN {Leave(plain, "length")} ELSE {})
      \cup (IF options.tools
            THEN {IF OutOfTurns(calls) THEN Leave(calls, calls.finish) ELSE [calls EXCEPT !.at = "tools"],
                  Leave(plain, "stop")}
            ELSE {})
      \cup {IF toUser THEN [plain EXCEPT !.at = "user", !.userTurns = @ + 1] ELSE Leave(plain, "stop")}

-----------------------------------------------------------------------------
(* generate_sequences.                                                     *)

Running == stage = "generating"
Becomes(r, q) == request' = [request EXCEPT ![r] = q] /\ UNCHANGED <<options, stage, rows>>

\* Where a coroutine, or the call for the whole batch, awaits the engine.
InEngine(q) == q.at \in {"engine", "logprobs", "batch"}

\* From one answer to the next question: the engine has answered r, and may be asked again.
Moves(r, q) ==
  /\ Becomes(r, q)
  /\ busy' = IF InEngine(q) THEN busy \cup {r} ELSE busy \ {r}

\* Where a prompt is rendered together with its tools it may get longer than it should be, which
\* is only logged.
PromptLengths == 2 .. (IF options.tools THEN PromptLength + 1 ELSE PromptLength)

Init ==
  /\ options \in Options
  /\ stage = "idle"
  /\ request = [r \in Requests |-> NewRequest(2)]
  /\ rows = <<>>
  /\ busy = {}

\* All coroutines run to their first await before any of them is answered.  Without turns there
\* are none: the whole batch is one call of the engine.
Begin ==
  /\ stage = "idle"
  /\ stage' = "generating"
  /\ \E prompt \in [Requests -> PromptLengths] :
       request' = [r \in Requests |->
         IF options.multiTurn THEN Started(NewRequest(prompt[r]))
                              ELSE [NewRequest(prompt[r]) EXCEPT !.at = "batch"]]
  /\ busy' = {r \in Requests : InEngine(request'[r])}
  /\ UNCHANGED <<options, rows>>

Created(r) ==
  /\ Running /\ request[r].at = "create"
  /\ Moves(r, Ask([request[r] EXCEPT !.tools = IF options.tools THEN "held" ELSE @]))

EngineAnswers(r) ==
  /\ Running /\ request[r].at = "engine"
  /\ \E n \in 1 .. Room(request[r]) : \E q \in Answers(request[r], n) : Moves(r, q)

ToolsAnswer(r) ==
  /\ Running /\ request[r].at = "tools"
  /\ \E n \in 0 .. MaxObservation : Moves(r, Observed(AddObservation(request[r], "tool", n)))

\* The interaction ends the conversation or goes on with it.
UserAnswers(r) ==
  /\ Running /\ request[r].at = "user"
  /\ \/ Moves(r, Leave(request[r], "stop"))
     \/ \E n \in 1 .. MaxObservation : Moves(r, Observed(Add(request[r], Repeat("user", n), FALSE)))

Released(r) ==
  /\ Running /\ request[r].at = "release"
  /\ Moves(r, Finalized([request[r] EXCEPT !.tools = "released"]))

LogProbsAnswer(r) ==
  /\ Running /\ request[r].at = "logprobs"
  /\ Moves(r, [request[r] EXCEPT !.at = "done"])

Failures == {r \in Requests : request[r].at = "failed"}
Broken   == {r \in Requests : request[r].at \in {"failed", "refused"}}

\* An awaited call raises, and the coroutine with it.  If it was the engine's, that may still
\* have the row.
Fail(r) ==
  /\ Running /\ request[r].at \notin {"done", "failed", "refused"}
  /\ Cardinality(Failures) < MaxFailures
  /\ Becomes(r, [request[r] EXCEPT !.at = "failed"])
  /\ busy' \in {busy, busy \ {r}}

Answered == {r \in Requests : request[r].at = "done"}

\* As many rows as are waited for; as_completed yields one before it is counted.
Target == (BatchSize * (100 - options.overSample)) \div 100
Needed == IF options.multiTurn /\ ~options.validate /\ Target > 1 THEN Target
          ELSE IF options.multiTurn /\ ~options.validate THEN 1
          ELSE BatchSize

\* Of a training batch, what has not ended by then is cancelled where it awaits, which the engine
\* does not hear of: the padding that takes its place is made from the request as it came.
\* Validation waits for all, or for the first exception.
Padding(q) == [NewRequest(q.prompt) EXCEPT !.at = "padded", !.tools = q.tools]

Unanswered(r) == request[r].at \notin {"done", "failed", "refused"}

Stop ==
  /\ Running
  /\ Cardinality(Answered) >= Needed \/ Broken # {}
  /\ stage' = "stopped"
  /\ request' = [r \in Requests |->
       IF ~options.validate /\ Unanswered(r) THEN Padding(request[r]) ELSE request[r]]
  /\ UNCHANGED <<options, rows, busy>>

PadTo(q, filler) == q \o Repeat(filler, ResponseLength - Len(q))

RowOf(q) ==
  IF q.at = "padded"
  THEN [response |-> Repeat("pad", ResponseLength), mask |-> Repeat(FALSE, ResponseLength)]
  ELSE [response |-> PadTo(Response(q), "pad"), mask |-> PadTo(ResponseLoss(q), FALSE)]

\* The rows of padding have no log-probabilities to take a slice of.
Uncollectable == options.logProbs /\ \E r \in Requests : request[r].at = "padded"

\* A training batch aborts whatever the engine still works on.
NoAbort    == busy
Aborts     == options.multiTurn /\ ~options.validate
AfterAbort == IF Aborts THEN {} ELSE busy

\* An exception stands in place of a failed row, and is no row to sort.
Collect ==
  /\ stage = "stopped"
  /\ IF Broken # {} \/ Uncollectable
     THEN stage' = "raised" /\ UNCHANGED rows
     ELSE stage' = "returned" /\ rows' = [r \in Requests |-> RowOf(request[r])]
  /\ busy' = AfterAbort
  /\ UNCHANGED <<options, request>>

\* get_response_mask: up to the first token that ends the sequence, or all of it.
EosMask(response) == [i \in DOMAIN response |-> \A j \in 1 .. i - 1 : response[j] # "end"]

EngineAnswersBatch ==
  /\ Running /\ \A r \in Requests : request[r].at = "batch"
  /\ \E length \in [Requests -> 1 .. ResponseLength], ended \in [Requests -> BOOLEAN] :
       /\ \A r \in Requests : ended[r] \/ length[r] = ResponseLength
       /\ rows' = [r \in Requests |->
            LET made     == Repeat("llm", length[r] - 1) \o <<IF ended[r] THEN "end" ELSE "llm">>
                response == PadTo(made, "pad")
            IN  [response |-> response, mask |-> EosMask(response)]]
  /\ stage' = "returned"
  /\ request' = [r \in Requests |-> [request[r] EXCEPT !.at = "done"]]
  /\ busy' = {}
  /\ UNCHANGED options

-----------------------------------------------------------------------------
Coroutine(r) ==
  Created(r) \/ EngineAnswers(r) \/ ToolsAnswer(r) \/ UserAnswers(r) \/ Released(r) \/ LogProbsAnswer(r)

Worker == Begin \/ Stop \/ Collect \/ EngineAnswersBatch

Next == Worker \/ \E r \in Requests : Coroutine(r) \/ Fail(r)
=============================================================================
