------------------------------- MODULE Rollout -------------------------------
(***************************************************************************)
(* The trainer's two ways to have a batch rolled out: by the agent loop    *)
(* manager on servers (rollout.mode = async), or by the worker group's     *)
(* SGLang engines (sync).  Which one is fixed when the job starts; both    *)
(* owe the trainer the same.                                               *)
(***************************************************************************)
EXTENDS AgentLoop

CONSTANT Options   \* configurations of the SGLang rollout

\* A prompt has a token besides the header of its answer; over_sample_rate is a share.
ASSUME RolloutAssumption ==
  /\ PromptLength >= 2
  /\ Options # {}
  /\ Options \subseteq
       [multiTurn : BOOLEAN, tools : BOOLEAN, interaction : BOOLEAN, tokenIds : BOOLEAN,
        logProbs : BOOLEAN, validate : BOOLEAN, overSample : 0 .. 100, spare : Nat]

VARIABLES
  mode,                                 \* async_rollout_mode
  options, stage, request, rows, busy   \* of SglangRollout

Sglang == INSTANCE SglangRollout

sglangVars == <<options, stage, request, rows, busy>>
agentVars  == vars

\* Of the way that is not taken one configuration is enough.
RolloutInit ==
  /\ Init /\ Sglang!Init
  /\ mode \in {"async", "sync"}
  /\ IF mode = "async" THEN options = CHOOSE o \in Options : TRUE ELSE workers = 1

RolloutNext ==
  /\ IF mode = "async" THEN Next /\ UNCHANGED sglangVars
                       ELSE Sglang!Next /\ UNCHANGED agentVars
  /\ UNCHANGED mode

RolloutVars == <<agentVars, sglangVars, mode>>

RolloutSpec == RolloutInit /\ [][RolloutNext]_RolloutVars

\* Every awaited call answers or raises, and event loops, manager and worker go on.
FairRollout ==
  /\ RolloutSpec
  /\ WF_RolloutVars(mode = "async" /\ Manager /\ UNCHANGED <<sglangVars, mode>>)
  /\ \A s \in Batch : WF_RolloutVars(mode = "async" /\ Sample(s) /\ UNCHANGED <<sglangVars, mode>>)
  /\ WF_RolloutVars(mode = "sync" /\ Sglang!Worker /\ UNCHANGED <<agentVars, mode>>)
  /\ \A r \in Batch :
       WF_RolloutVars(mode = "sync" /\ Sglang!Coroutine(r) /\ UNCHANGED <<agentVars, mode>>)

-----------------------------------------------------------------------------
(* Properties.                                                             *)

\* A row of a batch from SGLang is a conversation: the mask is on what the model's turns are made
\* of and on nothing else, every turn of the model stands behind its header, and a header has a
\* turn behind it unless the sequence is cut there.  Cancelled rows train nothing.
Conversation(row, cut) ==
  /\ Len(row.response) = ResponseLength /\ Len(row.mask) = ResponseLength
  /\ \A i \in 1 .. ResponseLength :
       /\ row.mask[i] <=> row.response[i] \in {"llm", "end"}
       /\ row.response[i] # "prompt"
  /\ row.response[1] \in {"llm", "end", "pad"}
  /\ \A i \in 1 .. ResponseLength - 1 :
       LET first == row.response[i]  second == row.response[i + 1] IN
       /\ first = "header" => second = "llm" \/ i = cut
       /\ second = "llm" => first \in {"header", "llm"}
       /\ second = "end" => first = "llm"
       /\ first = "pad" => second = "pad"

\* Every row that comes back is aligned, whichever way it was made.
RowsAligned ==
  IF mode = "async" THEN OutputAligned
  ELSE stage = "returned" => \A r \in Batch : Conversation(rows[r], Sglang!MaxSequence - request[r].prompt)

\* The limits of a trajectory hold on both ways; an SGLang engine is asked for at least one
\* token, and never for more than its context holds.
LimitsHold ==
  IF mode = "async" THEN WithinLimits
  ELSE \A r \in Batch :
         LET q == request[r] IN
         /\ q.turns <= Sglang!TurnLimit /\ q.userTurns <= Sglang!UserLimit
         /\ q.at = "engine" =>
              Sglang!Room(q) > 0 /\ Len(q.tokens) + Sglang!Room(q) < Sglang!ModelLen

\* No server sleeps under a request.  An SGLang engine works on nothing once a batch has come
\* back, or once a training batch has raised, whatever was cancelled or failed in it: the
\* trainer goes on to take the engine's memory.  The answered rows of a batch that comes back
\* have released their tools.  (Cancelled rows never release theirs.)
EnginesQuiet ==
  IF mode = "async" THEN QuietWhenAsleep
  ELSE /\ stage = "returned" \/ (stage = "raised" /\ options.multiTurn /\ ~options.validate) => busy = {}
       /\ (stage = "returned" /\ options.multiTurn /\ options.tools) =>
            \A r \in Batch : request[r].at = "padded"
                             \/ (request[r].at = "done" /\ request[r].tools = "released")

\* What the contract sees of each way.
Status ==
  IF mode = "async"
  THEN CASE phase = "waking"  -> IF round = 1 THEN "idle" ELSE "returned"
         [] phase = "gather"  -> "generating"
         [] phase = "raised"  -> "raised"
         [] OTHER             -> "returned"
  ELSE IF stage = "stopped" THEN "generating" ELSE stage

AnsweredRows ==
  IF Status # "returned" THEN {}
  ELSE IF mode = "async" THEN {s \in Batch : state[s] = "done"} ELSE Sglang!Answered

HasBroken ==
  IF mode = "async" THEN SomeFailed ELSE Sglang!Failures # {} \/ Sglang!Uncollectable

Contract ==
  INSTANCE RolloutService WITH status <- Status, answered <- AnsweredRows, broken <- HasBroken,
    needed <- IF mode = "async" THEN BatchSize ELSE Sglang!Needed

\* A batch comes back with as many answered rows as were waited for, or raises because an awaited
\* call did, and one of the two always happens.  (Where log-probabilities are asked for, a
\* cancelled row raises too.)
KeepsContract ==
  /\ Contract!Spec
  /\ <>(IF mode = "async" THEN phase \in {"finished", "raised"} ELSE stage \in {"returned", "raised"})
=============================================================================
