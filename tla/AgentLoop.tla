------------------------------ MODULE AgentLoop ------------------------------
(***************************************************************************)
(* Rollout with agent loops.  AgentLoopManager wakes the rollout replicas, *)
(* splits a batch over its agent loop workers, gathers their outputs and   *)
(* puts the replicas to sleep.  A worker runs one ToolAgentLoop per sample *)
(* in one event loop: the samples interleave wherever one awaits a server, *)
(* a tool, an interaction or a reward.                                     *)
(*                                                                         *)
(* A token is its origin.  Servers answer as vLLM's do: at least one token *)
(* and no more than the context has room for.                              *)
(***************************************************************************)
EXTENDS Integers, Sequences, FiniteSets

CONSTANTS
  BatchSize, MaxWorkers, Servers, CacheSize,
  PromptLength, ResponseLength,
  MaxUserTurns, MaxAssistantTurns,   \* 0 for None
  Interactive,                       \* interaction_config_file is set
  LogProbs,                          \* calculate_log_probs
  MaxObservation,                    \* bound: tokens of a tool's or a user's turn
  MaxRounds,                         \* bound: batches
  MaxFailures                        \* bound: awaited calls that raise

ASSUME AgentLoopAssumption ==
  /\ {BatchSize, MaxWorkers, CacheSize, PromptLength, ResponseLength, MaxObservation, MaxRounds}
       \subseteq Nat \ {0}
  /\ Servers \subseteq Nat \ {0} /\ Servers # {} /\ IsFiniteSet(Servers)
  /\ {MaxUserTurns, MaxAssistantTurns, MaxFailures} \subseteq Nat
  /\ {Interactive, LogProbs} \subseteq BOOLEAN

Batch       == 1 .. BatchSize
MaxModelLen == PromptLength + ResponseLength

VARIABLES
  workers,        \* number of agent loop workers
  phase, round,   \* of AgentLoopManager.generate_sequences
  awake,          \* replicas that are not asleep
  load, sessions, \* of each worker's server manager
  state,          \* AgentState of each sample, and where it awaits
  at,             \* server its last turn went to, 0 before the first
  prompt, mask, logprobs,        \* prompt_ids, response_mask, response_logprobs
  userTurns, assistantTurns,
  out             \* AgentLoopOutput of a sample that has ended

manager == <<workers, phase, round, awake>>
servers == <<load, sessions>>
tokens  == <<prompt, mask, logprobs>>
turns   == <<userTurns, assistantTurns>>
vars    == <<manager, servers, state, at, tokens, turns, out>>

ServerManager == INSTANCE ServerManager WITH Workers <- 1 .. MaxWorkers

\* The chunk of the batch a sample is in.
WorkerOf(s) == (s - 1) \div (BatchSize \div workers) + 1

\* request_id: one per trajectory, and not one per turn.
FreshRequest(s) == <<round, s, assistantTurns[s]>>
Request(s)      == <<round, s>>

NoOutput    == [response |-> <<>>, mask |-> <<>>, logprobs |-> <<>>]

Init ==
  /\ workers \in {w \in 1 .. MaxWorkers : BatchSize % w = 0}
  /\ phase = "waking" /\ round = 1 /\ awake = {}
  /\ ServerManager!Init
  /\ state = [s \in Batch |-> "none"]
  /\ at = [s \in Batch |-> 0]
  /\ prompt = [s \in Batch |-> <<>>] /\ mask = prompt /\ logprobs = prompt
  /\ userTurns = [s \in Batch |-> 0] /\ assistantTurns = userTurns
  /\ out = [s \in Batch |-> NoOutput]

-----------------------------------------------------------------------------
(* AgentLoopManager.generate_sequences.                                    *)

WakeUp(v) ==
  /\ phase = "waking" /\ v \notin awake
  /\ awake' = awake \cup {v}
  /\ UNCHANGED <<workers, phase, round, servers, state, at, tokens, turns, out>>

Dispatch ==
  /\ phase = "waking" /\ awake = Servers
  /\ phase' = "gather"
  /\ state' = [s \in Batch |-> "pending"]
  /\ at' = [s \in Batch |-> 0]
  /\ out' = [s \in Batch |-> NoOutput]
  /\ UNCHANGED <<workers, round, awake, servers, tokens, turns>>

\* asyncio.gather in each worker and ray.get in the manager: all outputs, or
\* the first exception, which leaves the other samples running.
FirstDone == \E s \in Batch : state[s] = "done"
AllDone   == \A s \in Batch : state[s] = "done"

Gathered ==
  /\ phase = "gather" /\ AllDone
  /\ phase' = "sleeping"
  /\ UNCHANGED <<workers, round, awake, servers, state, at, tokens, turns, out>>

SomeFailed == \E s \in Batch : state[s] = "failed"

Raised ==
  /\ phase = "gather" /\ SomeFailed
  /\ phase' = "raised"
  /\ UNCHANGED <<workers, round, awake, servers, state, at, tokens, turns, out>>

Sleep(v) ==
  /\ phase = "sleeping" /\ v \in awake
  /\ awake' = awake \ {v}
  /\ UNCHANGED <<workers, phase, round, servers, state, at, tokens, turns, out>>

\* The trainer's next batch, from the same workers.
NextBatch ==
  /\ phase = "sleeping" /\ awake = {}
  /\ IF round < MaxRounds THEN phase' = "waking" /\ round' = round + 1
                          ELSE phase' = "finished" /\ UNCHANGED round
  /\ UNCHANGED <<workers, awake, servers, state, at, tokens, turns, out>>

-----------------------------------------------------------------------------
(* ToolAgentLoop.run of sample s.                                          *)

Goto(s, next) == state' = [state EXCEPT ![s] = next]

ApplyTemplate(s) ==
  /\ state[s] = "pending"
  /\ \E n \in 1 .. PromptLength : prompt' = [prompt EXCEPT ![s] = [i \in 1 .. n |-> "prompt"]]
  /\ Goto(s, "generating")
  /\ UNCHANGED <<manager, servers, at, mask, logprobs, turns, out>>

SendRequest(s) ==
  /\ state[s] = "generating"
  /\ \E v \in Servers : ServerManager!Choose(WorkerOf(s), Request(s), v) /\ at' = [at EXCEPT ![s] = v]
  /\ Goto(s, "requested")
  /\ UNCHANGED <<manager, tokens, turns, out>>

\* n tokens that the model made, or that it only read.
Generated(n) == [i \in 1 .. n |-> 1]
Observed(n)  == [i \in 1 .. n |-> 0]

Extend(s, origin, bits) ==
  /\ prompt' = [prompt EXCEPT ![s] = @ \o [i \in DOMAIN bits |-> origin]]
  /\ mask' = [mask EXCEPT ![s] = @ \o bits]
  /\ logprobs' = IF (origin = "llm" /\ LogProbs) \/ logprobs[s] # <<>>
                 THEN [logprobs EXCEPT ![s] = @ \o bits] ELSE logprobs

AtLimit(count, limit)   == limit # 0 /\ count >= limit

\* What the model's turn leads to depends on the limits, then on what it says:
\* tool calls, or none.
AfterTurn(s, length) ==
  IF \/ length >= ResponseLength
     \/ AtLimit(assistantTurns[s] + 1, MaxAssistantTurns)
     \/ AtLimit(userTurns[s], MaxUserTurns)
  THEN {"terminated"}
  ELSE {"processing_tools", IF Interactive THEN "interacting" ELSE "terminated"}

Answer(s) ==
  /\ state[s] = "requested"
  /\ \E n \in 1 .. MaxModelLen - Len(prompt[s]) :
       /\ Extend(s, "llm", Generated(n))
       /\ \E next \in AfterTurn(s, Len(mask[s]) + n) : Goto(s, next)
  /\ assistantTurns' = [assistantTurns EXCEPT ![s] = @ + 1]
  /\ UNCHANGED <<manager, servers, at, userTurns, out>>

\* A server has no room for a single token: it raises.
Reject(s) ==
  /\ state[s] = "requested" /\ Len(prompt[s]) >= MaxModelLen
  /\ Goto(s, "failed")
  /\ UNCHANGED <<manager, servers, at, tokens, turns, out>>

\* The answers of the turn's tools, errors included, fit into the response or
\* end it.
NoRoom(length) == length >= ResponseLength

RunTools(s) ==
  /\ state[s] = "processing_tools"
  /\ \E n \in 1 .. MaxObservation :
       IF NoRoom(Len(mask[s]) + n)
       THEN Goto(s, "terminated") /\ UNCHANGED <<tokens, userTurns>>
       ELSE /\ Extend(s, "tool", Observed(n))
            /\ userTurns' = [userTurns EXCEPT ![s] = @ + 1]
            /\ Goto(s, "generating")
  /\ UNCHANGED <<manager, servers, at, assistantTurns, out>>

Interact(s) ==
  /\ state[s] = "interacting"
  /\ \E n \in 1 .. MaxObservation : Extend(s, "user", Observed(n))
  /\ userTurns' = [userTurns EXCEPT ![s] = @ + 1]
  /\ \E next \in {"terminated", "generating"} : Goto(s, next)
  /\ UNCHANGED <<manager, servers, at, assistantTurns, out>>

\* prompt_ids[-len(response_mask):], which is all of it for an empty mask.
Response(s) ==
  IF mask[s] = <<>> THEN prompt[s]
  ELSE SubSeq(prompt[s], Len(prompt[s]) - Len(mask[s]) + 1, Len(prompt[s]))

Truncate(q) == SubSeq(q, 1, IF Len(q) <= ResponseLength THEN Len(q) ELSE ResponseLength)

Finish(s) ==
  /\ state[s] = "terminated"
  /\ out' = [out EXCEPT ![s] = [response |-> Truncate(Response(s)),
                                mask     |-> Truncate(mask[s]),
                                logprobs |-> Truncate(logprobs[s])]]
  /\ prompt' = [prompt EXCEPT ![s] = <<>>]
  /\ mask' = [mask EXCEPT ![s] = <<>>]
  /\ logprobs' = [logprobs EXCEPT ![s] = <<>>]
  /\ userTurns' = [userTurns EXCEPT ![s] = 0]
  /\ assistantTurns' = [assistantTurns EXCEPT ![s] = 0]
  /\ Goto(s, "scoring")
  /\ UNCHANGED <<manager, servers, at>>

\* compute_score of the reward manager worker, after the padding.
Score(s) ==
  /\ state[s] = "scoring"
  /\ Goto(s, "done")
  /\ UNCHANGED <<manager, servers, at, tokens, turns, out>>

\* An awaited call raises, and nobody catches it.
Failed == {s \in Batch : state[s] = "failed"}

Fail(s) ==
  /\ Cardinality(Failed) < MaxFailures
  /\ state[s] \in {"pending", "requested", "processing_tools", "interacting", "scoring"}
  /\ Goto(s, "failed")
  /\ UNCHANGED <<manager, servers, at, tokens, turns, out>>

-----------------------------------------------------------------------------
Manager == Dispatch \/ Gathered \/ Raised \/ NextBatch \/ \E v \in Servers : WakeUp(v) \/ Sleep(v)

Sample(s) ==
  \/ ApplyTemplate(s) \/ SendRequest(s) \/ Answer(s) \/ Reject(s) \/ RunTools(s) \/ Interact(s)
  \/ Finish(s) \/ Score(s)

Next == Manager \/ \E s \in Batch : Sample(s) \/ Fail(s)

Spec == Init /\ [][Next]_vars

\* Every awaited call answers or raises, and event loop and manager go on.
FairSpec == Spec /\ WF_vars(Manager) /\ \A s \in Batch : WF_vars(Sample(s))

-----------------------------------------------------------------------------
(* Properties.                                                             *)

\* Every output the trainer gets is aligned: mask, log-probabilities and tokens
\* have the same length, the mask is 1 exactly on what the model made, and
\* nothing of the prompt is in the response.
OutputAligned ==
  \A s \in Batch : state[s] \in {"scoring", "done"} =>
    LET o == out[s] IN
    /\ Len(o.mask) = Len(o.response)
    /\ LogProbs => Len(o.logprobs) = Len(o.mask)
    /\ \A i \in DOMAIN o.mask :
         /\ o.mask[i] = 1 <=> o.response[i] = "llm"
         /\ o.response[i] # "prompt"
         /\ LogProbs => o.logprobs[i] = o.mask[i]

\* The limits of a trajectory hold whichever of its steps reaches them first: its turns, whether a
\* tool or an interaction takes them, and the response it is cut to.  Tools leave room for the
\* model's next token, so that a request a server rejects comes after an interaction.
WithinLimits ==
  \A s \in Batch :
    /\ MaxUserTurns # 0 => userTurns[s] <= MaxUserTurns
    /\ MaxAssistantTurns # 0 => assistantTurns[s] <= MaxAssistantTurns
    /\ Len(out[s].response) <= ResponseLength
    /\ state[s] = "requested" /\ Len(prompt[s]) >= MaxModelLen => prompt[s][Len(prompt[s])] = "user"

\* All turns of a trajectory go to one server, as long as the cache of sessions has
\* room for the trajectories of its worker: what earlier batches have left in the
\* cache makes way first.
OneServer == [][\A s \in Batch : round' = round /\ at[s] # 0 /\ phase # "waking" => at'[s] = at[s]]_vars

\* A replica is asleep, its weights and cache gone, only when it has no request,
\* also when a batch was left with an exception.
QuietWhenAsleep == \A s \in Batch : state[s] = "requested" => at[s] \in awake
=============================================================================
