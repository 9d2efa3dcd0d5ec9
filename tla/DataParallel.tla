---------------------------- MODULE DataParallel ----------------------------
(***************************************************************************)
(* The way of a batch through one training step of RayPPOTrainer.fit (and  *)
(* one batch of _validate): dealt to the agent loop workers for            *)
(* generation, balanced, dispatched to the ranks of the actor worker       *)
(* group, cut into micro-batches there, run through the packed forward of  *)
(* a sequence-parallel group, restored, collected and joined to the        *)
(* driver's batch, given values by the critic's worker group in the same   *)
(* way, rewarded, ranked for token selection, and trained on by critic and *)
(* actor in mini-batches with one optimizer step each.                     *)
(*                                                                         *)
(* Every rank of the worker group takes part in every forward and          *)
(* backward (FSDP gathers the parameters from all of them, a Megatron      *)
(* pipeline passes a micro-batch from stage to stage), so a step of the    *)
(* ranks is one joint action, and a rank with no micro-batch left while    *)
(* another has one makes both wait forever.                                *)
(***************************************************************************)
EXTENDS DataProto, SeqlenBalancing, TokenSelection, PackedForward, Advantages, FiniteSets

CONSTANTS Configs,          \* the configurations a run may have
          Shapes,           \* [prompt, response, valid]: lengths and unmasked positions
          Divergence(_, _), \* of a response and a position
          Outcome(_),       \* what a response scores, and the greedy response to a prompt
          GreedyOutcome(_),
          TokenReward(_, _),
          Value(_)          \* the critic's, of the tokens up to one

\* What the constructors and _validate_config ask of a configuration, and of a response.
ASSUME ConfigsAssumption ==
  \A c \in Configs :
    /\ {c.world, c.tp, c.sp, c.pp, c.vppGroup, c.prompts, c.n, c.workers, c.maxTokens,
        c.micro, c.mini, c.epochs} \subseteq Nat \ {0}
    /\ {c.validate, c.balance, c.dynamic, c.topk, c.batchAgg} \subseteq BOOLEAN
    /\ c.world % (c.tp * c.sp * c.pp) = 0
    /\ c.backend # "megatron" => c.tp = 1 /\ c.pp = 1
    /\ c.topk => c.backend # "megatron"   \* only dp_actor has top-k ids
    /\ c.mini * c.n >= c.world \div (c.tp * c.sp * c.pp)
    /\ c.estimator \in Estimators
    /\ c.mode \in {"off", "absolute", "random"} \cup RankingModes
    /\ c.mode # "off" => c.backend # "megatron"   \* only dp_actor selects tokens
    /\ c.batchAgg => c.mode \in RankingModes
    /\ c.fraction \in 1 .. 100 /\ c.globalStep \in Nat
    /\ \A area \in {c.ladder} \cup c.areas : area \in (0 .. 99) \X (1 .. 100) /\ area[1] < area[2]
    /\ \A id \in 1 .. c.prompts * c.n : \A t \in 1 .. ResponseLength : Divergence(id, t) \in Int
ASSUME ShapesAssumption ==
  \A s \in Shapes :
    /\ s.prompt \in 1 .. PromptLength
    /\ s.response \in 1 .. ResponseLength
    /\ s.valid \subseteq 1 .. s.response

VARIABLES cfg, phase, batch, work, mini, steps

vars == <<cfg, phase, batch, work, mini, steps>>

-----------------------------------------------------------------------------
\* The dispatch mesh of the actor, and of a critic configured like it.  FSDP ranks are
\* data- and sequence-parallel (tp and pp are 1); Megatron ranks are tensor-, context-,
\* data- and pipeline-parallel, in this order, and sp is the number of the second.

Ranks == 0 .. cfg.world - 1
Megatron == cfg.backend = "megatron"

Stage(r)  == r \div (cfg.world \div cfg.pp)
Dp        == cfg.world \div (cfg.tp * cfg.sp * cfg.pp)
DpRank(r) == (r \div (cfg.tp * cfg.sp)) % Dp
SpRank(r) == (r \div cfg.tp) % cfg.sp

\* Of the ranks that have the same rows one answers: a Megatron stage before the last has
\* nothing to say.
Collects(r) == r % cfg.tp = 0 /\ SpRank(r) = 0 /\ Stage(r) = cfg.pp - 1
LastStage(r) == r + (cfg.pp - 1 - Stage(r)) * (cfg.world \div cfg.pp)

\* The ranks that share the tokens of rank r's rows.
Group(r) == [s \in 1 .. cfg.sp |-> r + (s - 1 - SpRank(r)) * cfg.tp]

DispatchTo(data) ==
  LET chunks == Chunk(data, Dp) IN [r \in Ranks |-> chunks[DpRank(r) + 1]]

CollectFrom(outputs) ==
  LET ranks == Increasing(SetToSeq({r \in Ranks : Collects(r)}))
  IN  Concat([i \in DOMAIN ranks |-> outputs[ranks[i]]])

-----------------------------------------------------------------------------
\* Generation.

\* The order _build_per_prompt_balanced_indices gives, when it gives one.
PerPromptOrder(prompts, times, workers) ==
  LET share == times \div workers
  IN  [i \in 1 .. prompts * times |->
        LET worker == (i - 1) \div (prompts * share)
            prompt == ((i - 1) % (prompts * share)) \div share
        IN  prompt * times + worker * share + ((i - 1) % share) + 1]

GenerationBatch ==
  LET prompts  == [p \in 1 .. cfg.prompts |-> p]
      columns  == Union([uid |-> prompts],
                        IF cfg.estimator = "remax"
                          THEN [reward_baselines |-> [p \in DOMAIN prompts |-> GreedyOutcome(p)]]
                          ELSE <<>>)
      repeated == Repeat(columns, cfg.n)
  IN  IF cfg.validate /\ cfg.n % cfg.workers = 0
        THEN Reorder(repeated, PerPromptOrder(cfg.prompts, cfg.n, cfg.workers))
        ELSE repeated

Init ==
  /\ cfg \in Configs
  /\ phase = "start"
  /\ batch = <<>>
  /\ work = <<>>
  /\ mini = 0
  /\ steps = [critic |-> <<>>, actor |-> <<>>]

\* Only _validate pads.
PaddedPrompts ==
  IF cfg.validate THEN PadToDivisor(GenerationBatch, cfg.workers) ELSE GenerationBatch

CallGenerate ==
  /\ phase = "start"
  /\ batch' = GenerationBatch
  /\ LET padded == PaddedPrompts
         size   == Rows(padded) \div cfg.workers
         own    == Chunk(Select(padded, {"uid"}), cfg.workers)
     IN  /\ CanChunk(padded, cfg.workers)
         /\ work' = [w \in 1 .. cfg.workers |-> [first |-> (w - 1) * size, data |-> own[w]]]
  /\ phase' = "generating"
  /\ UNCHANGED <<cfg, mini, steps>>

\* A worker answers, in any order, with one response for each of its rows.
Generate(w) ==
  /\ phase = "generating"
  /\ "responses" \notin DOMAIN work[w].data
  /\ \E shapes \in [1 .. Rows(work[w].data) -> Shapes] :
       LET Response(i) == [id       |-> work[w].first + i,
                           source   |-> work[w].data.uid[i],
                           prompt   |-> shapes[i].prompt,
                           response |-> shapes[i].response,
                           valid    |-> shapes[i].valid]
       IN  work' = [work EXCEPT ![w].data =
                      [uid |-> @.uid, responses |-> [i \in DOMAIN shapes |-> Response(i)]]]
  /\ UNCHANGED <<cfg, phase, batch, mini, steps>>

CollectGenerate ==
  /\ phase = "generating"
  /\ \A w \in DOMAIN work : "responses" \in DOMAIN work[w].data
  /\ LET all == Concat([w \in DOMAIN work |-> work[w].data])
         own == IF cfg.validate THEN Unpad(all, Rows(all) - Rows(batch)) ELSE all
     IN  /\ CanUnion(batch, own)
         /\ batch' = Union(batch, own)
  /\ phase' = IF cfg.validate THEN "done" ELSE "generated"
  /\ work' = IF cfg.validate THEN work ELSE <<>>
  /\ UNCHANGED <<cfg, mini, steps>>

-----------------------------------------------------------------------------
\* Balancing, and the log-probabilities of the responses.

Lengths(data) == [i \in 1 .. Rows(data) |-> data.responses[i].prompt + data.responses[i].response]

CanBalance == CanPartition(Workloads(Lengths(batch)), cfg.world, TRUE)

\* _balance_batch.
Balance ==
  /\ phase = "generated"
  /\ cfg.balance => CanBalance
  /\ batch' = IF cfg.balance THEN Reorder(batch, BalancedOrder(Lengths(batch), cfg.world)) ELSE batch
  /\ phase' = "balanced"
  /\ UNCHANGED <<cfg, work, mini, steps>>

\* Rows that do not divide evenly among the agent loop workers, the ranks to balance or the
\* data-parallel ranks: an assertion ends fit.
CannotDivide ==
  /\ \/ phase = "start" /\ ~CanChunk(PaddedPrompts, cfg.workers)
     \/ phase = "generated" /\ cfg.balance /\ ~CanBalance
     \/ phase = "balanced" /\ ~CanChunk(batch, Dp)
  /\ phase' = "raised"
  /\ UNCHANGED <<cfg, batch, work, mini, steps>>

MaxTokens == cfg.maxTokens * cfg.sp

\* Without dynamic batches: split.
Consecutive(rows, size) ==
  [k \in 1 .. CeilDiv(rows, size) |->
     [i \in 1 .. Min({size, rows - (k - 1) * size}) |-> (k - 1) * size + i]]

\* The number each rank would take alone, and the one the all_reduce leaves them all with.
OwnNumber(shares, r)    == MicroBatchesWanted(Lengths(shares[r]), MaxTokens)
AgreedNumber(shares, r) == Max({OwnNumber(shares, other) : other \in Ranks})

\* A pipeline with virtual stages takes micro-batches in groups; a number rounded up past
\* the rows, or a row shorter than its chunks, ends the call with an error.
NumberOfMicro(shares, r) == CeilDiv(AgreedNumber(shares, r), cfg.vppGroup) * cfg.vppGroup
CanForward(shares) ==
  /\ cfg.dynamic => \A r \in Ranks : NumberOfMicro(shares, r) <= Rows(shares[r])
  /\ Megatron => \A r \in Ranks : \A i \in 1 .. Rows(shares[r]) :
                   FillsFront(shares[r].responses[i], cfg.tp, cfg.sp)

\* A Megatron pipeline works on what its last stage was given.
MicroBatched(given) ==
  LET shares == [r \in Ranks |-> given[LastStage(r)]] IN
  [r \in Ranks |->
    [data  |-> shares[r],
     parts |-> IF cfg.dynamic THEN MicroBatches(Lengths(shares[r]), NumberOfMicro(shares, r))
                              ELSE Consecutive(Rows(shares[r]), cfg.micro),
     out   |-> <<>>]]

\* A method of the worker group begins, or raises.
Begin(shares, next) ==
  IF CanForward(shares) THEN work' = MicroBatched(shares) /\ phase' = next
                        ELSE work' = <<>> /\ phase' = "raised"

CallLogProb ==
  /\ phase = "balanced"
  /\ CanChunk(batch, Dp)
  /\ Begin(DispatchTo(Select(batch, {"responses"})), "log_prob")
  /\ UNCHANGED <<cfg, batch, mini, steps>>

CurrentMicro(r) == SelectIdxs(work[r].data, work[r].parts[Len(work[r].out) + 1])

\* Each rank of a group computes a slice of the tokens of its own copy of the rows.
LogitsOf(r, s) ==
  LET rows == CurrentMicro(Group(r)[s]).responses
  IN  IF Megatron THEN ChunkLogits(rows, cfg.tp, cfg.sp, s - 1) ELSE OwnLogits(rows, cfg.sp, s - 1)
LogProbsOf(r, s) ==
  LET rows == CurrentMicro(Group(r)[s]).responses
  IN  IF Megatron THEN ChunkLogProbs(rows, cfg.tp, cfg.sp, s - 1) ELSE OwnLogProbs(rows, cfg.sp, s - 1)

\* The shares of a group, put together again.
InGroup(r, shares) ==
  LET rows == CurrentMicro(r).responses
  IN  ResponsePart(rows, IF Megatron THEN JoinedChunks(rows, shares, cfg.tp, cfg.sp)
                         ELSE GatheredShares(shares, PadSize(Packed(rows), cfg.sp)))

Running == \E r \in Ranks : Len(work[r].out) < Len(work[r].parts)
\* Only the last stage of a pipeline has a result; the others get it broadcast.
Forward(results) ==
  /\ \A r \in Ranks : Len(work[r].out) < Len(work[r].parts)
  /\ work' = [r \in Ranks |-> [work[r] EXCEPT !.out = Append(@, results[LastStage(r)])]]

ScoredMicro(r) ==
  LET ByRank(Share(_)) == InGroup(r, [s \in 1 .. cfg.sp |-> Share(s)])
      Own(s)    == LogProbsOf(r, s)
      Top(s)    == TopIds(LogitsOf(r, s))
      TopOwn(s) == LogProbs(LogitsOf(r, s), TopIds(LogitsOf(r, s)))
  IN  Union([old_log_probs |-> ByRank(Own)],
            IF cfg.topk THEN [student_top_k_ids       |-> ByRank(Top),
                              student_top_k_log_probs |-> ByRank(TopOwn)] ELSE <<>>)

ComputeLogProb ==
  /\ phase = "log_prob"
  /\ Forward([r \in Ranks |-> ScoredMicro(r)])
  /\ UNCHANGED <<cfg, phase, batch, mini, steps>>

\* torch.concat of the micro-batches, and restore_dynamic_batch.
RankResult(r) ==
  LET all == Concat(work[r].out)
  IN  IF cfg.dynamic THEN [c \in DOMAIN all |-> Restored(all[c], work[r].parts)] ELSE all

CollectLogProb ==
  /\ phase = "log_prob"
  /\ ~Running
  /\ LET scored == CollectFrom([r \in Ranks |-> RankResult(r)])
     IN  CanUnion(batch, scored) /\ batch' = Union(batch, scored)
  /\ phase' = "scored"
  /\ work' = <<>>
  /\ UNCHANGED <<cfg, mini, steps>>

-----------------------------------------------------------------------------
\* The critic's values, the rewards and the advantages.

UsesCritic == cfg.estimator = "gae"

CallValues ==
  /\ phase = "scored"
  /\ UsesCritic
  /\ Begin(DispatchTo(Select(batch, {"responses"})), "values")
  /\ UNCHANGED <<cfg, batch, mini, steps>>

\* Read at the token before, where the log-probabilities are.
ValuesOf(r) == InGroup(r, [s \in 1 .. cfg.sp |-> LogitsOf(r, s)])

ComputeValues ==
  /\ phase = "values"
  /\ Forward([r \in Ranks |-> [values |-> ValuesOf(r)]])
  /\ UNCHANGED <<cfg, phase, batch, mini, steps>>

\* The tokens a critic values and is trained on: Megatron's takes the attended ones for
\* those of actions, and so values what a tool or a user wrote as well.
CriticMask(row) == IF Megatron THEN 1 .. row.response ELSE row.valid

ActionValues(data, tokens) ==
  [i \in DOMAIN tokens |->
    [t \in 1 .. ResponseLength |->
       IF t \in CriticMask(data.responses[i]) THEN Value(tokens[i][t]) ELSE 0]]

CollectValues ==
  /\ phase = "values"
  /\ ~Running
  /\ LET Masks(r) == [values |-> ActionValues(work[r].data, RankResult(r).values)]
         valued   == CollectFrom([r \in Ranks |-> Masks(r)])
     IN  CanUnion(batch, valued) /\ batch' = Union(batch, valued)
  /\ phase' = "valued"
  /\ work' = <<>>
  /\ UNCHANGED <<cfg, mini, steps>>

\* The score of a response stands on its last attended token, whoever wrote that.
Rewards(row) ==
  [t \in 1 .. ResponseLength |->
    CASE cfg.reward = "token" -> IF t \in row.valid THEN TokenReward(row.id, t) ELSE 0
      [] t = row.response     -> Outcome(row.id)
      [] OTHER                -> 0]

EstimatorData ==
  Union([uid                 |-> batch.uid,
         response_mask       |-> [i \in 1 .. Rows(batch) |-> batch.responses[i].valid],
         token_level_rewards |-> [i \in 1 .. Rows(batch) |-> Rewards(batch.responses[i])]],
        Select(batch, {"reward_baselines", "values"}))

ComputeAdvantage ==
  /\ phase = IF UsesCritic THEN "valued" ELSE "scored"
  /\ CanEstimate(cfg.estimator, EstimatorData)
  /\ batch' = Union(batch, Estimate(cfg.estimator, EstimatorData))
  /\ phase' = "credited"
  /\ UNCHANGED <<cfg, work, mini, steps>>

\* An estimator raises: fit ends with the error.
EstimatorFails ==
  /\ phase = IF UsesCritic THEN "valued" ELSE "scored"
  /\ ~CanEstimate(cfg.estimator, EstimatorData)
  /\ phase' = "raised"
  /\ UNCHANGED <<cfg, batch, work, mini, steps>>

-----------------------------------------------------------------------------
\* Token selection.  A token of a batch is its row and its position in the response.

RowTokens(data, i) ==
  LET positions == Increasing(SetToSeq(data.responses[i].valid))
  IN  [p \in DOMAIN positions |-> <<i, positions[p]>>]

JsOf(data) ==
  [token \in (1 .. Rows(data)) \X (1 .. ResponseLength) |-> data.js_divergence[token[1]][token[2]]]

MaskColumn(data, tokens) ==
  [i \in 1 .. Rows(data) |-> {t \in 1 .. ResponseLength : <<i, t>> \in tokens}]

SelectionAreas == AreasOf(cfg.mode, cfg.fraction, cfg.ladder, cfg.areas)

LocalMini == (cfg.mini * cfg.n) \div Dp

\* Mini-batches next to each other in the driver's batch, as if it were not rank-major.
ConsecutiveRows(k) ==
  LET size == Min({cfg.mini * cfg.n, Rows(batch) - (k - 1) * cfg.mini * cfg.n})
  IN  [i \in 1 .. size |-> (k - 1) * cfg.mini * cfg.n + i]

\* The driver's batch is rank-major: mini-batch k of every rank, one rank after the other.
PooledRows(k) ==
  LET local == Rows(batch) \div Dp
      size  == Min({LocalMini, local - (k - 1) * LocalMini})
  IN  [i \in 1 .. Dp * size |->
        ((i - 1) \div size) * local + (k - 1) * LocalMini + ((i - 1) % size) + 1]

\* With the short mini-batch at the end of a share dropped, and kept.
WholeMiniBatches == (Rows(batch) \div Dp) \div LocalMini
MiniBatches == CeilDiv(Rows(batch) \div Dp, LocalMini)

\* _build_batch_aggregated_js_token_mask.
BatchAggregated(data) ==
  UNION {LET rows == PooledRows(k)
         IN  AreasMask(FlattenSeq([i \in DOMAIN rows |-> RowTokens(data, rows[i])]),
                       JsOf(data), SelectionAreas) : k \in 1 .. MiniBatches}

\* The reward's divergences; the mask too when whole mini-batches are ranked.
Rank ==
  /\ phase = IF UsesCritic THEN "criticized" ELSE "credited"
  /\ LET js == [js_divergence |->
                   [i \in 1 .. Rows(batch) |->
                      [t \in 1 .. ResponseLength |-> Divergence(batch.responses[i].id, t)]]]
         data == Union(batch, js)
     IN  batch' = IF cfg.batchAgg
                    THEN Union(data, [js_token_selection_mask |->
                                        MaskColumn(data, BatchAggregated(data))])
                    ELSE data
  /\ phase' = "ranked"
  /\ UNCHANGED <<cfg, work, mini, steps>>

\* torch.randperm of a seeded generator, some order for every seed, row and length.
Drawn(seed, row, n, keep) == {((seed + row + j) % n) + 1 : j \in 1 .. keep}

RandomMask(data, seed) ==
  UNION {LET tokens == RowTokens(data, i)
             keep   == KeepCount(Len(tokens), 0, cfg.fraction)
         IN  IF tokens = <<>> THEN {} ELSE {tokens[p] : p \in Drawn(seed, i, Len(tokens), keep)} :
         i \in 1 .. Rows(data)}

SeedOf(r) == Max({cfg.globalStep - 1, 0}) * Dp + DpRank(r)

\* The start of update_policy: a rank's own mask, unless the driver has made one.
AllTokens(data) == UNION {ToSet(RowTokens(data, i)) : i \in 1 .. Rows(data)}
OwnSelection(r, data) ==
  CASE cfg.mode = "off"      -> AllTokens(data)
    [] cfg.mode = "random"   -> RandomMask(data, SeedOf(r))
    [] cfg.mode = "absolute" ->
         UNION {AbsoluteMask(RowTokens(data, i), JsOf(data), cfg.threshold) : i \in 1 .. Rows(data)}
    [] OTHER ->
         UNION {AreasMask(RowTokens(data, i), JsOf(data), SelectionAreas) : i \in 1 .. Rows(data)}

UpdateShare(r) ==
  LET data == DispatchTo(batch)[r]
  IN  IF "js_token_selection_mask" \in DOMAIN data THEN data
      ELSE Union(data, [js_token_selection_mask |-> MaskColumn(data, OwnSelection(r, data))])

-----------------------------------------------------------------------------
\* update_critic and update_policy.  The critic has no tokens selected.

CriticShare(r) == DispatchTo(Select(batch, {"responses", "values", "returns"}))[r]

\* The order a DataLoader with a seeded generator draws for an epoch: some order, the same
\* on all ranks.
EpochOrder(rows, epoch) ==
  [i \in 1 .. rows |-> IF cfg.shuffle THEN ((i + epoch) % rows) + 1 ELSE i]

\* make_iterator asks for whole mini-batches and may shuffle; split does neither.
CanIterate(share) == Megatron => Rows(share) % LocalMini = 0

MiniBatch(k, epoch, model) ==
  LET share(r) == IF model = "critic" THEN CriticShare(r) ELSE UpdateShare(r)
      drawn(r) == IF Megatron THEN Reorder(share(r), EpochOrder(Rows(share(r)), epoch)) ELSE share(r)
  IN  [r \in Ranks |-> Split(drawn(r), LocalMini)[k]]

CallUpdateOf(model, share, next) ==
  /\ mini' = 1
  /\ IF CanIterate(share) THEN Begin(MiniBatch(1, 0, model), next)
                          ELSE work' = <<>> /\ phase' = "raised"
  /\ UNCHANGED <<cfg, batch, steps>>

CallCritic ==
  /\ phase = "credited"
  /\ UsesCritic
  /\ CallUpdateOf("critic", CriticShare(0), "update_critic")

BackwardCritic ==
  /\ phase = "update_critic"
  /\ Forward([r \in Ranks |-> [vpreds |-> ValuesOf(r)]])
  /\ UNCHANGED <<cfg, phase, batch, mini, steps>>

CallUpdate ==
  /\ phase = "ranked"
  /\ CallUpdateOf("actor", UpdateShare(0), "update")

\* Given ids are flattened whole, the logits are a slice: torch.gather refuses more ids
\* than logits.
GivenTo(r) ==
  GivenIds(CurrentMicro(r).responses, CurrentMicro(r).student_top_k_ids)
CanGather(r) == Len(GivenTo(r)) <= Len(LogitsOf(r, SpRank(r) + 1))

LossLogProbs(r) ==
  LET Share(s) == IF cfg.topk THEN LogProbs(LogitsOf(r, s), GivenTo(r)) ELSE LogProbsOf(r, s)
  IN  [log_probs |-> InGroup(r, [s \in 1 .. cfg.sp |-> Share(s)])]

Backward ==
  /\ phase = "update"
  /\ cfg.topk => \A r \in Ranks : Len(work[r].out) < Len(work[r].parts) => CanGather(r)
  /\ Forward([r \in Ranks |-> LossLogProbs(r)])
  /\ UNCHANGED <<cfg, phase, batch, mini, steps>>

GatherFails ==
  /\ phase = "update"
  /\ cfg.topk
  /\ \E r \in Ranks : Len(work[r].out) < Len(work[r].parts) /\ ~CanGather(r)
  /\ phase' = "failed"
  /\ UNCHANGED <<cfg, batch, work, mini, steps>>

\* The tokens the loss of a row ranges over.
LossMask(data, i) ==
  IF "js_token_selection_mask" \in DOMAIN data
    THEN data.responses[i].valid \cap data.js_token_selection_mask[i]
    ELSE CriticMask(data.responses[i])

\* The micro-batches of a rank counted alike, however many rows they have.
ShareOfParts(r, part) == Over(1, Len(work[r].parts))

\* How much of the mini-batch a micro-batch of this rank stands for.  Megatron's schedule
\* divides by their number.
MeanOfParts(r) == Over(1, Len(work[r].parts))
LossScale(r, part) ==
  CASE Megatron    -> MeanOfParts(r)
    [] cfg.dynamic -> Over(Len(part), LocalMini)
    [] OTHER       -> Over(1, LocalMini \div cfg.micro)

\* agg_loss: how much the tokens of row i of the share weigh in the loss of its micro-batch,
\* and in the gradient of the mini-batch.  A row without a token weighs nothing.
AggregatedWeight(data, part, i) ==
  LET tokens(row) == Cardinality(LossMask(data, row))
      all         == MapThenSumSet(tokens, ToSet(part))
      rows        == Cardinality({row \in ToSet(part) : tokens(row) > 0})
  IN  CASE tokens(i) = 0           -> Nought
        [] cfg.agg = "token-mean"  -> Over(tokens(i), all)
        [] cfg.agg = "seq-mean"    -> Over(1, rows)
        [] cfg.agg = "seq-sum-norm" -> Over(tokens(i), ResponseLength)

WeightOf(r, i) ==
  LET part == CHOOSE p \in Range(work[r].parts) : i \in ToSet(p)
  IN  Times(LossScale(r, part), AggregatedWeight(work[r].data, part, i))

\* What a rank trained on: its rows and their weights, and the tokens its loss kept.
TrainedBy(r) ==
  LET data == work[r].data
  IN  [rows     |-> [i \in 1 .. Rows(data) |-> data.responses[i].id],
       weights  |-> [i \in 1 .. Rows(data) |-> WeightOf(r, i)],
       selected |-> UNION {{<<data.responses[i].id, t>> : t \in LossMask(data, i)} :
                           i \in 1 .. Rows(data)}]

StepThen(model, more, next) ==
  /\ ~Running
  /\ steps' = [steps EXCEPT ![model] = Append(@, [r \in Ranks |-> TrainedBy(r)])]
  /\ IF more
       THEN /\ mini' = (mini % MiniBatches) + 1
            /\ Begin(MiniBatch(mini', (Len(steps[model]) + 1) \div MiniBatches, model), phase)
       ELSE /\ mini' = 0
            /\ work' = <<>>
            /\ phase' = next
  /\ UNCHANGED <<cfg, batch>>

MoreSteps(model) == Len(steps[model]) + 1 < MiniBatches * cfg.epochs

CriticStep    == phase = "update_critic" /\ StepThen("critic", MoreSteps("critic"), "criticized")
OptimizerStep == phase = "update" /\ StepThen("actor", MoreSteps("actor"), "done")

\* The step is over; the next one starts from an empty batch.
Finished ==
  /\ phase \in {"done", "failed", "raised"}
  /\ UNCHANGED vars

Next ==
  \/ CallGenerate
  \/ \E w \in DOMAIN work : phase = "generating" /\ Generate(w)
  \/ CollectGenerate
  \/ Balance
  \/ CannotDivide
  \/ CallLogProb
  \/ ComputeLogProb
  \/ CollectLogProb
  \/ CallValues
  \/ ComputeValues
  \/ CollectValues
  \/ ComputeAdvantage
  \/ EstimatorFails
  \/ CallCritic
  \/ BackwardCritic
  \/ CriticStep
  \/ Rank
  \/ CallUpdate
  \/ Backward
  \/ GatherFails
  \/ OptimizerStep
  \/ Finished

Spec == Init /\ [][Next]_vars

-----------------------------------------------------------------------------
\* What stands at position t of row i was computed for that token of that response:
\* the response answers the prompt it stands beside, and its log-probabilities, top-k
\* ids with their log-probabilities and value come from the logits of the token before it,
\* however the rows were balanced, dispatched, packed, sliced and brought back.
ColumnsAligned ==
  "responses" \in DOMAIN batch =>
    \A i \in 1 .. Rows(batch) :
      LET row == batch.responses[i] IN
        /\ row.source = batch.uid[i]
        /\ \A t \in 1 .. row.response :
             LET before == <<row.id, PromptLength + t - 1>> IN
               /\ "old_log_probs" \in DOMAIN batch => batch.old_log_probs[i][t] = Expected(row, t)
               /\ "student_top_k_ids" \in DOMAIN batch =>
                    /\ batch.student_top_k_ids[i][t] = <<"top", before>>
                    /\ batch.student_top_k_log_probs[i][t] = <<before, <<"top", before>>>>
               /\ "values" \in DOMAIN batch =>
                    batch.values[i][t] = IF t \in CriticMask(row) THEN Value(before) ELSE 0

\* The loss compares like with like: at every response token the log-probability that is
\* trained is of the same label, from the same logits, as the stored one it is divided by,
\* and the value that is trained stands where the stored one does that it is clipped to.
RatioAligned ==
  /\ phase = "update_critic" =>
    \A r \in Ranks : \A k \in DOMAIN work[r].out :
      LET micro == SelectIdxs(work[r].data, work[r].parts[k])
      IN  \A i \in 1 .. Rows(micro) : \A t \in micro.responses[i].valid :
            Value(work[r].out[k].vpreds[i][t]) = micro.values[i][t]
  /\ phase = "update" =>
    \A r \in Ranks : \A k \in DOMAIN work[r].out :
      LET micro == SelectIdxs(work[r].data, work[r].parts[k])
          old   == IF cfg.topk THEN micro.student_top_k_log_probs ELSE micro.old_log_probs
      IN  \A i \in 1 .. Rows(micro) : \A t \in 1 .. micro.responses[i].response :
            work[r].out[k].log_probs[i][t] = old[i][t]

\* The workload of the rows a rank is dealt.
WorkOf(data) ==
  LET w == Workloads(Lengths(data)) IN Load(w, [i \in DOMAIN w |-> i])

\* No rank is dealt more than another by over so many times what the heaviest row of the
\* batch is heavier than the lightest.
DealtWithin(times) ==
  (phase = "balanced" /\ cfg.balance) =>
    LET w      == Workloads(Lengths(batch))
        shares == DispatchTo(batch)
    IN  \A r, q \in Ranks :
          WorkOf(shares[r]) - WorkOf(shares[q]) <= times * (Max(Range(w)) - Min(Range(w)))

\* _balance_batch makes world_size partitions, of which dispatch deals every data-parallel
\* rank as many neighbours as share its rows: its workload differs from another's by at
\* most that many times what two rows may differ by.  Validation deals every worker as many
\* samples of a prompt as every other.
SharesBalanced ==
  /\ DealtWithin(cfg.world \div Dp)
  /\ (phase = "generating" /\ cfg.validate /\ cfg.n % cfg.workers = 0) =>
       \A w \in DOMAIN work : \A p \in 1 .. cfg.prompts :
         Cardinality({i \in 1 .. Rows(work[w].data) : work[w].data.uid[i] = p}) * cfg.workers = cfg.n

\* "each dp rank gets similar total tokens" (_balance_batch): as similar as the partitioner
\* makes the parts it is asked for, which differ by no more than two rows.
DpSharesSimilar == DealtWithin(1)

\* Reference for a ranked selection: by how many tokens lie below one, and how many not above.
SelectsByRank(selected, tokens) ==
  LET Div(token)   == Divergence(token[1], token[2])
      Places(token) == Cardinality({x \in tokens : Div(x) < Div(token)}) + 1
                       .. Cardinality({x \in tokens : Div(x) <= Div(token)})
      wanted == UNION {Interval(Cardinality(tokens), area[1], area[2]) : area \in SelectionAreas}
  IN  tokens # {} =>
        /\ Cardinality(selected) = Cardinality(wanted)
        /\ \A token \in tokens :
             /\ Places(token) \subseteq wanted => token \in selected
             /\ Places(token) \cap wanted = {} => token \notin selected

\* The tokens of some responses, of each those of the set its row is mapped to.
TokensOf(ids, Of(_)) ==
  UNION {{<<row.id, t>> : t \in Of(row)} : row \in {r \in Range(batch.responses) : r.id \in ids}}
ValidOf(ids)      == TokensOf(ids, LAMBDA row : row.valid)
CriticTokens(ids) == TokensOf(ids, CriticMask)

\* Every step of the actor trains exactly the tokens the configured selection means: ranked
\* over all the tokens of that step when whole mini-batches compete, over each response
\* otherwise; ranks that share rows keep the same ones; and the critic is trained on
\* every token of a response (Megatron's on what the environment wrote as well).
SelectedOfStep ==
  \A model \in DOMAIN steps : \A k \in DOMAIN steps[model] :
    LET step     == steps[model][k]
        selected == UNION {step[r].selected : r \in Ranks}
        rows     == UNION {ToSet(step[r].rows) : r \in Ranks}
        Within(id) == {token \in selected : token[1] = id}
    IN  /\ \A r, q \in Ranks : DpRank(r) = DpRank(q) => step[r].selected = step[q].selected
        /\ IF model = "critic" THEN selected = CriticTokens(rows)
           ELSE CASE cfg.mode = "off"  -> selected = ValidOf(rows)
                  [] cfg.mode = "absolute" ->
                       selected = {x \in ValidOf(rows) : Divergence(x[1], x[2]) >= cfg.threshold}
                  [] cfg.mode = "random"   ->
                       \A id \in rows : ValidOf({id}) # {} =>
                         Cardinality(Within(id)) = KeepCount(Cardinality(ValidOf({id})), 0, cfg.fraction)
                  [] OTHER -> IF cfg.batchAgg THEN SelectsByRank(selected, ValidOf(rows))
                              ELSE \A id \in rows : SelectsByRank(Within(id), ValidOf({id}))

Trains(model) == model = "actor" \/ UsesCritic

\* Every response is trained on once per epoch, by the ranks that share it, by the actor and by
\* the critic, and a step of the optimizer never mixes responses of different epochs.
EveryRowTrained ==
  /\ \A model \in DOMAIN steps : \A k \in DOMAIN steps[model] : \A r \in Ranks :
       IsInjective(steps[model][k][r].rows)
  /\ (phase = "done" /\ ~cfg.validate) =>
       \A model \in {m \in DOMAIN steps : Trains(m)} : \A i \in 1 .. Rows(batch) :
         LET StepsBy(r) == {k \in DOMAIN steps[model] :
                              batch.responses[i].id \in ToSet(steps[model][k][r].rows)}
             owners == {r \in Ranks : StepsBy(r) # {}}
         IN  /\ Cardinality(owners) * Dp = cfg.world
             /\ \A r \in owners :
                  /\ DpRank(r) = DpRank(CHOOSE o \in owners : TRUE)
                  /\ \A e \in 1 .. cfg.epochs :
                       Cardinality({k \in StepsBy(r) : CeilDiv(k, MiniBatches) = e}) = 1

\* Cutting a mini-batch into micro-batches cannot be seen in its gradient, which is what
\* the comments on loss_scale_factor promise: the weights of a whole mini-batch sum to one,
\* and where responses are averaged each that keeps a token weighs as much as any other of
\* its rank.  (A response that keeps none leaves its weight to its own micro-batch.)
\* Megatron makes no such promise for dynamic micro-batches: it takes the mean of them,
\* whatever their rows, and a response in a short one weighs more.
WeightsOfMiniBatch ==
  \A model \in DOMAIN steps : \A k \in DOMAIN steps[model] : \A r \in Ranks :
    LET trained == steps[model][k][r]
        rows    == DOMAIN trained.rows
        Keeps(i) == \E token \in trained.selected : token[1] = trained.rows[i]
    IN  (\A i \in rows : Keeps(i)) =>
          /\ (cfg.agg # "seq-sum-norm" /\ Len(trained.rows) = LocalMini) =>
               Total(trained.weights) = Whole(1)
          /\ cfg.agg = "seq-mean" /\ ~(Megatron /\ cfg.dynamic) =>
               \A i \in rows : trained.weights[i] = Over(1, LocalMini)

-----------------------------------------------------------------------------
\* Advantages.

AdvantageOf(i, t) == batch.advantages[i][t]
ValidIn(i) == batch.responses[i].valid
Source(i) == batch.responses[i].source
Answers(p) == {i \in 1 .. Rows(batch) : Source(i) = p}
First(i) == Min(ValidIn(i))
ScoreOf(i) == Outcome(batch.responses[i].id)

\* An answer that scored more than another to the same prompt has the larger advantage (no
\* smaller one where only the best is rewarded), an equal one the same, at every token.
FollowsScore(p) ==
  /\ \A i \in Answers(p) : \A t \in ValidIn(i) : AdvantageOf(i, t) = AdvantageOf(i, First(i))
  /\ \A i, j \in Answers(p) :
       /\ ScoreOf(i) = ScoreOf(j) => AdvantageOf(i, First(i)) = AdvantageOf(j, First(j))
       /\ ScoreOf(i) < ScoreOf(j) =>
            IF cfg.estimator = "grpo_passk"
              THEN ~Below(AdvantageOf(j, First(j)), AdvantageOf(i, First(i)))
              ELSE Below(AdvantageOf(i, First(i)), AdvantageOf(j, First(j)))

\* The advantages of the answers to a prompt cancel out, so no other prompt has a part in them.
SumsToZero(p) ==
  LET Part(i) == IF cfg.estimator = "opo"
                   THEN Times(Whole(Cardinality(ValidIn(i))), AdvantageOf(i, First(i)))
                   ELSE AdvantageOf(i, First(i))
  IN  Cardinality(Answers(p)) > 1 => Total([i \in Answers(p) |-> Part(i)]) = Nought

\* Reference for GAE: the textbook sum over the later tokens, with those the environment
\* wrote removed from the response.
Textbook(i) ==
  LET own    == SelectSeq([t \in 1 .. ResponseLength |-> t], LAMBDA t : t \in ValidIn(i))
      n      == Len(own)
      reward(k) == Whole(Rewards(batch.responses[i])[own[k]])
      value(k)  == IF k > n THEN Nought ELSE Whole(batch.values[i][own[k]])
      delta(k)  == Minus(Plus(reward(k), Times(Gamma, value(k + 1))), value(k))
      power(k)  == IF k = 0 THEN Whole(1)
                   ELSE FoldFunction(Times, Whole(1), [x \in 1 .. k |-> Times(Gamma, Lam)])
  IN  [k \in 1 .. n |-> [at      |-> own[k],
                         returns |-> Plus(value(k), Total([u \in k .. n |->
                                                             Times(power(u - k), delta(u))]))]]

SkipsObservations(i) ==
  \A k \in DOMAIN Textbook(i) : batch.returns[i][Textbook(i)[k].at] = Textbook(i)[k].returns

Centring == {"grpo", "grpo_vectorized", "opo", "rloo", "rloo_vectorized", "gpg"}

\* "This usually changes the order of data in the `batch`, which won't affect the advantage
\* calculation (since it's based on uid)", says fit where it balances: wherever a response
\* was moved, its advantage follows its own score among the answers to its own prompt, and
\* a token of a response with turns of a tool in it is credited as if they were not there.
CreditIsDue ==
  phase = "credited" =>
    /\ cfg.estimator \in OutcomeEstimators \cup {"reinforce_plus_plus_baseline"} =>
         \A p \in 1 .. cfg.prompts : FollowsScore(p)
    /\ cfg.estimator \in Centring => \A p \in 1 .. cfg.prompts : SumsToZero(p)
    /\ cfg.estimator = "gae" => \A i \in 1 .. Rows(batch) : SkipsObservations(i)

\* No rank is left waiting in a forward that the others never enter: as long as one has a
\* micro-batch to run, all of them have.
NoRankWaitsAlone == phase \in {"log_prob", "values", "update_critic", "update"} /\ Running =>
  \A r \in Ranks : Len(work[r].out) < Len(work[r].parts)

\* The ids given to a forward line up with the logits it has, whatever the configuration.
GivenIdsFit == phase # "failed"
=============================================================================
