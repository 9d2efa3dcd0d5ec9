--------------------------- MODULE MCDataParallel ---------------------------
EXTENDS DataParallel

MCShapes ==
  {[prompt |-> 1, response |-> 1, valid |-> {1}],
   [prompt |-> 2, response |-> 3, valid |-> {1, 2, 3}],
   [prompt |-> 2, response |-> 2, valid |-> {1}],
   [prompt |-> 1, response |-> 3, valid |-> {1, 3}]}

\* Ties, and no order the rows already have.
MCDivergence(id, t) == (id * 3 + t * 2) % 5

\* Ties within a prompt and between prompts, and scores of zero.
MCOutcome(id) == <<1, 1, 3, 0, 2, 2>>[id]
MCGreedyOutcome(p) == p
MCTokenReward(id, t) == ((id + 2 * t) % 4) - 1
MCValue(token) == 3 * token[1] - token[2]
MCHalf == <<1, 2>>

Base ==
  [backend |-> "fsdp", tp |-> 1, pp |-> 1, vppGroup |-> 1, shuffle |-> FALSE,
   validate |-> FALSE, prompts |-> 2, n |-> 2, workers |-> 2, world |-> 2, sp |-> 1,
   estimator |-> "token_reward_direct", reward |-> "token", agg |-> "token-mean",
   balance |-> TRUE, dynamic |-> TRUE, maxTokens |-> 6, micro |-> 1, mini |-> 1, epochs |-> 1,
   topk |-> FALSE, mode |-> "relative", batchAgg |-> FALSE, fraction |-> 40,
   ladder |-> <<30, 60>>, areas |-> {<<0, 20>>, <<60, 90>>}, threshold |-> 2, globalStep |-> 3]

Pooled     == [Base EXCEPT !.batchAgg = TRUE]
Ulysses    == [Base EXCEPT !.world = 4, !.sp = 2, !.mode = "random", !.agg = "seq-mean"]
UlyssesIds == [Base EXCEPT !.world = 2, !.sp = 2, !.topk = TRUE]
TopK       == [Base EXCEPT !.topk = TRUE, !.mini = 2, !.epochs = 2, !.mode = "ladder"]
Fixed      == [Base EXCEPT !.dynamic = FALSE, !.balance = FALSE, !.mode = "absolute", !.mini = 2]
ShortMini  == [Base EXCEPT !.prompts = 3, !.mini = 2, !.mode = "percentile_areas", !.batchAgg = TRUE,
                           !.agg = "seq-mean"]
Unfiltered == [Base EXCEPT !.mode = "off", !.maxTokens = 5, !.epochs = 2, !.agg = "seq-sum-norm"]
LeastJs    == [Base EXCEPT !.mode = "bottom_js"]
Validation == [Base EXCEPT !.validate = TRUE, !.prompts = 2]
ValPadded  == [Base EXCEPT !.validate = TRUE, !.prompts = 5, !.n = 1, !.mini = 2]

\* Rewarded as reinforcement learning without a teacher is; the ranks have little to do.
Ppo   == [Base EXCEPT !.estimator = "gae", !.reward = "outcome", !.mode = "off", !.sp = 2,
                      !.agg = "seq-mean", !.maxTokens = 4]
Outcomes(estimator) ==
  [Base EXCEPT !.estimator = estimator, !.reward = "outcome", !.mode = "off", !.mini = 2,
               !.dynamic = FALSE, !.micro = 2, !.workers = 1]
Alone(estimator) == [Outcomes(estimator) EXCEPT !.n = 1, !.mini = 2, !.micro = 1]
Trio(estimator)  == [Outcomes(estimator) EXCEPT !.prompts = 1, !.n = 3, !.world = 1, !.mini = 1,
                                                !.micro = 3]
OutcomeConfigs ==
  {Outcomes(e) : e \in OutcomeEstimators \cup {"reinforce_plus_plus_baseline",
                                               "reinforce_plus_plus", "remax"}}
  \cup {Alone(e) : e \in {"rloo", "rloo_vectorized", "grpo_passk"}}
  \cup {Trio(e) : e \in {"opo", "rloo", "grpo_passk"}}
  \cup {[Outcomes("token_grpo") EXCEPT !.reward = "token"]}

\* Megatron: rewarded by outcome, no tokens selected.  Context parallelism over a pipeline,
\* tensor parallelism with a critic, virtual stages whose groups of micro-batches fit and do
\* not, mini-batches that are not whole, and rows too short for the chunks of their ranks.
Pipeline  == [Outcomes("grpo") EXCEPT !.backend = "megatron", !.world = 4, !.sp = 2, !.pp = 2,
                                      !.dynamic = TRUE, !.agg = "seq-mean", !.shuffle = TRUE,
                                      !.mini = 1, !.epochs = 2]
TensorPpo == [Ppo EXCEPT !.backend = "megatron", !.world = 4, !.sp = 1, !.tp = 2, !.mini = 2, !.maxTokens = 5]
FixedCp   == [Pipeline EXCEPT !.pp = 1, !.dynamic = FALSE, !.micro = 1, !.mini = 2, !.shuffle = FALSE]
Virtual   == [Pipeline EXCEPT !.sp = 1, !.world = 2, !.vppGroup = 2]
Grouped   == [Virtual EXCEPT !.vppGroup = 3, !.mini = 1]
NotWhole  == [Virtual EXCEPT !.prompts = 3, !.n = 1, !.workers = 1, !.world = 1, !.pp = 1, !.vppGroup = 1,
                             !.mini = 2]
TooShort  == [FixedCp EXCEPT !.tp = 3, !.world = 6, !.balance = FALSE]
MegatronConfigs == {Pipeline, TensorPpo, FixedCp, Virtual, Grouped, NotWhole, TooShort}

\* Rows that do not divide: among the workers, the ranks, the data-parallel ranks.
ThreeRows  == [Base EXCEPT !.prompts = 3, !.n = 1, !.workers = 1, !.mini = 2]
Undivided == {[ThreeRows EXCEPT !.workers = 2], ThreeRows, [ThreeRows EXCEPT !.balance = FALSE]}

MCConfigs == {Pooled, Ulysses, UlyssesIds, TopK, Fixed, ShortMini, Unfiltered, LeastJs,
              Validation, ValPadded, Ppo} \cup Undivided \cup OutcomeConfigs \cup MegatronConfigs
GivenIdsConfigs == {TopK, UlyssesIds}
SharesConfigs   == {Ulysses}
=============================================================================
