# Verification of Selective-Direct-OPD

TLA+ specifications of the training system in this repository (the vendored and
modified `verl` under `src/verl/verl`), TLC runs on small instances, and proofs
checked by TLAPS for every value of the constants.  File names below are
relative to `src/verl/verl` unless they start with `src/`.

- [1. The system](#1-the-system)
- [2. Modules and the code they stand for](#2-modules-and-the-code-they-stand-for)
- [3. What the runs check](#3-what-the-runs-check)
- [4. Bounds and fairness](#4-bounds-and-fairness)
- [5. What is proved](#5-what-is-proved)
- [6. What the models left as observations](#6-what-the-models-left-as-observations)
- [7. What is not modelled](#7-what-is-not-modelled)
- [8. Plan](#8-plan)

To repeat the checks: `tlc -workers 2 -config MCxxxYyy.cfg MCxxx` for a run,
`tlapm XxxProofs.tla` for the proofs.

## 1. The system

One step of training: the PPO driver takes a batch of prompts, has it rolled out
by agent loops on LLM servers, scores it, deals its rows to worker groups that
compute log-probabilities, distillation rewards and advantages, updates critic and
actor, and now and then saves a checkpoint, which an uploader copies to HDFS in
the background.  Actor, rollout engine and reference share their GPUs and take
turns.  Supervised fine-tuning runs without a driver: every rank runs the same
loop and saves its shard.

| component | state it keeps | operations | talks to | what is hard |
|---|---|---|---|---|
| uploader (`utils/async_hdfs_uploader.py`) | queue, in-flight ids by source, failures, stop flag; a pool of daemon threads | `enqueue_copy`, `wait_for_path`, `wait_for_all`, `shutdown`; `_worker_loop` with retries | trainers and checkpoint managers call it; it calls `hdfs_io.copy` | lock and queue are not one atomic object; notification order; retries of half-done copies; shutdown of daemon threads |
| FSDP checkpoint manager (`utils/checkpoint/`) | `previous_saved_paths`, per-rank shard files | `save_checkpoint`, `load_checkpoint`, `remove_previous_save_local_path` | barriers between ranks; `wait_for_path` of the uploader | rotation against uploads; crash between files |
| SFT trainers (`trainer/sft_trainer.py`, `fsdp_sft_trainer.py`, `utils/checkpoint/checkpoint_handler.py`) | global step, dataloader position, tracker file | `fit`, `save_checkpoint`, `load_checkpoint`, `run_sft` | checkpoint manager, uploader | order of shard, dataloader state, tracker and upload; barriers; resume |
| PPO driver, checkpoints (`trainer/ppo/ray_trainer.py`, `trainer/main_ppo.py`) | global step, dataloader, tracker file | `_save_checkpoint`, `_load_checkpoint` | worker groups by RPC, uploader | several roles saved one after another; resume from HDFS or disk; worker failure |
| PPO driver, training loop (same file) | the batch, column by column; which teacher, strategy and mode | `fit`, `_validate`, the selective reward and its masks | every worker group, agent loop manager | five hundred lines of columns computed, renamed and popped for every combination of modes; selection across ranks |
| `DataProto`, dispatch (`protocol.py`, `single_controller/`) | batches; worker groups, device mesh | chunk, split, pad, repeat, concat, union, reorder; dispatch and collect | everything | rows back in their place after balancing, padding and gathering |
| actor, critic and reference workers (`workers/fsdp_workers.py`, `workers/actor/dp_actor.py`, `workers/critic/dp_critic.py`) | weights and optimizer on GPU or CPU, random states, mode | `rollout_mode`, `trainer_mode`, log-probabilities, distillation reward, updates, save, load | driver; rollout engine on the same GPUs | who is on the GPU; which weights the engine has; mini- and micro-batches; packed and sliced tokens |
| losses and advantages (`trainer/ppo/core_algos.py`) | none | advantage estimators, aggregation | driver, actor, critic | grouping by prompt, masks over observations, weights under any cut |
| sequence balancing (`utils/seqlen_balancing.py`) | none | Karmarkar-Karp, micro-batches and their inverse | driver, workers | equal sizes, no row lost, one number of micro-batches everywhere |
| agent loops (`experimental/agent_loop/`) | per trajectory: tokens, mask, log-probs, turns, state | manager and worker `generate_sequences`, `ToolAgentLoop.run` and its four handlers | LLM servers, tools, interactions, reward workers | interleaving at every await; length and turn limits; failure of one sample; sleep and wake of replicas |
| LLM server manager (in `agent_loop.py`) | heap of counters, LRU cache of sessions | `_choose_server`, `generate` | servers | bounded cache under concurrent sessions |
| SGLang rollout (`workers/rollout/sglang_rollout/`, `workers/rollout/schemas.py`) | per request: ids, loss mask, state, finish reason; the tools it holds | `generate_sequences`, `_async_rollout_a_request`, `AsyncRolloutRequest`'s `add_*` and `finalize` | engine, tools, interactions | over-sampled rows cancelled wherever they await; headers added and removed; limits of turns and context |
| Megatron weights (`models/mcore/`, `utils/megatron_utils.py`, `model_merger/`) | which rank and chunk holds which rows of which tensor | load, export to the engine, save as Hugging Face model, merge | checkpoints, rollout engine | stage and layer numbers, fused and split projections, ranks that walk one list together |
| tools, rate limiter, interactions (`tools/`, `interactions/`) | instance dictionaries, semaphore | `create/execute/release`, `acquire/release`, `generate_response` | external services | acquire and release order, leaks |
| rewards (`workers/reward_manager`, `experimental/reward`, `utils/reward_score`) | router counters | score a response | agent loops, driver | router retries; text |
| the rest | | model code, kernels, profiling, tracking, configuration, scripts | | see section 7 |

What makes the modelled parts correct:

- **uploader**: a task gets exactly one outcome; a wait that returns has seen
  everything it covers; shutdown with a final wait loses nothing; everything
  settles and the pool stops.
- **checkpoint and resume**: whenever the job dies, what the tracker names can be
  loaded by every rank and role; a restart repeats at most one save interval;
  all dataloaders are at the job's step; nothing is deleted under an upload;
  what was recorded as copied is complete; nobody waits for ever before the last wait.
- **agent loops**: tokens, mask and log-probabilities stay aligned; limits hold;
  one server per trajectory; replicas sleep only when quiet; every batch
  returns or raises.
- **hybrid workers**: a rollout comes from the policy the last update left; no two
  of shard, engine weights and cache that exclude each other are on a GPU; the
  trainer's random state never serves generation.
- **a step of training**: every column is there when it is read; a row keeps its
  tokens, score and place from the dataset to the loss; ranks agree on the number of
  collectives; the gradient of a mini-batch does not depend on how it is cut; the
  selection picks what it says over the rows of one optimizer step; ratio and
  reward compare probabilities of the same tokens, each once.
- **weights**: every Megatron rank gets what it computes with, and every way out
  gives the model that came in.

`PROJECT.json` lists every component, the hazards at their lines, and the
properties that cover them.

## 2. Modules and the code they stand for

| module | stands for | how |
|---|---|---|
| `HdfsUploader` | `AsyncHdfsUploader` and the module singleton | threads of the program are callers and workers; a step is one `with self._lock` block, one `queue.Queue` call or one copy attempt, so `enqueue_copy` is `Register` then `Put`, and a worker goes through `Get`, `CopyOk`/`CopyFail`, `MarkFailed`, `Finalize`, `TaskDone` |
| `UploadService` | what its callers rely on | five actions: enqueue, settle, wait, return, give up |
| `SftCheckpoint` | both SFT trainers over `FSDPCheckpointManager` | one program counter per rank; every file is `none`, `torn` or `whole`; HDFS has of each step's directory nothing, a part or the whole, at its destination and one level below; the uploader is an instance of `UploadService` |
| `PpoCheckpoint` | `_save_checkpoint`, `_load_checkpoint` and its helpers, `TaskRunner.run`'s `finally` | the driver's program counter over a sequence of roles (actor, critic); uploads of the tracker read it at some time and land later |
| `ResumableTraining` | what checkpointing promises | step, last saved step, up or down |
| `AgentLoop` | `AgentLoopManager`, `AgentLoopWorker`, `ToolAgentLoop` | states named as `AgentState`, plus the places where a sample awaits; a token is its origin (prompt, llm, tool, user) |
| `ServerManager` | `AsyncLLMServerManager` | counters and an LRU sequence per agent loop worker (`Place` for a new session, `Renew` for a known one); `AgentLoop` calls its `Choose` |
| `SglangRollout` | `SGLangRollout.generate_sequences`, `AsyncRolloutRequest` | one coroutine per row of the batch, from await to await; a token is its origin, the header before an answer and the end after one stand for as many tokens as the template has |
| `RolloutService` | what the trainer asks of a rollout | four actions: ask, break, answer, raise |
| `Rollout` | `rollout.mode` of the trainer | the two ways side by side, `mode` fixed at the start, and what both owe |
| `DataProto` | `protocol.py` | a batch is a function from columns to sequences of rows; chunk, pad, repeat, concat, union ... as operators |
| `SeqlenBalancing` | `utils/seqlen_balancing.py` | Karmarkar-Karp: a heap is a set of states, a sort is `Sorted` by a relation; micro-batches, the restored order |
| `PackedForward` | the unpadded forward of `dp_actor.py`, `dp_critic.py`, `utils/ulysses.py`; the packing of Megatron's in `models/mcore/util.py` | tokens are positions; unpad, pad to the sequence-parallel size, slice, roll, gather, pad back |
| `TokenSelection` | the token masks of the selective objective in `ray_trainer.py` | a divergence per token, ranked |
| `Advantages` | estimators and `agg_loss` of `core_algos.py` | exact fractions instead of floats |
| `DataParallel` | one batch through repeat, rollout, balance, dispatch, rewards, advantages, updates and validation | one action per call of the driver; ranks, of FSDP or Megatron (`workers/actor/megatron_actor.py`, `workers/critic/megatron_critic.py`), compute their shares with the operators of the five modules above, which it extends |
| `HybridWorker` | `ActorRolloutRefWorker` and the vLLM engine as it sees it | per rank: mode, where shard and optimizer are, what the engine holds of which version, random states; a method is a sequence of steps that ranks interleave |
| `DistillationReward` | the token ids of `compute_distillation_reward` in `dp_actor.py` | sets and sequences of ids for each strategy; where a log-probability is infinite |
| `TrainLoop` | `fit` and `_validate` | the driver's program counter and the set of the batch's columns, over the workers of `HybridWorker` |
| `ModelWeights` | `models/mcore/loader.py`, `saver.py`, `weight_converter.py`, `utils/megatron_utils.py`, `model_merger/` | a tensor is its name and rows, a row is where it came from; one action per stage of a way through |
| `MCxxx` + `.cfg` | the instances TLC checks | |
| `XxxProofs` | the proofs | section 5 |

Composition:

- `SftCheckpoint` and `PpoCheckpoint` use `UploadService`, which `HdfsUploader`
  implements (theorem `Implements`); both implement `ResumableTraining` (property
  `ResumesFromLastSave`, theorems `GoesOnFromLastSave`).
- `AgentLoop` contains one `ServerManager` per worker.
- `Rollout` extends `AgentLoop` and has an instance of `SglangRollout`: a job takes one of
  the two.  Both implement `RolloutService` (property `KeepsContract`), under a
  mapping of the status of the call, its answered rows and the calls that failed.
- `TrainLoop` is the composition of the driver with the worker group.
  `HybridWorker`'s own specification, `WorkerSpec`, is the contract: a caller that
  calls a method only when its guard allows.  `TrainLoop` implements `WorkerSpec`
  (checked, and proved as `TrainingKeepsContract`), so that what is proved about
  the worker under any caller that keeps the contract holds in training.
- `DataParallel` extends `DataProto`, `SeqlenBalancing`, `PackedForward`,
  `TokenSelection` and `Advantages`: pure algorithms as operators, one state
  machine that calls them in the order of a step.

Choices a reader should know:

- *Uploader.*  A failed `put` of a directory may leave a partial directory.
  `t.join(timeout=30)` may return before the worker has exited.  Closing the
  uploader is the act of the only thread that trains (`CloserIsAlone`): `shutdown`
  runs in the `finally` block of that thread.
- *SftCheckpoint.*  A put that succeeds reads its source in one step.  One that breaks
  off (`PutBreaks`, `UploadFails`) leaves a part of a directory or nothing, and a
  directory put onto one that is there goes inside it (`Arrives`): a retry, or the
  upload of a step that is saved again after a crash, lands one level deeper.  Ranks train in
  lockstep and die together (a torchrun job).  Saving the FSDP shard, its
  optimizer and extra state is one file per rank.  `total_training_steps` is
  taken as the end of the data too, so that both ways out of `fit` coincide.
- *PpoCheckpoint.*  A worker group saves and loads as one, its ranks being those
  of `SftCheckpoint`.  `resume_mode` is `auto`.  A resumed job that had finished
  makes one step more, as the code does, so `LastStep` exceeds `TotalSteps`.
- *AgentLoop.*  Prompts fit into `prompt_length` (the dataset filters them).
  Tools of one turn run inside one step, since nothing else reads what they
  change.  `free_cache_engine` is on, its default.  A server answers at
  least one token.
- *SglangRollout.*  Between two awaits a coroutine runs in one step, which ends with
  what it awaits next (`at`).  `busy` is what the engine works on: it does not hear of a
  coroutine that is cancelled, and drops a row when it has answered or is told to
  (`AfterAbort`).  `create` of a tool adds nothing to the
  conversation: every tool of the repository returns an empty response from
  it.  The ranks of the tensor-parallel group other than the first only
  receive the rows.  Positions and images go the way of the ids.
- *DataParallel.*  A rank's forward is a function of the tokens it is given, so a
  value stands for the place it was computed at; what a rank gathers back must be the
  value of its own tokens.  Collectives of ranks with equal numbers of
  micro-batches are one step; `NoRankWaitsAlone` is the condition for that.
  The critic is configured like the actor.
  Megatron's actor shuffles rows by a seeded DataLoader; `EpochOrder` stands for that order,
  which is the same on every rank.
- *HybridWorker, TrainLoop.*  A method of the group is called on all ranks, which
  go through its steps at their own speed except at collectives
  (`SyncStep`, `ReduceStep`).  A policy is the number of updates made to it.
- *ModelWeights.*  The Megatron library itself is external: how it shards a tensor
  and lays out stages is taken from how the loader, the saver and
  `get_transformer_layer_offset` use it.

## 3. What the runs check

Twelve runs.  The seven passing ones between them take every action of every
next-state relation.

| run | question | answer |
|---|---|---|
| `uploader_main` | one training thread, two workers, retries, deadlines, both kinds of shutdown | the in-flight table and the count of unfinished items are exact (`InflightExact`, `UnfinishedExact`), a wait has seen what it covers (`WaitCoversUploads`), a final shutdown without a deadline loses nothing, every upload settles and a wait for its path returns, the uploader is an `UploadService` |
| `sft_main` | whole-folder uploads, single-file uploads and none; one or two kept; three saves, two crashes anywhere | what the tracker names can be loaded, what was recorded as copied is on HDFS with all its files whatever broke off, dataloaders agree, nothing changes under an upload, a restart goes on from the last save, the job finishes or sleeps in its last wait with every upload settled |
| `ppo_main` | actor and critic, forced saves, HDFS or not, one crash, one failed call | the local tracker can be resumed, a restart goes on from the last save, the last step is copied before the job ends, the job ends or sleeps in its last wait with every upload settled |
| `rollout` | agent loops: two batches of two samples, one or two workers, two replicas; SGLang: one batch in nine configurations of tools, interactions, over-sampling, context length and log-probabilities; one failing call | rows are aligned (`RowsAligned`) and within their limits (`LimitsHold`), sessions stick to a server, replicas and engines are quiet when the batch is in, and both ways implement `RolloutService`: a batch comes back with the rows waited for, or raises |
| `data_parallel` | thirty-eight configurations of FSDP and Megatron ranks | every row comes back to its place, advantages follow the scores of the answers to the same prompt, ratios compare the same tokens, the shares of ranks are as even as the partitions they are made of, the selection is that of one optimizer step, every row is trained once per epoch with the weight it should have, no rank waits alone |
| `training` | `fit` over three ranks, seventeen kinds of jobs on nine worker setups | rollouts come from the latest policy, memory and random states are handed over, every column is there, rewards range over the right tokens and are finite, the driver keeps to the workers' contract, `fit` returns |
| `weights` | seventy models on meshes of one to twelve ranks | ranks hold what they compute with; what comes out is what went in |

Five runs show that the code does not do what one of its comments or docstrings says:

| run | what happens |
|---|---|
| `uploader_lost_wakeup` | `wait_for_all` also waits for `queue.unfinished_tasks`, which falls (`task_done`) after the last `notify_all`: a waiter that looks in between sleeps for ever with every upload done.  `shutdown_uploader` calls it. |
| `sft_relative` | with the default, relative, `default_local_dir` rotation waits for an absolute path and `CheckpointHandler` enqueued a relative one: the strings differ, `wait_for_path` returns at once, and a directory is deleted under its upload. |
| `ppo_hdfs` | the driver's comment says that worker checkpoint managers upload the shards; the FSDP manager leaves `hdfs_path` unused.  HDFS gets `data.pt` and the tracker, a restart prefers HDFS, and does not come up. |
| `given_ids` | with Ulysses sequence parallelism the given top-k ids are neither padded nor sliced: `torch.gather` gets an index longer than its input. |
| `ratio` | off policy with strategy `only_tch`, the old log-probabilities are those of the student's own top-k tokens, the new ones those of the teacher's: the ratio divides probabilities of different tokens. |

Three more configurations are kept beside the runs.  Each gives TLC one property that
a docstring or comment suggests and that the code does not have, for the reader
who wants the trace:

| configuration | property | what happens |
|---|---|---|
| `MCSftCheckpointNested` | `CopiedToItsPlace` | `hdfs_io.copy` is said to work like `shutil.copytree` (`utils/hdfs_io.py` 85).  A put of the directory breaks off and leaves a part of it at the destination; the retry puts the whole checkpoint inside that part, and the task is recorded as copied. |
| `MCSftCheckpointWriters` | `DataloadersAgree` | two data-parallel ranks each save the dataloader's state; rank 0 publishes the tracker before the other has written (`checkpoint_handler.py` 97, barrier at 113).  The job dies there, and after the restart the other rank's data start anew. |
| `MCDataParallelShares` | `DpSharesSimilar` | `_balance_batch` is said to give "each dp rank ... similar total tokens" (`ray_trainer.py` 1509), but makes `world_size` partitions, heaviest first.  With two ranks to a sequence-parallel group, both long responses of four go to one data-parallel rank. |

About single properties:

- `TrackerResumable` excludes `keep = 1`: rotation then removes the only
  checkpoint before its successor exists.  Such jobs are in the run, for the
  other properties.
- `RemoteComplete` looks for a copy at its destination or one level below, since put leaves
  it at either.  `CopiedToItsPlace` is the stronger claim, and false (above).
- `JobFinishes` and `JobEnds` do not say that the last wait returns: the run
  `uploader_lost_wakeup` shows that it may not.  They say that a job ends, or sleeps
  there and nowhere else, with every upload settled (`Overslept`).
- `SharesBalanced` speaks of the rows that ranks are dealt.  A data-parallel rank is
  dealt as many neighbouring partitions as ranks share its rows, so the bound for two
  shares is that many times the difference between the heaviest and the lightest
  row; for ranks that share none it is the one of the partitioner.
- `EnginesQuiet` says of SGLang's engine that it works on no row (`busy`) when the trainer
  goes on to take its memory: after a batch has come back, and after a training batch
  has raised.  It relies on the abort at the end of a training batch, since the
  engine does not hear of cancellations.  After a validation that raised nobody
  aborts, and the property says nothing.  Tools are released by answered rows only.
- `RowsAligned`, `LimitsHold` and `EnginesQuiet` each state one obligation for the two
  ways of rolling out.  For SGLang `RowsAligned` says that a row is a
  conversation (`Conversation`): its mask is on the tokens of the model's
  turns, an answer stands behind its header, and no header is left without an
  answer, unless `max_model_len` cuts the row there.
- `LimitsHold` (`WithinLimits`): a request of an agent loop may pass the model's
  context only after an interaction's answer, which is appended whatever
  its length.  SGLang looks at the length before each request.
- `KeepsContract` lets a call raise when an awaited call did, or, with
  `calculate_log_probs`, when a row was cancelled (section 6).
- `KeepsContract`, `FitReturns`, `JobFinishes`, `JobEnds`, `EveryUploadSettles` are the
  liveness properties; each allows the error that the code raises, when the
  model's cause for it has occurred.
- `WeightsOfMiniBatch` says that the gradient of a mini-batch does not depend on
  how it is cut into micro-batches.  It speaks of whole mini-batches, and for
  Megatron of fixed micro-batches: its dynamic ones are averaged whatever the
  number of their rows.
- `RewardsFinite` leaves out `delta_opd` with `intersection` and with `only_tch`,
  whose masks let tokens outside the reference teacher's top-k into the reward.
- `StepsComplete` and `FitReturns` leave out the configurations `Rejected` names,
  which the code turns down or has no branch for.
- `RatioSameTokens` passes in `training`, whose jobs with `only_tch` are on policy,
  and is violated in `ratio`, where the job is off policy.
- `ModelComesOut` is not checked with virtual stages and a number of layers for the
  last stage alone, where the recomputed offset is wrong (section 6).

## 4. Bounds and fairness

| run | bounds | why they are enough |
|---|---|---|
| uploader | `MaxTasks` 2, `RetryCount` 1, two workers, a directory and a file | two tasks of one path or of two, on both workers at once or one behind the other; one attempt that fails and one that then succeeds or fails for good.  The proofs lift all of them. |
| `sft_main` | two ranks, five steps, a save every second and at the end, two crashes, `MaxTasks` 6 (652,000 states) | one rank publishes and one does not, further ranks being like the second; three saves with two kept rotate a full list; a crash in the first save after a restart, with the rotation's memory lost.  `MaxTasks` exceeds what the saves enqueue, so no upload is cut off. |
| `ppo_main` | three steps, a save every second, one crash, one failure, `MaxTasks` 8 (624,000 states) | a save after every role at another step, a rotation of one role and not yet of the other, uploads of two trackers at once |
| `rollout` | two samples, at most two workers, two replicas, two batches (one of SGLang), response 4, prompt 2 or, with tools, 3, one user turn, two assistant turns, one failure (481,000 states) | room for a tool or an interaction between two answers, a turn that fills the response exactly or passes it, one that the turn limits stop; the second batch meets the session cache of the first; one row waited for and one cancelled in each of its states; a context that ends with the row and one that goes beyond |
| `training` | 17 kinds of jobs on 9 setups, three ranks, two or three steps (50,000 states) | a rank that is behind, one that is ahead and one between; a step after an update, a save, a validation |
| `data_parallel` | 38 configurations, two to six rows of four shapes, two ranks (six with tensor and context parallelism), responses of three tokens (162,000 states) | rows shorter and longer than others, with observations in the middle and at the end; shares that are not whole numbers of micro-batches; mini-batches that are not whole; rows that do not divide among workers or ranks |
| `weights` | 70 configurations, 2 to 10 layers, 1 to 12 ranks; `TwoFilesFrom` = 7 stands for the thirty layers from which a checkpoint has two files | a stage that is first, last, between, or all of them; virtual stages; groups of heads split and not; one file and two |

`MaxCrashes`, `MaxFailures`, `MaxTasks` and `MaxRounds` bound the environment; the code
has no such counters.  `MaxObservation` bounds a tool's answer, which the code truncates to
a configured length.

Deadlock checking is off where the system really stops: threads of an idle
uploader wait for calls, and a finished or broken job does nothing more.
`DataParallel` and `ModelWeights` end in a step that stutters, and are checked
for deadlock.

Fairness, and no more than this:

- *HdfsUploader*: weak fairness of every started operation of a caller and of every
  step of a worker: threads are scheduled and a copy attempt ends (`hdfs_io` runs a
  command and waits for it).  Nothing obliges a caller to call.
- *SftCheckpoint, PpoCheckpoint*: weak fairness of the collective steps, of every
  rank or of the driver, and of every upload; a dead job is started again by
  whoever runs it.  That rotation's `wait_for_path` returns once its uploads have
  settled is what `EveryUploadSettles` says of the uploader.  `wait_for_all` is
  not taken to return, except where nothing was ever given to the pool
  (`NothingUploaded`) and it finds both its conditions true at once.
- *Rollout*: weak fairness of the manager and of every sample, of the SGLang worker
  and of every coroutine: an awaited call answers or raises, and the event
  loop resumes what is ready.
- *TrainLoop*: weak fairness of the driver, of the collectives and of each rank's
  steps.
- None on crashes and failures, and none in `DataParallel` and `ModelWeights`,
  which have no liveness property.

## 5. What is proved

Forty-one theorems in eight modules, each for every value of the constants.

**Uploader** (`HdfsUploaderProofs`; from `ConfigAssumption` and
`CloserIsAlone`).  `Invariance` is `Spec => []IInv`.  `IInv` adds two conjuncts to
the properties: `Places` says that whoever puts, queues or holds a task holds
an issued one, without which a worker could settle a task that was never
registered; `Waits` says that a waiting call has no result yet and that a
thread in a final shutdown does nothing else.  `InflightExact` and `OneOwner` are
inductive only together (`Located`): a task leaves the table when its single owner
finalizes it.  `UnfinishedExact` (theorem `EveryItemCounted`) is proved apart, from the
library's theorems on cardinality.  `NothingLostAtShutdown` is `FinalShutdownLosesNothing`.
`Bookkeeping` collects the invariants, `WaitsAreSound` is the action property
`WaitCoversUploads`, and `Implements` is the refinement `Spec => ServiceSpec`: a task maps to its outcome, a caller to what it waits for, the end of
the final wait to `closed`.  Its step for `Check` (`CheckAnswers`) needs both counts
exact: only then does an empty table mean that every covered task has settled.

**SFT checkpoints** (`SftCheckpointProofs`; from `CheckpointAssumption`).  `TypeCorrect`
for every configuration.  `Resumable` and `GoesOnFromLastSave` from the named
assumption `Resuming`: automatic resume, and rank 0 the only writer of dataloader
state.  The inductive invariant `SaveInv` is, for every job that keeps other than
one checkpoint:

- `Kept`: the newest directory rank 0 remembers is the tracker's or, once written, the
  step's, the others are older, and a directory to be removed is older than the
  tracker's;
- `Order`: the tracker is behind the step until rank 0 has written it;
- `Written`: what a rank has passed in its program stands on disk.

`GoesOnFromLastSave` adds `Interval`: the tracker is at a step that is saved, and
training is less than `SaveFreq` past it (lemma `Multiples`).

With one checkpoint kept the tracker's directory is the one removed, and with several
writers rank 0 publishes before the others have written: both assumptions are
needed, and TLC shows states that break the invariant without them.

What is copied (`UploadsReadWhatWasSaved`, `CopiesCanBeResumedFrom`) is proved from
`Awaiting`: rank 0 the only writer, and an absolute local directory, so that rotation
waits for the paths that were enqueued; the run `sft_relative` shows what happens
otherwise.  `CopiesCanBeResumedFrom` adds `Once`: an incarnation gives the uploader each
directory once, after it has saved it, so that no put comes onto a copy after it was
recorded as done; what an earlier incarnation left behind is where the copy then
nests.  `LoadersInStep` (`DataloadersAgree`) follows from `Resuming` and the
invariant of `Resumable`.

**PPO checkpoints** (`PpoCheckpointProofs`; from `PpoAssumption`).  `TypeCorrect`
includes `Within`: a resumed job passes its last step at most once per
restart.  `Resumable` and `GoesOnFromLastSave` from `KeepsTwo`, that no role keeps
exactly one checkpoint.  `SaveInv` has the same three parts per role: one that
has been saved in this round (`Done`) has the new directory whole and remembers it as its
newest, one that has not still has the tracker's.  `NoneMissed` says that no save was due
between the tracker's step and the present one; that the bound of an interval
holds then follows from lemma `OneIsSaved`.  `LastCheckpointArrives` is `LastStepCopied`,
without an assumption.

**Workers** (`TrainLoopProofs`; from `RanksAssumption`, `SetupsAssumption`).  Ranks run
through a method's steps at their own speed, so what holds is a statement per
place: `MethodInv` (which step a rank can be at while the group is in which
method), `MemoryInv` (what is on the GPU there), `StreamInv` (which random state is
installed) and `EngineInv` (which version of the weights the engine holds).  They
give `TypeCorrect`, `MemoryHandedOver`, `StreamsApart` and `EnginesUpToDate`, all
under `WorkerSpec`, that is, for every caller that keeps the contract.

**Training** (the same module; from these and `TopsAssumption`).
`TrainingKeepsContract`: `fit` implements `WorkerSpec`.  Its invariant `DriverInv`
says what mode and versions the group has when the driver is at each place
(`WorkersSee`), so that each call's guard holds.  `TrainingIsSound` composes it with the
workers' theorems.  `EachTokenOnce` rests on `ScoredInv` and on lemmas about
`DistillationReward` (`Slots`, `DistilledOnce`): in the union of two top-k lists a
common token is in two slots, of which the mask leaves one.  `NoInfiniteReward` shows
the same way that no slot a mask leaves is one a teacher has no log-probability for, from
`DeltaStrategiesKnown`: `delta_opd` with a strategy it has a branch for.
`EveryColumnIsThere` (`StepsComplete`) follows the set of the batch's columns through
`fit`, in every mode.  `LossOfSameTokens` (`RatioSameTokens`) is proved from
`DenominatorsFit`, which excludes what the run `ratio` shows.

**Rollout** (`RolloutProofs`; from `AgentLoopAssumption` and
`RolloutAssumption`).  `AgentLoopCorrect` rests on `AgentInv`: the buffers of a
trajectory grow together (`Extended`), a turn starts only within the limits, and a
sample is on its way only while the replicas are awake.  `SessionsStick` is
`OneServer`, from `Share <= CacheSize`: the sessions of the present batch are the last used
of their cache, and there is room for all of them.  The synchronous way has
an invariant per request, `Good`, for each place where its coroutine awaits.  Its
buffers are a conversation (`Talk`): behind the prompt the loss is on what the model
made, an engine is asked only with a header at the end, and one that is over has
lost the header or is cut at the context (`Cleared`).  `BusyInv` says what the engine may be
working on: rows whose coroutine awaits it, failed ones, and in a training batch
cancelled ones, until the abort.  A row is the last response
and mask of such a request (`AnsweredRow`).  `RolloutInv` puts the two side by side, each
step of one way leaving the other's variables alone.  From it follow `AllRowsAligned`,
`AllLimitsHold`, `AllEnginesQuiet` and `RolloutImplementsService`, the safety half of
`KeepsContract`: a batch comes back only with the rows it waited for.
`AllSessionsStick` carries `OneServer` over.

**Sequence balancing** (`SeqlenBalancingProofs`; no assumption but that the function may be
called, `CanPartition`).  `PartitionsCover`: none of the assertions behind
Karmarkar-Karp can fail.  `PartitionsBalanced`: with equal sizes the loads of two
partitions differ by no more than two single rows may.  Every state in the queue is in
`States`: its sets are in order, heaviest first, have no row in common, and

- with equal sizes (`Even`) all have as many rows, and the heaviest is at most the bound
  above the lightest: of two states whose spreads are within the bound, pairing the heaviest
  of one with the lightest of the other gives a state within it again;
- otherwise (`Filled`) no set has two rows while another is empty, so that as soon as there
  are as many rows as sets none is empty.

`Queue` adds that states have no row in common and have all rows between them.  Each pop
takes a state that exists because `PoppedBefore` is a total order on such states
(`OnePops`).  The recursion through the merges is followed by induction over their
number, through the set of numbers for which a fact holds (lemma `Upward`), since the
library's induction theorems take an operator as a parameter.

**A batch** (`DataParallelProofs`, `AlignmentProofs`; from `ConfigsAssumption`, what the constructors ask of a
configuration, that only `dp_actor` has top-k ids and selects tokens, that only a ranking
mode selects over the batch (`ray_trainer.py` 2986-2998), and that percentages and divergences
are whole numbers, with a start before its end; `ShapesAssumption`, and
`LengthsAssumption`, that prompts and responses have a maximal length).  `SharesBalancedHolds` is `SharesBalanced`, for any
number of prompts, samples, workers and ranks.  The lemmas before it say what the operators of
`DataProto` make of a batch of n rows (`Table`): `SelectIdxsIs`, `ChunkIs`, `ConcatIs`,
`UnionIs`.  The inductive invariant `BalanceInv` follows the rows from the prompts to the
balanced batch:

- while the agent loops answer, every worker has as many rows as every other, and in a
  validation whose samples divide among them row i of each answers the same prompt
  (`Working`), which is what `_build_per_prompt_balanced_indices` is for
  (`PerPromptOrderIs`: its quotients and remainders, put together, are those of
  the deal);
- collected, they are all rows, each with a response (`Held`);
- in the balanced order the shares of the ranks are Karmarkar-Karp's partitions
  (`BalancedOrderIs`), so that `PartitionsBalanced` bounds their loads (`Evened`);
- a rank is dealt several of them, side by side (`DispatchShares`), whose loads add up
  (`LoadOfMore`), so its share is within as many bounds of another's (`WiderEven`,
  `DealtEvenly`).

Rows that do not divide end the step with the assertion that the code makes
(`CannotDivide`): without it chunks would not be of one size.

`NoRankWaitsAloneHolds` is `NoRankWaitsAlone`.  `WaitInv` extends `BalanceInv` to the end of
the step:

- from the first dispatch on, the driver's batch has every row with its response, whatever
  columns are joined to it, and the rows divide among the data-parallel ranks
  (`Dealable`); every estimator credits every row (`EstimateIs`);
- so all ranks are given as many rows (`DispatchShares`), and as many in every
  mini-batch, whole or short, of every epoch (`MiniBatchIs`, `PieceRowsAre`);
- so they cut as many micro-batches (`MicroBatchedIs`): of a fixed size, a number that
  depends on the rows only; of dynamic size, the number the all_reduce leaves them with,
  rounded up for virtual stages, none of it more than the rows (`AgreedNumberIs`,
  `RoundedUp`);
- and run them together (`InStep`), each result having the columns of every other
  (`Yields`), so that what is collected can be joined again.

The ranks of a pipeline do not agree on what they were given but on what its last stage was:
that the last stage has a rank for each (`LastStageIs`), and some rank answers for every
share (`OneCollects`), follows from the divisibility that `_validate_config` asks for.

`EveryRowTrainedHolds` is `EveryRowTrained`.  `TrainInv` extends `WaitInv` (`TrainRest`):

- the workers number their responses through (`Counting`), so that collected no response
  stands twice in the batch (`OwnIds`), and neither balancing nor any column joined later
  drops or repeats one (`BalanceTrains`, `DriverTrains`, `RankTrains`);
- step k of an optimizer has on every rank the rows `RowAt` says: those of mini-batch `MiniOf`
  in the order of epoch `EpochOf`, of the rows the rank was dealt (`Holds`), and the list of steps
  made so far says so of each of them (`History`).  While it trains, an optimizer has made
  some of its steps and its ranks hold the rows of the next (`Amid`); when it goes on it has
  made all (`Through`).

That these rows are what dispatch, `make_iterator` and `split` hand out is `MiniBatchRows`.
The rest is about `RowAt`: an order that is drawn is a permutation (`TurnedIs`), the pieces
`split` makes cover it without overlap, the short one at the end included (`PiecesAre`), each
epoch has each mini-batch in one step (`StepsAre`), so a row is taken once an epoch by the ranks
it was dealt to and by no other (`TakenOnce`), and these are a Dp-th of the ranks
(`OwnersAre`, by a bijection with the ranks of one data-parallel line).

`ColumnsAlignedHolds` and `RatioAlignedHolds` (`AlignmentProofs`) are `ColumnsAligned` and
`RatioAligned`: what was
computed for a token stands, and is compared, at that token.  Their invariant `AlignInv` adds
to `WaitInv` (`AlignRest`):

- every row of the driver's batch stands beside the prompt it answers (`Sourced`) and
  has, in each column that has an entry per token, the right one at each
  token of the response (`Sound`); which columns there are by when is `Stored`;
- the ranks at work hold sound rows, those of a group the same rows in the same micro-batches;
  these have every row of the rank once, in an order that restoring undoes (`Reaches`); and
  each output made so far belongs to the rows of its micro-batch (`AtWork`);
- what is to be joined to the batch is computed for the rows the batch has now (`OfBatch`).

The hard part is one forward.  The rows of a micro-batch are packed into a string, each
rank of the group runs a slice of it (`dp_actor`, `dp_critic`) or the chunks of each row that
context parallelism balances (Megatron), and what the ranks return is put together again:

- where a row starts in the packed string (`OffsetsAre`, `FlattenStrings`), by induction over
  the rows through `Upward`;
- at which rank and place each token of a response is run, and where it comes back to
  (`OwnLandsAre` for one rank, `ChunkLandsAre` for chunks, `LandsAre` for both backends), with
  padding at the end and the label, which is the token one ahead, across slices and rows;
- top-k ids are not gathered over a group: that an output with them exists means that the group
  has one rank (`NoneGathers`).

`MicroBatchesReach` says of both ways of cutting that the micro-batches have every row once,
`RankResultTells` that the outputs of a rank, joined and put back in order, are sound for
its rows, `CollectIs` and `CollectAdds` that of what all ranks return the driver makes a sound
column, and `MiniBatchSound` that a mini-batch of any epoch is a sound table again.  For
`RatioAligned` it is then enough that a step computes what is stored
(`OutputsCompare`, `ComparedMeans`).

`SelectedOfStepHolds` (`AlignmentProofs`) is `SelectedOfStep`: a step of the actor trains on
the tokens its mode means, ranked among all rows that step together or within each row; the
critic's trains on every token of its responses.  The operators come first:

- a ranking lists tokens once each, in order (`Enumerates`, `RowTokensAre`,
  `RankedTokens`); an interval of it takes the tokens whose rank lies in it (`SelectsIn`);
  so a rank's own mask has of each row what the mode means (`Meant`, `RowMeant`);
- the driver ranks a pool of rows at a time, those of one mini-batch of all ranks.  A row is
  in one pool at most (`PoolsApart`), the driver lists the rows of a pool once each
  (`PooledRowsAre`), and its mask keeps of every pool what the intervals take of it
  (`PoolsSelected`, `PooledBatch`).

The invariant `SelectInv` adds to those of the other two theorems (`SelectRest`) where the mask
is (`MaskedInTime`) and what the steps took (`StepsSelected`):

- the batch has no mask before it is ranked, so that the critic's ranks never have one
  (`UnmaskedBegins`), and the right one after (`Chosen`, `RankChooses`);
- the ranks at work have, for the rows of this step, the driver's mask or a right one of their
  own (`RowsChosen`, `ChosenBegins`);
- a step takes what the masks of its rows keep (`StepTakes`), ranks with the same row take it
  alike (`TakenAlike`), and mini-batches whose rows compete are taken whole (`PoolTaken`): each
  step made has selected what was meant (`StepIsMeant`).

`StepsChoose` reads `SelectedOfStep` off that.  The cases of the property exclude one
another: of a CASE with two true guards TLC takes the first, where a proof may take neither.

Only model-checked:

- all liveness: fairness and ENABLED are outside the prover's reach;
- that every rollout ends, the liveness half of `KeepsContract`;
- of `DataParallel` the invariants `WeightsOfMiniBatch` and `CreditIsDue`, and
  both of `ModelWeights`.  The library's induction theorems do not reach the folds and sums
  over tokens, rows and layers that these go through (weights and advantages as
  fractions, names and heads of layers); each would need inductions of its own
  through `Upward`, as the merges of Karmarkar-Karp and the packed rows have, and that
  has not been done.

## 6. What the models left as observations

Behaviours met while modelling that no comment or test contradicts, or that a
model leaves out by a named condition.

Checkpoints and uploads:

- A retried `put` of a directory onto a half-made copy lands one level deeper, and a put that
  failed for good leaves its part behind (`MCSftCheckpointNested`).  Later
  readers of `global_step_N` on HDFS find the part.
- The PPO driver rewrites the tracker in place: a crash there leaves it empty, and
  `int('')` raises at every restart.
- `max_ckpt_to_keep` counts from the present incarnation: directories left by an
  earlier one are never rotated.
- With one writer of dataloader state per rank, a crash can leave the tracker naming a
  checkpoint that lacks one of them; ranks then resume at different places
  (`MCSftCheckpointWriters`).
- `fsdp_sft_trainer` uploads `data.pt` and the tracker but no shards.
- A PPO job resumed from its last checkpoint makes one step past
  `total_training_steps`.
- `kl_loss_coef` adapts in the driver's configuration and is in no checkpoint.

Workers and training:

- Asynchronous rollout with `free_cache_engine` off never wakes the engines: they
  keep the weights they were loaded with.
- LoRA with dummy load format and a resumed checkpoint: the first rollout lacks the
  adapter.
- REMAX with a reward model in the loop reads `old_log_probs` before they exist; the
  profiling branch uses `ref_policy_wg` with LoRA, where there is none.
- `delta_opd` with `intersection` masks by the first teacher alone and with
  `only_tch` not at all: rewards can be infinite (`dp_actor.py` 959).
- A short last micro-batch of a short mini-batch weighs its rows more;
  `seq-mean-token-sum-norm` with dynamic micro-batches weighs a row by the size
  of its micro-batch.
- REINFORCE++ starts its running sum anew at every observation; an outcome reward
  on a masked trailing token is dropped by REINFORCE++, REMAX and GAE, and
  summed by GRPO and its kin; `rloo` and `rloo_vectorized` differ for a prompt
  with one response.

Megatron:

- The critic masks with `attention_mask` and so values and trains observation
  tokens, where `dp_critic` uses `response_mask` (`megatron_critic.py` 127,
  `dp_critic.py` 188).
- Dynamic micro-batches are averaged whatever the number of their rows.
- Rounding their number up to a multiple of the virtual pipeline's group can exceed the
  rows, which the partitioner asserts against (`seqlen_balancing.py` 311).
- A row too short to fill the front chunks of context parallelism raises
  (`models/mcore/util.py` 77).
- The offset of a chunk's first layer is wrong with virtual stages and a number of
  layers for the last stage alone (`megatron_utils.py` 1047-1052); the skip of a
  tied head looks for a name no parameter has (line 871), harmlessly; the
  saver asserts even stages; fewer key-value heads than tensor ranks divide by
  zero; the merger takes the first of an empty list when no split fits; value
  models cannot be merged.

Agent loops, tools and SGLang:

- Session placement counts trajectories ever placed, never those that ended.
- No agent loop calls `finalize_interaction`.
- The sandbox rate limiter registers a release before its acquire was granted.
- SGLang's padding of a cancelled request has no log-probabilities: with over-sampling
  and `calculate_log_probs` a batch with a cancelled row raises
  (`sglang_rollout.py` 1256; `Uncollectable`).  The same line cuts the
  log-probabilities of a row by the length of a two-dimensional tensor, which is
  one, and so keeps the last of them only; their values are not modelled.
- Cancelled SGLang requests never release their tools, and `_req_level_generate_sequences`
  waits for at least one row however large `over_sample_rate` is.
- An exception on the first tensor rank leaves the others at the barrier; a
  validation batch that raises leaves the other coroutines pending in the loop and their
  rows in the engine, which nobody aborts.
- Were a tool's `create` to return an observation, it would take the place of the prompt's
  header, and `response_ids`, cut at the length of the prompt, would begin
  within it (`schemas.py` 466, 564).  No tool of the repository does.

## 7. What is not modelled

- *Numerics*: the KL penalty in the reward, estimator
  `token_reward_direct_plus_grpo`, scaling by standard deviations, loss
  values, optimizers, model code, kernels, training engines.
- *Text*: chat templates and their switch for a teacher (`fsdp_workers.py`
  2442-2623), tool call parsing, answer extraction, datasets.  Models take the
  results as choices.
- *Engines and services*: vLLM and SGLang themselves, Ray's scheduling, sandboxes and
  search; SGLang's servers and its updates of weights.
- *Megatron workers'* offloading and hand-over (`megatron_workers.py` 560-760):
  their compute is in `DataParallel`, their weights in `ModelWeights`.  Mixture of
  experts, vision and latent-attention converters, mbridge, optimizer state;
  the loaders and savers under `models/llama` and `models/qwen2`, which no
  registry reaches.
- *Tools, rate limiter, interactions, reward managers, reward loop*: choices and
  failures of calls in `AgentLoop` and `SglangRollout`, columns in `TrainLoop`.
- *Of modelled parts*: images and videos, single tool calls of one turn, standalone
  mode and the single-turn agent loop; `resume_mode` other than `auto` for the PPO
  driver; `copy_to_local` and its cache; the critic worker's offloading;
  asynchronous reward functions; NCCL timeouts; batch serialisation and nested
  tensors; `greedy_partition` (no caller).
- *No protocol*: rollout skip, profiling, logging, tracking, configuration,
  scripts, evaluation, tests, third-party code.

The map covers about a ninth of the repository's lines of code.  Most of the rest is
model code, kernels, scoring functions and text handling in the list above.

## 8. Plan

What remains worth doing, most important first:

1. The token bucket of the sandbox tools and the retries of the reward router.
2. The Megatron workers' memory hand-over in `HybridWorker`.
3. Proofs of `WeightsOfMiniBatch` and `CreditIsDue`, on top of `SelectInv`: the ranks' sums by
   `Upward`.
4. A proof of `RanksHoldTheirShare` of `ModelWeights`.
