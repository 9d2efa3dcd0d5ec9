---------------------------- MODULE HybridWorker ----------------------------
(***************************************************************************)
(* The actor-rollout worker group of fsdp_workers.py: on every rank an     *)
(* FSDP shard of the policy and its optimizer share a GPU with a vLLM      *)
(* engine.  rollout_mode hands the policy's weights to the engine,         *)
(* trainer_mode takes the memory back; the other methods bring the         *)
(* offloaded shard to the GPU, compute, and put it back.                   *)
(*                                                                         *)
(* The driver waits for a method on all ranks (ray.get) before it calls    *)
(* the next one.  Within a method a rank moves on its own, up to the       *)
(* collectives in it, which all ranks complete together.                   *)
(*                                                                         *)
(* A weight is told by the policy's version, the update_actor calls it has *)
(* been through; the frozen base weights of a LoRA model are version 0.    *)
(***************************************************************************)
EXTENDS Integers

CONSTANTS Ranks, Setups

ASSUME RanksAssumption == Ranks # {}

ASSUME SetupsAssumption ==
  Setups \subseteq [async      : BOOLEAN,   \* rollout.mode
                    freeCache  : BOOLEAN,   \* rollout.free_cache_engine
                    dummy      : BOOLEAN,   \* rollout.load_format starts with dummy weights
                    level      : {1, 2},    \* the engine's sleep level
                    lora       : BOOLEAN,
                    offParams  : BOOLEAN,   \* fsdp_config.param_offload
                    offOptim   : BOOLEAN,   \* fsdp_config.optimizer_offload
                    resumed    : Nat]       \* the step of the checkpoint found, 0 for none

VARIABLES setup, version,
          call,         \* the method called last
          pc,           \* how far a rank is in it
          params, optim,          \* where a rank's shards are
          weights, kvCache,       \* whether the engine's are on the GPU
          base, adapter,          \* the versions the engine holds
          staged,                 \* the version gathered for the engine
          baseSynced,             \* base_sync_done
          rng, trainRng, genRng,  \* the device's random state, and the two kept ones
          rollouts                \* the version a rank's last responses are from

workerVars == <<setup, version, call, pc, params, optim, weights, kvCache, base, adapter,
                staged, baseSynced, rng, trainRng, genRng, rollouts>>

Lost  == -1   \* discarded by a sleep of level 2
Dummy == -2   \* never loaded
Weights == Nat \cup {Lost, Dummy}

\* A random state: the draws of training and of generation that led to it.
Streams == [train : Nat, gen : Nat]

Methods == {"init_model", "load_checkpoint", "save_checkpoint", "compute", "update_actor",
            "generate_sequences", "wake_up", "sleep"}

Home(off) == IF off THEN "cpu" ELSE "gpu"

-----------------------------------------------------------------------------

\* After init_model.  Sync workers end it in trainer_mode; for async ones the
\* agent loop manager's first sleep does, when the engine frees its cache.
WorkerInit ==
  /\ setup \in Setups
  /\ version = 0
  /\ call = "init_model"
  /\ pc = [r \in Ranks |-> IF setup.async /\ ~setup.freeCache THEN "idle" ELSE "release"]
  /\ params = [r \in Ranks |-> Home(setup.offParams)]
  /\ optim = [r \in Ranks |-> Home(setup.offOptim)]
  /\ weights = [r \in Ranks |-> TRUE]
  /\ kvCache = [r \in Ranks |-> TRUE]
  /\ base = [r \in Ranks |-> IF setup.dummy THEN Dummy ELSE 0]
  /\ adapter = [r \in Ranks |-> Lost]
  /\ staged = [r \in Ranks |-> 0]
  /\ baseSynced = [r \in Ranks |-> ~setup.dummy]
  /\ rng = [r \in Ranks |-> [train |-> 0, gen |-> 0]]
  /\ trainRng = rng
  /\ genRng = rng
  /\ rollouts = [r \in Ranks |-> 0]

Idle == \A r \in Ranks : pc[r] = "idle"

First(method) ==
  CASE method \in {"generate_sequences", "wake_up"} -> "gather"
    [] method = "sleep"                             -> "release"
    [] OTHER                                        -> "bring"

\* The driver calls a method on all ranks.
Call(method) ==
  /\ Idle
  /\ call' = method
  /\ pc' = [r \in Ranks |-> First(method)]
  /\ UNCHANGED <<setup, version, params, optim, weights, kvCache, base, adapter, staged,
                 baseSynced, rng, trainRng, genRng, rollouts>>

-----------------------------------------------------------------------------
\* rollout_mode, trainer_mode and the generation between them.

Gather(r) ==
  /\ pc[r] = "gather"
  /\ params' = [params EXCEPT ![r] = "gpu"]
  /\ staged' = [staged EXCEPT ![r] = version]
  /\ pc' = [pc EXCEPT ![r] = "install"]
  /\ UNCHANGED <<setup, version, call, optim, weights, kvCache, base, adapter, baseSynced,
                 rng, trainRng, genRng, rollouts>>

\* Mutant of Install: the shard stays on the GPU.
InstallBeside(r) ==
  /\ pc[r] = "install"
  /\ weights' = [weights EXCEPT ![r] = TRUE]
  /\ pc' = [pc EXCEPT ![r] = "sync"]
  /\ UNCHANGED <<setup, version, call, params, optim, kvCache, base, adapter, staged, baseSynced,
                 rng, trainRng, genRng, rollouts>>

Install(r) ==
  /\ pc[r] = "install"
  /\ params' = [params EXCEPT ![r] = Home(setup.offParams)]
  /\ weights' = [weights EXCEPT ![r] = TRUE]
  /\ pc' = [pc EXCEPT ![r] = "sync"]
  /\ UNCHANGED <<setup, version, call, optim, kvCache, base, adapter, staged, baseSynced,
                 rng, trainRng, genRng, rollouts>>

\* Mutant of Sync: an engine that was given weights once is left with them.
SyncOnce ==
  /\ \A r \in Ranks : pc[r] = "sync"
  /\ base' = [r \in Ranks |->
       IF baseSynced[r] THEN base[r] ELSE IF setup.lora THEN 0 ELSE staged[r]]
  /\ adapter' = [r \in Ranks |-> IF setup.lora /\ baseSynced[r] THEN staged[r] ELSE adapter[r]]
  /\ pc' = [r \in Ranks |-> "wake"]
  /\ UNCHANGED <<setup, version, call, params, optim, weights, kvCache, staged, baseSynced,
                 rng, trainRng, genRng, rollouts>>

\* update_weights assembles each full tensor from the shards of all ranks.
Sync ==
  /\ \A r \in Ranks : pc[r] = "sync"
  /\ base' = [r \in Ranks |->
       IF ~setup.lora                                THEN staged[r]
       ELSE IF setup.level = 2 \/ ~baseSynced[r]     THEN 0
       ELSE base[r]]
  /\ adapter' = [r \in Ranks |-> IF setup.lora /\ baseSynced[r] THEN staged[r] ELSE adapter[r]]
  /\ pc' = [r \in Ranks |-> "wake"]
  /\ UNCHANGED <<setup, version, call, params, optim, weights, kvCache, staged, baseSynced,
                 rng, trainRng, genRng, rollouts>>

Wake(r) ==
  /\ pc[r] = "wake"
  /\ kvCache' = [kvCache EXCEPT ![r] = TRUE]
  /\ baseSynced' = [baseSynced EXCEPT ![r] = TRUE]
  /\ trainRng' = [trainRng EXCEPT ![r] = rng[r]]
  /\ rng' = [rng EXCEPT ![r] = genRng[r]]
  /\ pc' = [pc EXCEPT ![r] = IF call = "wake_up" THEN "idle" ELSE "generate"]
  /\ UNCHANGED <<setup, version, call, params, optim, weights, base, adapter, staged, genRng,
                 rollouts>>

\* The policy a rank's engine is.  LoRA's adapter starts as the base model
\* itself, so an engine that was given none yet is version 0.
Installed(r) ==
  IF setup.lora THEN IF base[r] # 0 THEN base[r] ELSE IF adapter[r] = Lost THEN 0 ELSE adapter[r]
                ELSE base[r]

Generate(r) ==
  /\ pc[r] = "generate"
  /\ rng' = [rng EXCEPT ![r].gen = @ + 1]
  /\ rollouts' = [rollouts EXCEPT ![r] = Installed(r)]
  /\ pc' = [pc EXCEPT ![r] = "release"]
  /\ UNCHANGED <<setup, version, call, params, optim, weights, kvCache, base, adapter, staged,
                 baseSynced, trainRng, genRng>>

\* Mutant of Release: training goes on with the generation's random state.
ReleaseUnrestored(r) ==
  /\ pc[r] = "release"
  /\ weights' = [weights EXCEPT ![r] = @ /\ ~setup.freeCache]
  /\ kvCache' = [kvCache EXCEPT ![r] = @ /\ ~setup.freeCache]
  /\ LET discards == setup.freeCache /\ setup.level = 2
     IN  /\ base' = [base EXCEPT ![r] = IF discards THEN Lost ELSE @]
         /\ adapter' = [adapter EXCEPT ![r] = IF discards THEN Lost ELSE @]
  /\ genRng' = [genRng EXCEPT ![r] = rng[r]]
  /\ pc' = [pc EXCEPT ![r] = IF call = "generate_sequences" THEN "reduce" ELSE "idle"]
  /\ UNCHANGED <<setup, version, call, params, optim, staged, baseSynced, rng, trainRng, rollouts>>

\* Mutant of Release: one rank returns without the reduction.
ReleaseOneEarly(r) ==
  /\ pc[r] = "release"
  /\ weights' = [weights EXCEPT ![r] = @ /\ ~setup.freeCache]
  /\ kvCache' = [kvCache EXCEPT ![r] = @ /\ ~setup.freeCache]
  /\ LET discards == setup.freeCache /\ setup.level = 2
     IN  /\ base' = [base EXCEPT ![r] = IF discards THEN Lost ELSE @]
         /\ adapter' = [adapter EXCEPT ![r] = IF discards THEN Lost ELSE @]
  /\ genRng' = [genRng EXCEPT ![r] = rng[r]]
  /\ rng' = [rng EXCEPT ![r] = trainRng[r]]
  /\ pc' = [pc EXCEPT ![r] = IF call = "generate_sequences" /\ r # (CHOOSE x \in Ranks : TRUE) THEN "reduce" ELSE "idle"]
  /\ UNCHANGED <<setup, version, call, params, optim, staged, baseSynced, trainRng, rollouts>>

Release(r) ==
  /\ pc[r] = "release"
  /\ weights' = [weights EXCEPT ![r] = @ /\ ~setup.freeCache]
  /\ kvCache' = [kvCache EXCEPT ![r] = @ /\ ~setup.freeCache]
  /\ LET discards == setup.freeCache /\ setup.level = 2
     IN  /\ base' = [base EXCEPT ![r] = IF discards THEN Lost ELSE @]
         /\ adapter' = [adapter EXCEPT ![r] = IF discards THEN Lost ELSE @]
  /\ genRng' = [genRng EXCEPT ![r] = rng[r]]
  /\ rng' = [rng EXCEPT ![r] = trainRng[r]]
  /\ pc' = [pc EXCEPT ![r] = IF call = "generate_sequences" THEN "reduce" ELSE "idle"]
  /\ UNCHANGED <<setup, version, call, params, optim, staged, baseSynced, trainRng, rollouts>>

\* The timings are averaged over all ranks.
Reduce ==
  /\ \A r \in Ranks : pc[r] = "reduce"
  /\ pc' = [r \in Ranks |-> "idle"]
  /\ UNCHANGED <<setup, version, call, params, optim, weights, kvCache, base, adapter, staged,
                 baseSynced, rng, trainRng, genRng, rollouts>>

\* The servers' engines answer the agent loops while the ranks wait; their
\* sampling does not touch the trainer's process.
Serve ==
  /\ setup.async
  /\ Idle
  /\ rollouts' = [r \in Ranks |-> Installed(r)]
  /\ UNCHANGED <<setup, version, call, pc, params, optim, weights, kvCache, base, adapter,
                 staged, baseSynced, rng, trainRng, genRng>>

-----------------------------------------------------------------------------
\* The methods that compute on the shard: "compute" is compute_log_prob,
\* compute_log_probs_for_ids and the two reward methods, which leave no state.

Bring(r) ==
  /\ pc[r] = "bring"
  /\ params' = [params EXCEPT ![r] = "gpu"]
  /\ optim' = [optim EXCEPT ![r] = IF call = "update_actor" THEN "gpu" ELSE @]
  /\ pc' = [pc EXCEPT ![r] = "run"]
  /\ UNCHANGED <<setup, version, call, weights, kvCache, base, adapter, staged, baseSynced,
                 rng, trainRng, genRng, rollouts>>

Run ==
  /\ \A r \in Ranks : pc[r] = "run"
  /\ CASE call = "update_actor" ->
            /\ version' = version + 1
            /\ rng' = [r \in Ranks |-> [rng[r] EXCEPT !.train = @ + 1]]
            /\ UNCHANGED optim
       [] call = "load_checkpoint" ->   \* shards, optimizer and random state of the checkpoint
            /\ version' = setup.resumed
            /\ rng' = [r \in Ranks |-> [train |-> setup.resumed, gen |-> 0]]
            /\ optim' = [r \in Ranks |-> "gpu"]
       [] OTHER -> UNCHANGED <<version, rng, optim>>
  /\ pc' = [r \in Ranks |-> "putback"]
  /\ UNCHANGED <<setup, call, params, weights, kvCache, base, adapter, staged, baseSynced,
                 trainRng, genRng, rollouts>>

PutBack(r) ==
  /\ pc[r] = "putback"
  /\ params' = [params EXCEPT ![r] = Home(setup.offParams)]
  /\ optim' = [optim EXCEPT ![r] = IF call \in {"update_actor", "load_checkpoint"}
                                     THEN Home(setup.offOptim) ELSE @]
  /\ pc' = [pc EXCEPT ![r] = "idle"]
  /\ UNCHANGED <<setup, version, call, weights, kvCache, base, adapter, staged, baseSynced,
                 rng, trainRng, genRng, rollouts>>

RankStep(r) ==
  Gather(r) \/ Install(r) \/ Wake(r) \/ Generate(r) \/ Release(r) \/ Bring(r) \/ PutBack(r)

GroupStep == (\E r \in Ranks : RankStep(r)) \/ Sync \/ Reduce \/ Run

-----------------------------------------------------------------------------
\* The workers under any driver that keeps to their contract: methods that
\* compute only in trainer mode, wake_up and sleep in turn, the checkpoint
\* before everything else, and no update before the first responses.

InRollout == call = "wake_up"

\* The setups in which every generation is preceded by a rollout_mode that
\* gives the engine a complete policy.  Left out are async engines that keep
\* their cache, which generate_sequences never wakes, and a resumed LoRA
\* policy in an engine that starts with dummy weights, whose first
\* rollout_mode sends the base model and no adapter.
EngineFollows ==
  /\ setup.async => setup.freeCache
  /\ setup.lora /\ setup.dummy => setup.resumed = 0

MayCall(method) ==
  CASE method = "init_model"         -> FALSE
    [] method = "load_checkpoint"    -> call = "init_model" /\ setup.resumed > 0
    [] method = "wake_up"            -> setup.async /\ setup.freeCache /\ ~InRollout
    [] method = "sleep"              -> InRollout
    [] method = "generate_sequences" -> ~setup.async
    [] method = "update_actor"       -> ~InRollout /\ (EngineFollows => \A r \in Ranks : baseSynced[r])
    [] OTHER                         -> ~InRollout

MayServe == InRollout \/ ~setup.freeCache

WorkerNext ==
  \/ \E method \in Methods : MayCall(method) /\ Call(method)
  \/ GroupStep
  \/ MayServe /\ Serve

WorkerSpec == WorkerInit /\ [][WorkerNext]_workerVars

-----------------------------------------------------------------------------

WorkerTypeOK ==
  /\ setup \in Setups
  /\ version \in Nat
  /\ call \in Methods
  /\ pc \in [Ranks -> {"idle", "gather", "install", "sync", "wake", "generate", "release",
                       "reduce", "bring", "run", "putback"}]
  /\ params \in [Ranks -> {"cpu", "gpu"}]
  /\ optim \in [Ranks -> {"cpu", "gpu"}]
  /\ weights \in [Ranks -> BOOLEAN]
  /\ kvCache \in [Ranks -> BOOLEAN]
  /\ base \in [Ranks -> Weights]
  /\ adapter \in [Ranks -> Weights]
  /\ staged \in [Ranks -> Nat]
  /\ baseSynced \in [Ranks -> BOOLEAN]
  /\ rng \in [Ranks -> Streams]
  /\ trainRng \in [Ranks -> Streams]
  /\ genRng \in [Ranks -> Streams]
  /\ rollouts \in [Ranks -> Weights]

\* An offloaded policy and the engine's KV cache are never on a rank's GPU
\* together, nor are an offloaded optimizer and the engine's weights: the
\* memory rollout_mode and trainer_mode hand over is not used twice.
OneModelOnGpu ==
  setup.freeCache =>
    \A r \in Ranks :
      /\ setup.offParams => ~(params[r] = "gpu" /\ kvCache[r])
      /\ setup.offOptim  => ~(optim[r] = "gpu" /\ weights[r])

Serving(r) == pc[r] = "generate" \/ (pc[r] = "idle" /\ InRollout)

\* An engine that generates is the policy as the last update left it.
RolloutsFromLatest ==
  EngineFollows => \A r \in Ranks : Serving(r) => Installed(r) = version

\* In trainer mode a rank's random state is where its own training left it,
\* whatever was generated in between.
TrainerStreamKept ==
  \A r \in Ranks :
    ~Serving(r) /\ pc[r] # "release" => rng[r] = [train |-> version, gen |-> 0]
=============================================================================
