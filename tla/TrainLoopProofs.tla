--------------------------- MODULE TrainLoopProofs ---------------------------
(***************************************************************************)
(* Theorems about TrainLoop, for every job, number of ranks and vocabulary *)
(* of top-k ids, and about the workers it drives.  Whatever a driver does  *)
(* within HybridWorker's contract, the engines generate with the latest    *)
(* policy, the GPU is handed over between policy and engine, and           *)
(* generation leaves training's random state alone; fit and _validate call *)
(* the workers as that contract asks, so all this holds in training; a     *)
(* dense reward scores each token once and is finite; a step finds every   *)
(* column it reads; and the loss multiplies and divides what is of the     *)
(* same tokens.                                                            *)
(***************************************************************************)
EXTENDS TrainLoop, TLAPS

-----------------------------------------------------------------------------
\* Type correctness.

\* What the workers' __init__ leaves has its types.
LEMMA TypeInit == WorkerInit => WorkerTypeOK
<1> SUFFICES ASSUME WorkerInit PROVE WorkerTypeOK
  OBVIOUS
<1>1. setup.dummy \in BOOLEAN /\ setup.offParams \in BOOLEAN /\ setup.offOptim \in BOOLEAN
  BY SetupsAssumption DEF WorkerInit
<1> QED
  BY <1>1 DEF WorkerInit, WorkerTypeOK, Methods, Weights, Streams, Home, Lost, Dummy

\* Every step keeps every variable in its type.
LEMMA TypeStep ==
  ASSUME WorkerTypeOK, [WorkerNext]_workerVars
  PROVE  WorkerTypeOK'
<1>1. ASSUME NEW m \in Methods, MayCall(m), Call(m) PROVE WorkerTypeOK'
  BY <1>1 DEF WorkerTypeOK, Call, MayCall, First, Methods
<1>2. ASSUME NEW r \in Ranks, Gather(r) PROVE WorkerTypeOK'
  BY <1>2 DEF WorkerTypeOK, Gather
<1>3. ASSUME NEW r \in Ranks, Install(r) PROVE WorkerTypeOK'
  BY <1>3 DEF Install, WorkerTypeOK, Home
<1>4. ASSUME NEW r \in Ranks, Wake(r) PROVE WorkerTypeOK'
  BY <1>4 DEF WorkerTypeOK, Wake
<1>5. ASSUME NEW r \in Ranks, Generate(r) PROVE WorkerTypeOK'
  <2>1. Installed(r) \in Weights
    BY DEF Installed, WorkerTypeOK, Weights
  <2>2. rng' = [rng EXCEPT ![r] = [rng[r] EXCEPT !.gen = rng[r].gen + 1]]
    BY <1>5 DEF Generate
  <2>3. rng[r] \in Streams
    BY DEF WorkerTypeOK
  <2>4. [rng[r] EXCEPT !.gen = rng[r].gen + 1] \in Streams
    BY <2>3 DEF Streams
  <2>5. rng' \in [Ranks -> Streams]
    BY <2>2, <2>4 DEF WorkerTypeOK
  <2> QED
    BY <1>5, <2>1, <2>5 DEF Generate, WorkerTypeOK
<1>6. ASSUME NEW r \in Ranks, Release(r) PROVE WorkerTypeOK'
  BY <1>6, SetupsAssumption DEF Release, WorkerTypeOK, Weights, Lost
<1>7. ASSUME NEW r \in Ranks, Bring(r) PROVE WorkerTypeOK'
  BY <1>7 DEF WorkerTypeOK, Bring
<1>8. ASSUME NEW r \in Ranks, PutBack(r) PROVE WorkerTypeOK'
  BY <1>8 DEF PutBack, WorkerTypeOK, Home
<1>9. CASE Sync
  BY <1>9 DEF Sync, WorkerTypeOK, Weights
<1>10. CASE Reduce
  BY <1>10 DEF WorkerTypeOK, Reduce
<1>11. CASE Run
  <2>1. setup.resumed \in Nat
    BY SetupsAssumption DEF WorkerTypeOK
  <2>2. version' \in Nat /\ rng' \in [Ranks -> Streams] /\ optim' \in [Ranks -> {"cpu", "gpu"}]
    <3>1. CASE call = "update_actor"
      <4>1. \A r \in Ranks : rng'[r] = [rng[r] EXCEPT !.train = rng[r].train + 1] /\ rng[r] \in Streams
        BY <1>11, <3>1 DEF Run, WorkerTypeOK
      <4>2. ASSUME NEW r \in Ranks PROVE rng'[r] \in Streams
        <5>1. rng'[r] = [rng[r] EXCEPT !.train = rng[r].train + 1]
          BY <4>1
        <5>2. rng[r] \in Streams
          BY <4>1
        <5>3. [rng[r] EXCEPT !.train = rng[r].train + 1] \in Streams
          BY <5>2 DEF Streams
        <5> QED
          BY <5>1, <5>3
      <4>3. rng' = [r \in Ranks |-> rng'[r]]
        BY <1>11, <3>1 DEF Run
      <4>4. rng' \in [Ranks -> Streams]
        BY <4>2, <4>3
      <4> QED
        BY <1>11, <3>1, <4>4 DEF Run, WorkerTypeOK
    <3>2. CASE call = "load_checkpoint"
      BY <1>11, <2>1, <3>2 DEF Run, WorkerTypeOK, Streams
    <3>3. CASE call \notin {"update_actor", "load_checkpoint"}
      BY <1>11, <3>3 DEF Run, WorkerTypeOK
    <3> QED
      BY <3>1, <3>2, <3>3
  <2> QED
    BY <1>11, <2>2 DEF Run, WorkerTypeOK
<1>12. CASE Serve
  <2>1. \A r \in Ranks : Installed(r) \in Weights
    BY DEF Installed, WorkerTypeOK, Weights
  <2> QED
    BY <1>12, <2>1 DEF Serve, WorkerTypeOK
<1>13. CASE UNCHANGED workerVars
  BY <1>13 DEF WorkerTypeOK, workerVars
<1> QED
  BY <1>1, <1>2, <1>3, <1>4, <1>5, <1>6, <1>7, <1>8, <1>9, <1>10, <1>11, <1>12, <1>13 DEF WorkerNext, GroupStep, RankStep

\* The workers' variables keep their types.
THEOREM TypeCorrect == WorkerSpec => []WorkerTypeOK
<1>1. WorkerInit => WorkerTypeOK
  BY TypeInit
<1>2. WorkerTypeOK /\ [WorkerNext]_workerVars => WorkerTypeOK'
  BY TypeStep
<1> QED
  BY <1>1, <1>2, PTL DEF WorkerSpec

-----------------------------------------------------------------------------
\* Where a rank may be in which method, and what a method's call tells.

MethodInv ==
  /\ \A r \in Ranks :
       /\ pc[r] \in {"bring", "run", "putback"} =>
            call \in {"load_checkpoint", "save_checkpoint", "compute", "update_actor"}
       /\ pc[r] \in {"gather", "install", "sync", "wake"} => call \in {"generate_sequences", "wake_up"}
       /\ pc[r] \in {"generate", "reduce"} => call = "generate_sequences"
       /\ pc[r] = "release" => call \in {"init_model", "generate_sequences", "sleep"}
  /\ call = "wake_up" => setup.async /\ setup.freeCache
  /\ call = "generate_sequences" => ~setup.async
  /\ call = "load_checkpoint" => setup.resumed > 0
  /\ call = "update_actor" /\ EngineFollows => \A r \in Ranks : baseSynced[r]

\* The workers start in the trainer_mode that ends init_model.
LEMMA MethodInit == WorkerInit => MethodInv
BY DEF WorkerInit, MethodInv

\* A rank goes through the method that was called, and a call meets its contract.
LEMMA MethodStep ==
  ASSUME WorkerTypeOK, MethodInv, [WorkerNext]_workerVars
  PROVE  MethodInv'
<1>1. ASSUME NEW m \in Methods, MayCall(m), Call(m) PROVE MethodInv'
  BY <1>1, RanksAssumption DEF Call, MayCall, First, InRollout, Methods, WorkerTypeOK, MethodInv, EngineFollows
<1>2. ASSUME NEW r \in Ranks, Gather(r) PROVE MethodInv'
  BY <1>2 DEF Gather, WorkerTypeOK, MethodInv, EngineFollows
<1>3. ASSUME NEW r \in Ranks, Install(r) PROVE MethodInv'
  BY <1>3 DEF Install, WorkerTypeOK, MethodInv, EngineFollows
<1>4. ASSUME NEW r \in Ranks, Wake(r) PROVE MethodInv'
  BY <1>4 DEF Wake, WorkerTypeOK, MethodInv, EngineFollows
<1>5. ASSUME NEW r \in Ranks, Generate(r) PROVE MethodInv'
  BY <1>5 DEF Generate, WorkerTypeOK, MethodInv, EngineFollows
<1>6. ASSUME NEW r \in Ranks, Release(r) PROVE MethodInv'
  BY <1>6 DEF Release, WorkerTypeOK, MethodInv, EngineFollows
<1>7. ASSUME NEW r \in Ranks, Bring(r) PROVE MethodInv'
  BY <1>7 DEF Bring, WorkerTypeOK, MethodInv, EngineFollows
<1>8. ASSUME NEW r \in Ranks, PutBack(r) PROVE MethodInv'
  BY <1>8 DEF PutBack, WorkerTypeOK, MethodInv, EngineFollows
<1>9. CASE Sync
  BY <1>9 DEF Sync, WorkerTypeOK, MethodInv, EngineFollows
<1>10. CASE Reduce
  BY <1>10 DEF Reduce, WorkerTypeOK, MethodInv, EngineFollows
<1>11. CASE Run
  BY <1>11, RanksAssumption DEF Run, WorkerTypeOK, MethodInv, EngineFollows
<1>12. CASE Serve
  BY <1>12 DEF Serve, WorkerTypeOK, MethodInv, EngineFollows
<1>13. CASE UNCHANGED workerVars
  BY <1>13 DEF workerVars, WorkerTypeOK, MethodInv, EngineFollows
<1> QED
  BY <1>1, <1>2, <1>3, <1>4, <1>5, <1>6, <1>7, <1>8, <1>9, <1>10, <1>11, <1>12, <1>13 DEF WorkerNext, GroupStep, RankStep

-----------------------------------------------------------------------------
\* OneModelOnGpu is not inductive: that the policy is away when the engine
\* takes its memory rests on where in their methods the ranks hold which.

Holds(r) ==
  /\ setup.offParams /\ params[r] = "gpu" => pc[r] \in {"install", "run", "putback"}
  /\ setup.offOptim /\ optim[r] = "gpu" =>
       pc[r] \in {"run", "putback"} /\ call \in {"update_actor", "load_checkpoint"}
  /\ weights[r] => pc[r] \in {"sync", "wake", "generate", "release"} \/ (pc[r] = "idle" /\ InRollout)
  /\ kvCache[r] => pc[r] \in {"generate", "release"} \/ (pc[r] = "idle" /\ InRollout)

MemoryInv == setup.freeCache => \A r \in Ranks : Holds(r)

\* After __init__ the policy is where offloading puts it, the engine's memory free or in use.
LEMMA MemoryInit == WorkerInit => MemoryInv
<1> SUFFICES ASSUME WorkerInit, setup.freeCache, NEW r \in Ranks PROVE Holds(r)
  BY DEF MemoryInv
<1>1. pc[r] = "release"
  BY DEF WorkerInit
<1>2. params[r] = Home(setup.offParams) /\ optim[r] = Home(setup.offOptim)
  BY DEF WorkerInit
<1> QED
  BY <1>1, <1>2 DEF Holds, Home

\* Every step keeps policy and engine apart.
LEMMA MemoryStep ==
  ASSUME WorkerTypeOK, MethodInv, MemoryInv, [WorkerNext]_workerVars
  PROVE  MemoryInv'
<1>1. ASSUME NEW m \in Methods, MayCall(m), Call(m) PROVE MemoryInv'
  <2> SUFFICES ASSUME setup.freeCache, NEW r \in Ranks PROVE Holds(r)'
    BY <1>1 DEF MemoryInv, Call
  <2>1. pc[r] = "idle" /\ pc'[r] = First(m) /\ call' = m
    BY <1>1 DEF Call, Idle
  <2>2. InRollout => m = "sleep"
    BY <1>1 DEF MayCall, MethodInv, InRollout, Methods
  <2>3. m = "sleep" => First(m) = "release"
    BY DEF First
  <2> QED
    BY <1>1, <2>1, <2>2, <2>3 DEF Call, MemoryInv, Holds
<1>2. ASSUME NEW r \in Ranks, Gather(r) PROVE MemoryInv'
  BY <1>2 DEF Gather, WorkerTypeOK, MethodInv, MemoryInv, Holds, InRollout, Home
<1>3. ASSUME NEW r \in Ranks, Install(r) PROVE MemoryInv'
  BY <1>3 DEF Install, WorkerTypeOK, MethodInv, MemoryInv, Holds, InRollout, Home
<1>4. ASSUME NEW r \in Ranks, Wake(r) PROVE MemoryInv'
  BY <1>4 DEF Wake, WorkerTypeOK, MethodInv, MemoryInv, Holds, InRollout, Home
<1>5. ASSUME NEW r \in Ranks, Generate(r) PROVE MemoryInv'
  BY <1>5 DEF Generate, WorkerTypeOK, MethodInv, MemoryInv, Holds, InRollout, Home
<1>6. ASSUME NEW r \in Ranks, Release(r) PROVE MemoryInv'
  BY <1>6 DEF Release, WorkerTypeOK, MethodInv, MemoryInv, Holds, InRollout, Home
<1>7. ASSUME NEW r \in Ranks, Bring(r) PROVE MemoryInv'
  BY <1>7 DEF Bring, WorkerTypeOK, MethodInv, MemoryInv, Holds, InRollout, Home
<1>8. ASSUME NEW r \in Ranks, PutBack(r) PROVE MemoryInv'
  BY <1>8 DEF PutBack, WorkerTypeOK, MethodInv, MemoryInv, Holds, InRollout, Home
<1>9. CASE Sync
  BY <1>9 DEF Sync, WorkerTypeOK, MethodInv, MemoryInv, Holds, InRollout, Home
<1>10. CASE Reduce
  BY <1>10 DEF Reduce, WorkerTypeOK, MethodInv, MemoryInv, Holds, InRollout, Home
<1>11. CASE Run
  BY <1>11 DEF Run, WorkerTypeOK, MethodInv, MemoryInv, Holds, InRollout, Home
<1>12. CASE Serve
  BY <1>12 DEF Serve, WorkerTypeOK, MethodInv, MemoryInv, Holds, InRollout, Home
<1>13. CASE UNCHANGED workerVars
  BY <1>13 DEF workerVars, WorkerTypeOK, MethodInv, MemoryInv, Holds, InRollout, Home
<1> QED
  BY <1>1, <1>2, <1>3, <1>4, <1>5, <1>6, <1>7, <1>8, <1>9, <1>10, <1>11, <1>12, <1>13 DEF WorkerNext, GroupStep, RankStep

-----------------------------------------------------------------------------
\* Training's random state is in use in trainer mode and kept in rollout mode.

Stream(r) ==
  IF Serving(r) \/ pc[r] = "release" THEN trainRng[r] = [train |-> version, gen |-> 0]
                                     ELSE rng[r] = [train |-> version, gen |-> 0]

StreamInv == \A r \in Ranks : Stream(r)

\* __init__ stores the random state of training as trainer_mode is about to restore it.
LEMMA StreamInit == WorkerInit => StreamInv
BY DEF WorkerInit, StreamInv, Stream, Serving, InRollout

\* Every step keeps training's random state.
LEMMA StreamStep ==
  ASSUME WorkerTypeOK, MethodInv, StreamInv, [WorkerNext]_workerVars
  PROVE  StreamInv'
<1>1. ASSUME NEW m \in Methods, MayCall(m), Call(m) PROVE StreamInv'
  <2> SUFFICES ASSUME NEW r \in Ranks PROVE Stream(r)'
    BY DEF StreamInv
  <2>1. pc[r] = "idle" /\ pc'[r] = First(m) /\ call' = m
    BY <1>1 DEF Call, Idle
  <2>2. InRollout <=> m = "sleep"
    BY <1>1 DEF MayCall, MethodInv, InRollout, Methods
  <2>3. First(m) \in {"gather", "release", "bring"} /\ (First(m) = "release" <=> m = "sleep")
    BY DEF First, Methods
  <2> QED
    BY <1>1, <2>1, <2>2, <2>3 DEF Call, StreamInv, Stream, Serving, InRollout
<1>2. ASSUME NEW r \in Ranks, Gather(r) PROVE StreamInv'
  BY <1>2 DEF Gather, WorkerTypeOK, MethodInv, StreamInv, Stream, Serving, InRollout
<1>3. ASSUME NEW r \in Ranks, Install(r) PROVE StreamInv'
  BY <1>3 DEF Install, WorkerTypeOK, MethodInv, StreamInv, Stream, Serving, InRollout
<1>4. ASSUME NEW r \in Ranks, Wake(r) PROVE StreamInv'
  BY <1>4 DEF Wake, WorkerTypeOK, MethodInv, StreamInv, Stream, Serving, InRollout
<1>5. ASSUME NEW r \in Ranks, Generate(r) PROVE StreamInv'
  BY <1>5 DEF Generate, WorkerTypeOK, MethodInv, StreamInv, Stream, Serving, InRollout
<1>6. ASSUME NEW r \in Ranks, Release(r) PROVE StreamInv'
  BY <1>6 DEF Release, WorkerTypeOK, MethodInv, StreamInv, Stream, Serving, InRollout
<1>7. ASSUME NEW r \in Ranks, Bring(r) PROVE StreamInv'
  BY <1>7 DEF Bring, WorkerTypeOK, MethodInv, StreamInv, Stream, Serving, InRollout
<1>8. ASSUME NEW r \in Ranks, PutBack(r) PROVE StreamInv'
  BY <1>8 DEF PutBack, WorkerTypeOK, MethodInv, StreamInv, Stream, Serving, InRollout
<1>9. CASE Sync
  BY <1>9 DEF Sync, WorkerTypeOK, MethodInv, StreamInv, Stream, Serving, InRollout
<1>10. CASE Reduce
  BY <1>10 DEF Reduce, WorkerTypeOK, MethodInv, StreamInv, Stream, Serving, InRollout
<1>11. CASE Run
  <2> SUFFICES ASSUME NEW r \in Ranks PROVE Stream(r)'
    BY DEF StreamInv
  <2>1. pc[r] = "run" /\ pc'[r] = "putback"
    BY <1>11 DEF Run
  <2>2. rng[r] = [train |-> version, gen |-> 0]
    BY <2>1 DEF StreamInv, Stream, Serving
  <2>3. rng'[r] = [train |-> version', gen |-> 0]
    <3>1. CASE call = "update_actor"
      BY <1>11, <2>2, <3>1 DEF Run
    <3>2. CASE call = "load_checkpoint"
      BY <1>11, <3>2 DEF Run
    <3>3. CASE call \notin {"update_actor", "load_checkpoint"}
      BY <1>11, <2>2, <3>3 DEF Run
    <3> QED
      BY <3>1, <3>2, <3>3
  <2> QED
    BY <2>1, <2>3 DEF Stream, Serving
<1>12. CASE Serve
  BY <1>12 DEF Serve, WorkerTypeOK, MethodInv, StreamInv, Stream, Serving, InRollout
<1>13. CASE UNCHANGED workerVars
  BY <1>13 DEF workerVars, WorkerTypeOK, MethodInv, StreamInv, Stream, Serving, InRollout
<1> QED
  BY <1>1, <1>2, <1>3, <1>4, <1>5, <1>6, <1>7, <1>8, <1>9, <1>10, <1>11, <1>12, <1>13 DEF WorkerNext, GroupStep, RankStep

-----------------------------------------------------------------------------
\* What an engine holds: the version gathered is still the policy's when it is
\* installed, a LoRA engine has the base model from its first rollout_mode
\* on, and before that one the policy is the base model.

Engine(r) ==
  /\ pc[r] \in {"install", "sync"} => staged[r] = version
  /\ pc[r] = "wake" \/ Serving(r) => Installed(r) = version
  /\ setup.lora /\ pc[r] = "wake" => base[r] = 0
  /\ setup.lora /\ setup.level = 1 /\ baseSynced[r] => base[r] = 0
  /\ ~baseSynced[r] => setup.dummy
  /\ setup.lora /\ ~baseSynced[r] => version = 0 /\ adapter[r] = Lost

EngineInv == EngineFollows => \A r \in Ranks : Engine(r)

\* An engine starts with dummy weights or with those of the model file, the policy's own.
LEMMA EngineInit == WorkerInit => EngineInv
<1> SUFFICES ASSUME WorkerInit, EngineFollows, NEW r \in Ranks PROVE Engine(r)
  BY DEF EngineInv
<1>1. pc[r] = "release" /\ ~Serving(r)
  BY DEF WorkerInit, EngineFollows, Serving, InRollout
<1>2. baseSynced[r] <=> ~setup.dummy
  BY DEF WorkerInit
<1>3. ~setup.dummy => base[r] = 0
  BY DEF WorkerInit
<1>4. version = 0 /\ adapter[r] = Lost
  BY DEF WorkerInit
<1> QED
  BY <1>1, <1>2, <1>3, <1>4 DEF Engine

\* Every step keeps the engines with the policy.
LEMMA EngineStep ==
  ASSUME WorkerTypeOK, MethodInv, EngineInv, [WorkerNext]_workerVars
  PROVE  EngineInv'
<1>1. ASSUME NEW m \in Methods, MayCall(m), Call(m) PROVE EngineInv'
  BY <1>1 DEF Call, MayCall, First, Methods, WorkerTypeOK, MethodInv, EngineInv, Engine, EngineFollows, Serving, InRollout, Installed
<1>2. ASSUME NEW r \in Ranks, Gather(r) PROVE EngineInv'
  BY <1>2 DEF Gather, WorkerTypeOK, MethodInv, EngineInv, Engine, EngineFollows, Serving, InRollout, Installed
<1>3. ASSUME NEW r \in Ranks, Install(r) PROVE EngineInv'
  BY <1>3 DEF Install, WorkerTypeOK, MethodInv, EngineInv, Engine, EngineFollows, Serving, InRollout, Installed
<1>4. ASSUME NEW r \in Ranks, Wake(r) PROVE EngineInv'
  BY <1>4 DEF Wake, WorkerTypeOK, MethodInv, EngineInv, Engine, EngineFollows, Serving, InRollout, Installed
<1>5. ASSUME NEW r \in Ranks, Generate(r) PROVE EngineInv'
  BY <1>5 DEF Generate, WorkerTypeOK, MethodInv, EngineInv, Engine, EngineFollows, Serving, InRollout, Installed
<1>6. ASSUME NEW r \in Ranks, Release(r) PROVE EngineInv'
  BY <1>6 DEF Release, WorkerTypeOK, MethodInv, EngineInv, Engine, EngineFollows, Serving, InRollout, Installed
<1>7. ASSUME NEW r \in Ranks, Bring(r) PROVE EngineInv'
  BY <1>7 DEF Bring, WorkerTypeOK, MethodInv, EngineInv, Engine, EngineFollows, Serving, InRollout, Installed
<1>8. ASSUME NEW r \in Ranks, PutBack(r) PROVE EngineInv'
  BY <1>8 DEF PutBack, WorkerTypeOK, MethodInv, EngineInv, Engine, EngineFollows, Serving, InRollout, Installed
<1>9. CASE Sync
  <2> SUFFICES ASSUME EngineFollows, NEW r \in Ranks PROVE Engine(r)'
    BY <1>9 DEF Sync, EngineInv, EngineFollows
  <2>1. Engine(r) /\ pc[r] = "sync" /\ pc'[r] = "wake" /\ staged[r] = version
    BY <1>9 DEF Sync, EngineInv, Engine
  <2>2. setup' = setup /\ version' = version /\ baseSynced' = baseSynced
    BY <1>9 DEF Sync
  <2>3. base[r] \in Weights /\ adapter[r] \in Weights /\ version \in Nat /\ baseSynced[r] \in BOOLEAN
    BY DEF WorkerTypeOK
  <2>4. setup.level \in {1, 2}
    BY SetupsAssumption DEF WorkerTypeOK
  <2>5. CASE ~setup.lora
    <3>1. base'[r] = version
      BY <1>9, <2>1, <2>5 DEF Sync
    <3> QED
      BY <2>1, <2>2, <2>5, <3>1 DEF Engine, Installed
  <2>6. CASE setup.lora /\ baseSynced[r]
    <3>1. base'[r] = 0
      BY <1>9, <2>1, <2>4, <2>6 DEF Sync, Engine
    <3>2. adapter'[r] = version
      BY <1>9, <2>1, <2>6 DEF Sync
    <3> QED
      BY <2>1, <2>2, <2>3, <2>6, <3>1, <3>2 DEF Engine, Installed, Lost
  <2>7. CASE setup.lora /\ ~baseSynced[r]
    <3>1. base'[r] = 0
      BY <1>9, <2>7 DEF Sync
    <3>2. adapter'[r] = adapter[r]
      BY <1>9, <2>7 DEF Sync
    <3> QED
      BY <2>1, <2>2, <2>7, <3>1, <3>2 DEF Engine, Installed
  <2> QED
    BY <2>5, <2>6, <2>7
<1>10. CASE Reduce
  BY <1>10 DEF Reduce, WorkerTypeOK, MethodInv, EngineInv, Engine, EngineFollows, Serving, InRollout, Installed
<1>11. CASE Run
  BY <1>11 DEF Run, WorkerTypeOK, MethodInv, EngineInv, Engine, EngineFollows, Serving, InRollout, Installed
<1>12. CASE Serve
  BY <1>12 DEF Serve, WorkerTypeOK, MethodInv, EngineInv, Engine, EngineFollows, Serving, InRollout, Installed
<1>13. CASE UNCHANGED workerVars
  BY <1>13 DEF workerVars, WorkerTypeOK, MethodInv, EngineInv, Engine, EngineFollows, Serving, InRollout, Installed
<1> QED
  BY <1>1, <1>2, <1>3, <1>4, <1>5, <1>6, <1>7, <1>8, <1>9, <1>10, <1>11, <1>12, <1>13 DEF WorkerNext, GroupStep, RankStep

-----------------------------------------------------------------------------

\* The inductive invariant: the parts above, each preserved with the help of
\* the types and of where the ranks are in their methods.
WorkerInv == WorkerTypeOK /\ MethodInv /\ MemoryInv /\ StreamInv /\ EngineInv

\* Whatever a driver calls within MayCall and MayServe, the invariant holds.
LEMMA WorkerInvariant == WorkerSpec => []WorkerInv
<1>1. WorkerInit => WorkerInv
  BY TypeInit, MethodInit, MemoryInit, StreamInit, EngineInit DEF WorkerInv
<1>2. WorkerInv /\ [WorkerNext]_workerVars => WorkerInv'
  BY TypeStep, MethodStep, MemoryStep, StreamStep, EngineStep DEF WorkerInv
<1> QED
  BY <1>1, <1>2, PTL DEF WorkerSpec

\* The memory rollout_mode and trainer_mode hand over is never used twice.
THEOREM MemoryHandedOver == WorkerSpec => []OneModelOnGpu
<1>1. WorkerInv => OneModelOnGpu
  BY DEF WorkerInv, MemoryInv, Holds, OneModelOnGpu, InRollout
<1> QED
  BY <1>1, WorkerInvariant, PTL

\* Generation never touches the random state training goes on with.
THEOREM StreamsApart == WorkerSpec => []TrainerStreamKept
<1>1. WorkerInv => TrainerStreamKept
  BY DEF WorkerInv, StreamInv, Stream, TrainerStreamKept
<1> QED
  BY <1>1, WorkerInvariant, PTL

\* An engine generates with the policy as the last update left it.
THEOREM EnginesUpToDate == WorkerSpec => []RolloutsFromLatest
<1>1. WorkerInv => RolloutsFromLatest
  BY DEF WorkerInv, EngineInv, Engine, RolloutsFromLatest
<1> QED
  BY <1>1, WorkerInvariant, PTL

-----------------------------------------------------------------------------
\* The driver keeps to the workers' contract.

\* The driver's places.
Places == {"load", "first_step", "generate", "serve", "sleep", "received", "reward", "teacher",
           "sampled_reward", "delta_reward", "distill", "score", "ref", "adv", "update", "save",
           "validate", "finish", "done", "raised"}

\* The places a step goes through once its responses are asked for.
Rolled == Places \ {"load", "first_step", "generate", "serve", "sleep"}

\* Where the driver is and what it called last: the engines are awake only
\* around the agent loops, the checkpoint comes first, and every rank that is
\* through a rollout_mode has given its engine a base model.
DriverInv ==
  /\ at \in Places
  /\ purpose \in {"train", "baseline", "val", "val_before"}
  /\ at = "load" => call = "init_model"
  /\ InRollout => at \in {"serve", "sleep"}
  /\ at \in {"serve", "sleep"} => setup.async /\ (setup.freeCache => InRollout)
  /\ call \in {"generate_sequences", "wake_up"} =>
       \A r \in Ranks : pc[r] \notin {"gather", "install", "sync", "wake"} => baseSynced[r]
  /\ EngineFollows /\ at \in Rolled =>
       call = "generate_sequences" \/ \A r \in Ranks : baseSynced[r]

TrainInv == WorkerTypeOK /\ MethodInv /\ DriverInv

\* fit starts after init_model.
LEMMA DriverInit == Init => DriverInv
BY DEF Init, WorkerInit, DriverInv, InRollout, Places, Rolled

\* What a step of the driver does to the workers: nothing, a call within the
\* contract, or a round of the agent loops while the engines are awake.
WorkersSee ==
  \/ UNCHANGED workerVars
  \/ \E m \in Methods : MayCall(m) /\ Call(m)
  \/ MayServe /\ Serve

\* Every action of the driver keeps to the contract.
LEMMA DriverSteps ==
  ASSUME TrainInv, Driver
  PROVE  WorkersSee
<1> USE DEF At, NoCall
<1>0. at \notin {"serve", "sleep"} => ~InRollout
  BY DEF TrainInv, DriverInv
<1>1. ASSUME at \notin {"serve", "sleep"}, NEW m \in {"compute", "save_checkpoint"}, Call(m) PROVE WorkersSee
  BY <1>0, <1>1 DEF WorkersSee, MayCall, Methods
<1>2. CASE Load
  BY <1>2 DEF Load, WorkersSee, MayCall, Methods, TrainInv, DriverInv
<1>3. CASE FirstStep \/ Received \/ Teacher \/ SampledReward \/ Advantages \/ Validate \/ Finish
  BY <1>3 DEF FirstStep, Received, Teacher, SampledReward, Advantages, Validate, Finish, WorkersSee
<1>4. CASE Generates
  BY <1>4 DEF Generates, WorkersSee, MayCall, Methods
<1>5. CASE WakeEngines
  BY <1>0, <1>5 DEF WakeEngines, WorkersSee, MayCall, Methods
<1>6. CASE ServeLoops
  BY <1>6 DEF ServeLoops, WorkersSee, MayServe, TrainInv, DriverInv
<1>7. CASE SleepEngines
  BY <1>7 DEF SleepEngines, WorkersSee, MayCall, Methods, TrainInv, DriverInv
<1>8. CASE FirstLogProb
  BY <1>1, <1>8 DEF FirstLogProb, WorkersSee
<1>9. CASE DeltaReward
  BY <1>1, <1>9 DEF DeltaReward
<1>10. CASE Distill
  BY <1>1, <1>10 DEF Distill, Raise, WorkersSee
<1>11. CASE OldLogProb
  BY <1>1, <1>11 DEF OldLogProb, Raise, WorkersSee
<1>12. CASE RefLogProb
  BY <1>1, <1>12 DEF RefLogProb, WorkersSee
<1>13. CASE UpdateActor
  <2>1. EngineFollows => \A r \in Ranks : baseSynced[r]
    BY <1>13 DEF UpdateActor, Idle, TrainInv, DriverInv, Rolled, Places
  <2> QED
    BY <1>0, <1>13, <2>1 DEF UpdateActor, WorkersSee, MayCall, Methods
<1>14. CASE Save
  BY <1>1, <1>14 DEF Save, WorkersSee
<1> QED
  BY <1>2, <1>3, <1>4, <1>5, <1>6, <1>7, <1>8, <1>9, <1>10, <1>11, <1>12, <1>13, <1>14 DEF Driver

\* Within a step the driver goes on, or to the next rollout, and whatever it
\* calls comes after a rollout_mode.
LEMMA WithinStep ==
  ASSUME TrainInv, Idle, at \in Rolled,
         UNCHANGED workerVars \/ \E m \in {"compute", "save_checkpoint", "update_actor"} : Call(m),
         at' \in Rolled \cup {"first_step", "generate"},
         purpose' \in {"train", "baseline", "val", "val_before"}
  PROVE  DriverInv'
<1>1. EngineFollows => \A r \in Ranks : baseSynced[r]
  BY DEF TrainInv, DriverInv, Idle
<1>2. ~InRollout
  BY DEF TrainInv, DriverInv, Rolled
<1>3. setup' = setup /\ baseSynced' = baseSynced
  BY DEF Call, workerVars
<1>4. at' \in Places /\ at' \notin {"load", "serve", "sleep"}
  BY DEF Rolled, Places
<1>5. CASE UNCHANGED workerVars
  BY <1>1, <1>2, <1>3, <1>4, <1>5 DEF TrainInv, DriverInv, InRollout, EngineFollows, workerVars
<1>6. ASSUME NEW m \in {"compute", "save_checkpoint", "update_actor"}, Call(m) PROVE DriverInv'
  <2>1. call' = m
    BY <1>6 DEF Call
  <2> QED
    BY <1>1, <1>3, <1>4, <2>1 DEF DriverInv, InRollout, EngineFollows
<1> QED
  BY <1>5, <1>6

\* Every action of the driver takes it to a place that fits its last call.
LEMMA DriverMoves ==
  ASSUME TrainInv, Driver
  PROVE  DriverInv'
<1> USE DEF At, NoCall
<1> DEFINE Calls == UNCHANGED workerVars \/ \E m \in {"compute", "save_checkpoint", "update_actor"} : Call(m)
           Goes == at' \in Rolled \cup {"first_step", "generate"}
           For == purpose' \in {"train", "baseline", "val", "val_before"}
<1>1. at \in Rolled /\ Idle /\ Calls /\ Goes /\ For => DriverInv'
  BY WithinStep
<1>2. purpose \in {"train", "baseline", "val", "val_before"}
  BY DEF TrainInv, DriverInv
<1>3. CASE Load
  BY <1>3 DEF Load, Call, workerVars, TrainInv, DriverInv, InRollout, EngineFollows, Places, Rolled, Idle
<1>4. CASE FirstStep
  BY <1>4 DEF FirstStep, workerVars, TrainInv, DriverInv, InRollout, EngineFollows, Places, Rolled
<1>5. CASE Generates
  BY <1>5 DEF Generates, Call, First, TrainInv, DriverInv, InRollout, EngineFollows, Places, Rolled
<1>6. CASE WakeEngines
  BY <1>6 DEF WakeEngines, Call, First, workerVars, TrainInv, DriverInv, InRollout, EngineFollows, Places, Rolled
<1>7. CASE ServeLoops
  BY <1>7 DEF ServeLoops, Serve, TrainInv, DriverInv, InRollout, EngineFollows, Places, Rolled
<1>8. CASE SleepEngines
  BY <1>8 DEF SleepEngines, Call, First, Idle, workerVars, TrainInv, DriverInv, MethodInv, InRollout, EngineFollows, Places, Rolled
<1>9. CASE Received
  <2>1. Goes /\ For
    BY <1>2, <1>9 DEF Received, Rolled, Places
  <2> QED
    BY <1>1, <1>9, <2>1 DEF Received, Rolled, Places
<1>10. CASE FirstLogProb
  BY <1>1, <1>2, <1>10 DEF FirstLogProb, Join, Rolled, Places
<1>11. CASE Teacher
  <2>1. Goes
    BY <1>11 DEF Teacher, Join, Rolled, Places
  <2> QED
    BY <1>1, <1>2, <1>11, <2>1 DEF Teacher, Rolled, Places
<1>12. CASE SampledReward
  BY <1>1, <1>2, <1>12 DEF SampledReward, Join, Rolled, Places
<1>13. CASE DeltaReward
  BY <1>1, <1>2, <1>13 DEF DeltaReward, Join, Rolled, Places
<1>14. CASE Distill
  BY <1>1, <1>2, <1>14 DEF Distill, Raise, Join, Rolled, Places
<1>15. CASE OldLogProb
  <2>1. Goes /\ Calls
    BY <1>15 DEF OldLogProb, Raise, Join, Rolled, Places
  <2> QED
    BY <1>1, <1>2, <1>15, <2>1 DEF OldLogProb, Rolled, Places
<1>16. CASE RefLogProb
  BY <1>1, <1>2, <1>16 DEF RefLogProb, Join, Rolled, Places
<1>17. CASE Advantages
  BY <1>1, <1>2, <1>17 DEF Advantages, Rolled, Places
<1>18. CASE UpdateActor
  BY <1>1, <1>2, <1>18 DEF UpdateActor, Rolled, Places
<1>19. CASE Save
  BY <1>1, <1>2, <1>19 DEF Save, Rolled, Places
<1>20. CASE Validate
  BY <1>1, <1>2, <1>20 DEF Validate, Rolled, Places
<1>21. CASE Finish
  BY <1>1, <1>21 DEF Finish, Rolled, Places
<1> QED
  BY <1>3, <1>4, <1>5, <1>6, <1>7, <1>8, <1>9, <1>10, <1>11, <1>12, <1>13, <1>14, <1>15, <1>16, <1>17,
     <1>18, <1>19, <1>20, <1>21 DEF Driver

\* A step of the workers changes neither the call nor the driver's place, and
\* rollout_mode ends with the base model in the engine.
LEMMA WorkersMove ==
  ASSUME TrainInv, Workers
  PROVE  DriverInv'
<1>1. at' = at /\ purpose' = purpose
  BY DEF Workers, driverVars
<1>2. ASSUME NEW r \in Ranks, RankStep(r) PROVE DriverInv'
  BY <1>1, <1>2 DEF RankStep, Gather, Install, Wake, Generate, Release, Bring, PutBack,
                    TrainInv, WorkerTypeOK, DriverInv, InRollout, EngineFollows
<1>3. CASE Sync \/ Reduce \/ Run
  BY <1>1, <1>3, RanksAssumption DEF Sync, Reduce, Run, TrainInv, MethodInv, DriverInv, InRollout, EngineFollows
<1> QED
  BY <1>2, <1>3 DEF Workers, GroupStep

\* Every step of training is one of the workers under a driver within the
\* contract, or none of theirs.
LEMMA TrainStep ==
  ASSUME TrainInv, [Next]_vars
  PROVE  TrainInv' /\ [WorkerNext]_workerVars
<1>1. [WorkerNext]_workerVars
  <2>1. CASE Driver
    BY <2>1, DriverSteps DEF WorkersSee, WorkerNext
  <2>2. CASE Workers
    BY <2>2 DEF Workers, WorkerNext
  <2>3. CASE UNCHANGED vars
    BY <2>3 DEF vars
  <2> QED
    BY <2>1, <2>2, <2>3 DEF Next
<1>2. WorkerTypeOK' /\ MethodInv'
  BY <1>1, TypeStep, MethodStep DEF TrainInv
<1>3. DriverInv'
  <2>1. CASE UNCHANGED vars
    BY <2>1 DEF vars, driverVars, workerVars, TrainInv, DriverInv, InRollout, EngineFollows
  <2> QED
    BY <2>1, DriverMoves, WorkersMove DEF Next
<1> QED
  BY <1>1, <1>2, <1>3 DEF TrainInv

\* fit and _validate are drivers within the contract: training implements
\* WorkerSpec, for every configuration.
THEOREM TrainingKeepsContract == Spec => WorkerSpec
<1>1. Init => TrainInv /\ WorkerInit
  BY DriverInit, TypeInit, MethodInit DEF Init, TrainInv
<1>2. TrainInv /\ [Next]_vars => TrainInv' /\ [WorkerNext]_workerVars
  BY TrainStep
<1> QED
  BY <1>1, <1>2, PTL DEF Spec, WorkerSpec

\* In training, responses come from the policy as the last update left it, the
\* GPU is never asked for both models, and generation leaves training's random
\* state alone.
THEOREM TrainingIsSound == Spec => [](RolloutsFromLatest /\ OneModelOnGpu /\ TrainerStreamKept)
BY TrainingKeepsContract, EnginesUpToDate, MemoryHandedOver, StreamsApart, PTL
-----------------------------------------------------------------------------
\* Each token is scored once, for every k.

\* The slots of S and T in the concatenation of the two.
LEMMA Slots ==
  ASSUME NEW S \in Seq(Nat), NEW T \in Seq(Nat)
  PROVE  /\ \A i \in DOMAIN S : (S \o T)[i] = S[i]
         /\ \A j \in DOMAIN T : (S \o T)[Len(S) + j] = T[j] /\ Len(S) + j \notin DOMAIN S
         /\ DOMAIN S \cap Behind(S, DOMAIN T) = {}
BY DEF Behind

\* What a strategy of compute_distillation_reward scores is what it is about,
\* each token once, whatever the teacher's and the student's top-k ids.
LEMMA DistilledOnce ==
  ASSUME NEW S \in Seq(Nat), NEW T \in Seq(Nat), IsInjective(S), IsInjective(T),
         NEW N, NEW strategy, Distills(strategy)
  PROVE  ScoresOnce(Distilled(strategy, S, T, N), Meant(strategy, S, T, N))
<1> SUFFICES ASSUME NEW s, s = Distilled(strategy, S, T, N)
             PROVE  ScoresOnce(s, Meant(strategy, S, T, N))
  OBVIOUS
<1> USE DEF ScoresOnce
<1> DEFINE onlyT == {j \in DOMAIN T : T[j] \notin Range(S)}
<1>1. CASE strategy = "only_tch"
  BY <1>1 DEF Distilled, Meant, Range, IsInjective, TopP
<1>2. CASE strategy \in {"only_stu", "intersection"}
  <2>1. s.ids = S /\ s.valid = {i \in DOMAIN S : strategy = "only_stu" \/ S[i] \in Range(T)}
    BY <1>2 DEF Distilled, Overlap, TopP, Unions, Behind
  <2> QED
    BY <1>2, <2>1 DEF Meant, Range, IsInjective, TopP
<1>3. CASE strategy \in Unions
  <2> DEFINE fromS == {i \in DOMAIN S : strategy = "union" \/ S[i] \notin Range(T)}
  <2>1. s.ids = S \o T
    BY <1>3 DEF Distilled, Unions
  <2>2. s.valid = fromS \cup {Len(S) + j : j \in onlyT}
    BY <1>3 DEF Distilled, Behind, TeacherInStudent, Overlap, TopP, Unions
  <2>3. \A i \in fromS : i \in s.valid /\ s.ids[i] = S[i]
    BY <2>1, <2>2, Slots
  <2>4. \A j \in onlyT : Len(S) + j \in s.valid /\ s.ids[Len(S) + j] = T[j] /\ Len(S) + j \notin DOMAIN S
    BY <2>1, <2>2, Slots
  <2>5. ASSUME NEW i \in s.valid
        PROVE  i \in fromS \/ \E j \in onlyT : i = Len(S) + j
    BY <2>2
  <2>6. ASSUME NEW id
        PROVE  id \in Meant(strategy, S, T, N) <=>
                 (\E i \in fromS : id = S[i]) \/ (\E j \in onlyT : id = T[j])
    BY <1>3 DEF Meant, Range, Unions, TopP
  <2>7. ASSUME NEW id \in {s.ids[i] : i \in s.valid} PROVE id \in Meant(strategy, S, T, N)
    <3>1. PICK i \in s.valid : id = s.ids[i]
      OBVIOUS
    <3>2. CASE i \in fromS
      BY <2>3, <2>6, <3>1, <3>2
    <3>3. CASE i \notin fromS
      <4>1. PICK j \in onlyT : i = Len(S) + j
        BY <2>5, <3>3
      <4>2. id = T[j]
        BY <2>4, <3>1, <4>1
      <4> QED
        BY <2>6, <4>2
    <3> QED
      BY <3>2, <3>3
  <2>8. ASSUME NEW id \in Meant(strategy, S, T, N) PROVE id \in {s.ids[i] : i \in s.valid}
    <3>1. CASE \E i \in fromS : id = S[i]
      BY <2>3, <3>1
    <3>2. CASE \E j \in onlyT : id = T[j]
      BY <2>4, <3>2
    <3> QED
      BY <2>6, <3>1, <3>2
  <2>9. \A i \in fromS : \A j \in onlyT : S[i] # T[j]
    BY DEF Range
  <2>10. ASSUME NEW i \in s.valid, NEW j \in s.valid, s.ids[i] = s.ids[j] PROVE i = j
    <3>1. CASE i \in fromS /\ j \in fromS
      BY <2>3, <2>10, <3>1 DEF IsInjective
    <3>2. CASE i \in fromS /\ j \notin fromS
      <4>1. PICK m \in onlyT : j = Len(S) + m
        BY <2>5, <3>2
      <4> QED
        BY <2>3, <2>4, <2>9, <2>10, <3>2, <4>1
    <3>3. CASE i \notin fromS /\ j \in fromS
      <4>1. PICK m \in onlyT : i = Len(S) + m
        BY <2>5, <3>3
      <4> QED
        BY <2>3, <2>4, <2>9, <2>10, <3>3, <4>1
    <3>4. CASE i \notin fromS /\ j \notin fromS
      <4>1. PICK m \in onlyT : i = Len(S) + m
        BY <2>5, <3>4
      <4>2. PICK n \in onlyT : j = Len(S) + n
        BY <2>5, <3>4
      <4>3. T[m] = T[n]
        BY <2>4, <2>10, <4>1, <4>2
      <4> QED
        BY <4>1, <4>2, <4>3 DEF IsInjective
    <3> QED
      BY <3>1, <3>2, <3>3, <3>4
  <2> QED
    BY <2>7, <2>8, <2>10
<1> QED
  BY <1>1, <1>2, <1>3 DEF Distills

\* The same of compute_delta_opd_reward, which scores the student's ids, or
\* those of them the strategy keeps.
LEMMA DeltaScoredOnce ==
  ASSUME NEW S \in Seq(Nat), NEW T \in Seq(Nat), IsInjective(S), NEW R, NEW N, NEW strategy,
         NEW about, about = IF strategy \notin {"intersection"} \cup TopP THEN "only_stu" ELSE strategy
  PROVE  ScoresOnce(DeltaScored(strategy, S, T, R, N), Meant(about, S, T, N))
<1> SUFFICES ASSUME NEW s, s = DeltaScored(strategy, S, T, R, N)
             PROVE  ScoresOnce(s, Meant(about, S, T, N))
  OBVIOUS
<1> USE DEF ScoresOnce
<1>1. CASE strategy \notin {"intersection"} \cup TopP
  <2>1. s.ids = S /\ s.valid = DOMAIN S
    BY <1>1 DEF DeltaScored
  <2> QED
    BY <1>1, <2>1 DEF Meant, Range, IsInjective, TopP
<1>2. CASE strategy = "intersection"
  <2>1. s.ids = S /\ s.valid = {i \in DOMAIN S : S[i] \in Range(T)}
    BY <1>2 DEF DeltaScored, Overlap, TopP
  <2> QED
    BY <1>2, <2>1 DEF Meant, Range, IsInjective, TopP
<1>3. CASE strategy \in TopP
  <2>1. s.ids = S /\ s.valid = {i \in DOMAIN S : S[i] \in N}
    BY <1>3 DEF DeltaScored, Overlap
  <2> QED
    BY <1>3, <2>1 DEF Meant, Range, IsInjective, TopP
<1> QED
  BY <1>1, <1>2, <1>3
\* A step scores after its teachers have answered, and its reward goes with it.
ScoredInv ==
  /\ at \in {"load", "first_step", "reward", "teacher", "sampled_reward", "delta_reward", "distill"} =>
       scored = {}
  /\ at \in {"generate", "serve", "sleep", "received"} /\ purpose # "val" => scored = {}
  /\ at = "distill" => job.mode # "delta_opd" /\ teachers.T \in TeacherTops
  /\ at = "delta_reward" => job.mode = "delta_opd" /\ teachers.T \in TeacherTops
  /\ ScoresEachTokenOnce

\* fit starts with nothing scored.
LEMMA ScoredInit == Init => ScoredInv
BY DEF Init, ScoredInv, ScoresEachTokenOnce

\* No action leaves a reward that scores a token twice, or another one.
LEMMA ScoredStep ==
  ASSUME TrainInv, ScoredInv, [Next]_vars
  PROVE  ScoredInv'
<1> USE DEF At, NoCall
<1>1. purpose \in {"train", "baseline", "val", "val_before"}
  BY DEF TrainInv, DriverInv
<1>2. ASSUME UNCHANGED <<job, teachers, scored>> PROVE ScoresEachTokenOnce'
  BY <1>2 DEF ScoredInv, ScoresEachTokenOnce
<1>3. ASSUME scored = {}, scored' = {} PROVE ScoresEachTokenOnce'
  BY <1>3 DEF ScoresEachTokenOnce
<1>4. CASE Load \/ FirstStep \/ Generates \/ WakeEngines \/ ServeLoops \/ SleepEngines
  BY <1>2, <1>4 DEF Load, FirstStep, Generates, WakeEngines, ServeLoops, SleepEngines, ScoredInv
<1>5. CASE Received
  <2>1. \/ at' = "done" \/ at' = "finish"
        \/ at' = "first_step" /\ purpose # "val"
        \/ at' \in {"generate", "reward"} /\ purpose # "val"
    BY <1>1, <1>5 DEF Received
  <2> QED
    BY <1>2, <1>5, <2>1 DEF Received, ScoredInv
<1>6. CASE FirstLogProb
  BY <1>2, <1>6 DEF FirstLogProb, Join, ScoredInv
<1>7. CASE Teacher
  <2>1. scored = {} /\ scored' = {}
    BY <1>7 DEF Teacher, ScoredInv
  <2>2. at' = "distill" => job.mode # "delta_opd" /\ teachers'.T \in TeacherTops
    BY <1>7 DEF Teacher, Join
  <2>3. at' = "delta_reward" => job.mode = "delta_opd" /\ teachers'.T \in TeacherTops
    BY <1>7 DEF Teacher, Join
  <2> QED
    BY <1>3, <1>7, <2>1, <2>2, <2>3 DEF Teacher, ScoredInv
<1>8. CASE SampledReward
  BY <1>2, <1>8 DEF SampledReward, Join, ScoredInv
<1>9. CASE DeltaReward
  <2>1. PICK R \in TeacherTops :
          scored' = {DeltaScored(job.strategy, StudentTop, teachers.T, R, teachers.N)} /\ at' \in {"score", "raised"}
    BY <1>9 DEF DeltaReward, Join
  <2>2. job' = job /\ teachers' = teachers /\ job.mode = "delta_opd"
    BY <1>9 DEF DeltaReward, ScoredInv
  <2>3. teachers.T \in Seq(Nat) /\ StudentTop \in Seq(Nat) /\ IsInjective(StudentTop)
    BY <1>9, TopsAssumption DEF DeltaReward, ScoredInv
  <2>4. ScoresEachTokenOnce'
    <3> DEFINE about == IF job.strategy \notin {"intersection"} \cup TopP THEN "only_stu" ELSE job.strategy
    <3>1. ScoresOnce(DeltaScored(job.strategy, StudentTop, teachers.T, R, teachers.N),
                     Meant(about, StudentTop, teachers.T, teachers.N))
      BY <2>3, DeltaScoredOnce
    <3> QED
      BY <2>1, <2>2, <3>1 DEF ScoresEachTokenOnce
  <2> QED
    BY <2>1, <2>4 DEF ScoredInv
<1>10. CASE Distill
  <2>1. CASE Distills(job.strategy)
    <3>1. scored' = {Distilled(job.strategy, StudentTop, teachers.T, teachers.N)} /\ at' \in {"score", "raised"}
      BY <1>10, <2>1 DEF Distill, Join
    <3>2. job' = job /\ teachers' = teachers /\ job.mode # "delta_opd"
      BY <1>10 DEF Distill, ScoredInv
    <3>3. /\ teachers.T \in Seq(Nat) /\ IsInjective(teachers.T)
          /\ StudentTop \in Seq(Nat) /\ IsInjective(StudentTop)
      BY <1>10, TopsAssumption DEF Distill, ScoredInv
    <3>4. ScoresEachTokenOnce'
      BY <2>1, <3>1, <3>2, <3>3, DistilledOnce DEF ScoresEachTokenOnce
    <3> QED
      BY <3>1, <3>4 DEF ScoredInv
  <2>2. CASE ~Distills(job.strategy)
    BY <1>2, <1>10, <2>2 DEF Distill, Raise, ScoredInv
  <2> QED
    BY <2>1, <2>2
<1>11. CASE OldLogProb
  <2>1. at' \in {"ref", "raised"}
    BY <1>11 DEF OldLogProb, Raise, Join
  <2> QED
    BY <1>2, <1>11, <2>1 DEF OldLogProb, ScoredInv
<1>12. CASE RefLogProb \/ Advantages \/ UpdateActor \/ Save \/ Validate
  BY <1>2, <1>12 DEF RefLogProb, Advantages, UpdateActor, Save, Validate, Join, ScoredInv
<1>13. CASE Finish
  BY <1>13 DEF Finish, ScoredInv, ScoresEachTokenOnce
<1>14. CASE Workers \/ UNCHANGED vars
  BY <1>2, <1>14 DEF Workers, vars, driverVars, ScoredInv
<1> QED
  BY <1>4, <1>5, <1>6, <1>7, <1>8, <1>9, <1>10, <1>11, <1>12, <1>13, <1>14 DEF Next, Driver

\* Every dense reward of a job scores exactly the tokens its strategy is about,
\* and each of them once, for every k and every vocabulary.
THEOREM EachTokenOnce == Spec => []ScoresEachTokenOnce
<1>1. Init => TrainInv /\ ScoredInv
  BY DriverInit, TypeInit, MethodInit, ScoredInit DEF Init, TrainInv
<1>2. TrainInv /\ ScoredInv /\ [Next]_vars => (TrainInv /\ ScoredInv)'
  BY TrainStep, ScoredStep
<1>3. ScoredInv => ScoresEachTokenOnce
  BY DEF ScoredInv
<1> QED
  BY <1>1, <1>2, <1>3, PTL DEF Spec
-----------------------------------------------------------------------------
\* A dense reward is finite.

\* Every job that asks for delta_opd names a strategy that the code knows.
DeltaStrategiesKnown ==
  \A j \in Jobs : j.mode = "delta_opd" => Distills(j.strategy) \/ j.strategy \in TopP

\* A strategy of compute_distillation_reward lets in no token for which the
\* teacher has no log-probability.
LEMMA DistilledFinite ==
  ASSUME NEW S, NEW T, NEW N, NEW strategy, Distills(strategy)
  PROVE  Distilled(strategy, S, T, N).finite
<1>1. CASE strategy \in {"only_tch", "only_stu"} \cup Unions
  BY <1>1 DEF Distilled, FiniteOnStudent, Unions
<1>2. CASE strategy = "intersection"
  BY <1>2 DEF Distilled, FiniteOnStudent, Overlap, Unions, TopP
<1> QED
  BY <1>1, <1>2 DEF Distills

\* Nor does one of compute_delta_opd_reward, of either teacher, but for the two
\* that mask by the first teacher alone.
LEMMA DeltaScoredFinite ==
  ASSUME NEW S, NEW T, NEW R, NEW N, NEW strategy,
         Distills(strategy) \/ strategy \in TopP, strategy \notin {"intersection", "only_tch"}
  PROVE  DeltaScored(strategy, S, T, R, N).finite
<1>1. \A X : FiniteOnStudent(strategy, S, X) = DOMAIN S
  BY DEF FiniteOnStudent, Distills
<1>2. Overlap(strategy, S, T, N) \subseteq DOMAIN S
  BY DEF Overlap
<1> QED
  BY <1>1, <1>2 DEF DeltaScored

\* The job's configuration never changes.
ConfigInv == job \in Jobs /\ setup = job.setup

\* No step touches the configuration.
LEMMA ConfigStep ==
  ASSUME ConfigInv, [Next]_vars
  PROVE  ConfigInv' /\ job' = job /\ setup' = setup
<1>1. job' = job
  <2>1. CASE Driver
    BY <2>1 DEF Driver, Load, FirstStep, Generates, WakeEngines, ServeLoops, SleepEngines, Received,
                FirstLogProb, Teacher, SampledReward, DeltaReward, Distill, OldLogProb, RefLogProb,
                Advantages, UpdateActor, Save, Validate, Finish
  <2>2. CASE Workers \/ UNCHANGED vars
    BY <2>2 DEF Workers, vars, driverVars
  <2> QED
    BY <2>1, <2>2 DEF Next
<1>2. setup' = setup
  <2>1. ASSUME UNCHANGED workerVars PROVE setup' = setup
    BY <2>1 DEF workerVars
  <2>2. ASSUME NEW m, Call(m) PROVE setup' = setup
    BY <2>2 DEF Call
  <2>3. CASE Driver
    BY <2>1, <2>2, <2>3
       DEF Driver, Load, FirstStep, Generates, WakeEngines, ServeLoops, Serve, SleepEngines, Received,
           FirstLogProb, Teacher, SampledReward, DeltaReward, Distill, OldLogProb, RefLogProb,
           Advantages, UpdateActor, Save, Validate, Finish, NoCall, Raise
  <2>4. CASE Workers
    BY <2>4 DEF Workers, GroupStep, RankStep, Gather, Install, Wake, Generate, Release, Bring, PutBack,
                Sync, Reduce, Run
  <2>5. CASE UNCHANGED vars
    BY <2>1, <2>5 DEF vars
  <2> QED
    BY <2>3, <2>4, <2>5 DEF Next
<1> QED
  BY <1>1, <1>2 DEF ConfigInv

\* No action leaves a dense reward that is infinite, but by the two strategies.
LEMMA FiniteStep ==
  ASSUME DeltaStrategiesKnown, ConfigInv, ScoredInv, RewardsFinite, [Next]_vars
  PROVE  RewardsFinite'
<1> USE DEF At
<1>1. job' = job
  BY ConfigStep
<1>2. ASSUME scored' = scored PROVE RewardsFinite'
  BY <1>1, <1>2 DEF RewardsFinite, MaskedByOneTeacher
<1>3. CASE DeltaReward
  <2>1. PICK R \in TeacherTops :
          scored' = {DeltaScored(job.strategy, StudentTop, teachers.T, R, teachers.N)}
    BY <1>3 DEF DeltaReward
  <2>2. job.mode = "delta_opd"
    BY <1>3 DEF DeltaReward, ScoredInv
  <2>3. CASE job.strategy \in {"intersection", "only_tch"}
    BY <1>1, <2>2, <2>3 DEF RewardsFinite, MaskedByOneTeacher
  <2>4. CASE job.strategy \notin {"intersection", "only_tch"}
    BY <2>1, <2>2, <2>4, DeltaScoredFinite DEF RewardsFinite, DeltaStrategiesKnown, ConfigInv
  <2> QED
    BY <2>3, <2>4
<1>4. CASE Distill
  <2>1. CASE Distills(job.strategy)
    BY <1>4, <2>1, DistilledFinite DEF Distill, RewardsFinite
  <2>2. CASE ~Distills(job.strategy)
    BY <1>2, <1>4, <2>2 DEF Distill, Raise
  <2> QED
    BY <2>1, <2>2
<1>5. CASE Finish
  BY <1>5 DEF Finish, RewardsFinite
<1>6. CASE OldLogProb
  BY <1>2, <1>6 DEF OldLogProb, Raise
<1>7. CASE Driver /\ ~DeltaReward /\ ~Distill /\ ~Finish /\ ~OldLogProb
  BY <1>2, <1>7
     DEF Driver, Load, FirstStep, Generates, WakeEngines, ServeLoops, SleepEngines, Received,
         FirstLogProb, Teacher, SampledReward, RefLogProb, Advantages, UpdateActor, Save, Validate
<1>8. CASE Workers \/ UNCHANGED vars
  BY <1>2, <1>8 DEF Workers, vars, driverVars
<1> QED
  BY <1>3, <1>4, <1>5, <1>6, <1>7, <1>8 DEF Next

\* fit starts with a configuration of Jobs and with its setup.
LEMMA ConfigInit == Init => ConfigInv
BY DEF Init, ConfigInv

\* Where every job with delta_opd names a known strategy, no dense reward is
\* infinite on a token it scores, but for delta_opd's two strategies that mask
\* by one teacher.
THEOREM NoInfiniteReward ==
  ASSUME DeltaStrategiesKnown
  PROVE  Spec => []RewardsFinite
<1>1. Init => TrainInv /\ ScoredInv /\ ConfigInv /\ RewardsFinite
  <2>1. Init => RewardsFinite
    BY DEF Init, RewardsFinite
  <2> QED
    BY <2>1, DriverInit, TypeInit, MethodInit, ScoredInit, ConfigInit DEF Init, TrainInv
<1>2. TrainInv /\ ScoredInv /\ ConfigInv /\ RewardsFinite /\ [Next]_vars
        => (TrainInv /\ ScoredInv /\ ConfigInv /\ RewardsFinite)'
  BY TrainStep, ScoredStep, ConfigStep, FiniteStep
<1> QED
  BY <1>1, <1>2, PTL DEF Spec
-----------------------------------------------------------------------------
\* A step finds every column it reads.

\* Drop keeps the columns it does not name.
LEMMA DropColumns ==
  ASSUME NEW cols, NEW names
  PROVE  /\ DOMAIN Drop(cols, names) = DOMAIN cols \ names
         /\ \A c \in DOMAIN cols \ names : Drop(cols, names)[c] = cols[c]
BY DEF Drop, Restrict

\* The columns of one call.
LEMMA ColumnsMade ==
  ASSUME NEW names, NEW ids, NEW by
  PROVE  /\ DOMAIN Columns(names, ids, by) = names
         /\ \A c \in names : Columns(names, ids, by)[c].ids = ids /\ Columns(names, ids, by)[c].by = by
BY DEF Columns, Column

\* A call that finds the columns it reads, and whose answer has none that the
\* batch has, gives its answer to the batch.
LEMMA JoinOfNew ==
  ASSUME NEW rest, NEW reads, NEW new, NEW next, Join(rest, reads, new, next),
         reads \subseteq DOMAIN batch, DOMAIN rest \cap DOMAIN new = {}
  PROVE  /\ batch' = With(rest, new) /\ at' = next
         /\ DOMAIN batch' = DOMAIN rest \cup DOMAIN new
         /\ \A c \in DOMAIN new : batch'[c] = new[c]
         /\ \A c \in DOMAIN rest : batch'[c] = rest[c]
<1>1. CanUnion(rest, new)
  BY DEF CanUnion
<1>2. batch' = With(rest, new) /\ at' = next
  BY <1>1 DEF Join
<1> QED
  BY <1>2 DEF With

\* The columns that one call gives the batch.
FromRollout == {"responses", "response_mask"} \cup (IF job.rolloutLogProbs THEN {"rollout_log_probs"} ELSE {})
OfStudent == {"student_top_k_ids", "student_top_k_log_probs", "student_valid_counts"}
FromPolicy == {"old_log_probs", "entropys"} \cup (IF job.topK THEN OfStudent ELSE {})
FromTeacher ==
  {"teacher_sampled_log_probs", "teacher_entropy"}
    \cup (IF job.topK
            THEN {"teacher_on_student_log_probs", "overlap_mask", "teacher_valid_counts", "teacher_top_k_ids",
                  "teacher_top_k_log_probs", "teacher_in_student_mask"}
            ELSE {"rm_scores"})
FromRewards ==
  {"delta_opd_sampled_log_ratio", "teacher_ref_sampled_log_probs", "teacher_ref_on_student_log_probs",
   "teacher_ref_entropy", "teacher_ref_overlap_mask", "delta_log_ratio", "js_divergence", "union_top_k_ids",
   "union_top_k_log_probs", "student_log_probs_on_teacher_ids"}
Later == {"ref_log_prob", "advantages"}

\* What a place of the step finds in the batch.
HasRef == IF job.useRef THEN {"ref_log_prob"} ELSE {}
Has(place) ==
  FromRollout \cup
  CASE place = "reward"  -> {}
    [] place = "teacher" -> FromPolicy
    [] place \in {"sampled_reward", "delta_reward", "distill"} -> FromPolicy \cup FromTeacher
    [] place = "score"   -> IF job.mode = "rule" THEN {} ELSE FromPolicy
    [] place = "ref"     -> {"old_log_probs"}
    [] place = "adv"     -> {"old_log_probs"} \cup HasRef
    [] place = "update"  -> {"old_log_probs", "advantages"} \cup HasRef

\* What nothing has put there yet: the next call gives it.
Lacks(place) ==
  CASE place = "reward"  -> {"rm_scores", "old_log_probs", "entropys"} \cup OfStudent \cup FromTeacher
                              \cup FromRewards \cup Later
    [] place = "teacher" -> {"rm_scores"} \cup FromTeacher \cup FromRewards \cup Later
    [] place \in {"sampled_reward", "delta_reward", "distill"} ->
         (IF job.topK THEN {"rm_scores"} ELSE {}) \cup FromRewards \cup Later
    [] place = "score"   -> (IF job.mode = "rule" THEN {"rm_scores", "old_log_probs", "entropys"} \cup OfStudent ELSE {}) \cup Later
    [] place = "ref"     -> Later
    [] OTHER -> {}

Fits(place) == Has(place) \subseteq DOMAIN batch /\ DOMAIN batch \cap Lacks(place) = {}

\* Where a step has a batch, and where its rewards are in it.
Building == {"reward", "teacher", "sampled_reward", "delta_reward", "distill", "score", "ref", "adv", "update"}
Rewarded == {"score", "ref", "adv", "update"}

\* REMAX generates a second time while it holds the batch.
Baseline == purpose = "baseline" /\ at \in {"generate", "serve", "sleep", "received"}

\* Which modes come to a place, and the columns there.
ColumnsInv ==
  /\ at \in Building => Fits(at)
  /\ Baseline => Fits("reward")
  /\ at \in {"delta_reward", "distill"} => job.topK
  /\ at = "sampled_reward" => job.mode = "delta_opd_sampled"
  /\ at = "delta_reward" => job.mode = "delta_opd"
  /\ at = "distill" => job.mode = "opd_kl"
  /\ at \in {"teacher", "sampled_reward", "delta_reward", "distill"} => job.mode # "rule"
  /\ at \in Rewarded /\ job.mode = "delta_opd" => "js_divergence" \in DOMAIN batch
  /\ StepsComplete

\* The columns a teacher answers with.
LEMMA TeacherAnswers ==
  ASSUME NEW teacher, NEW top
  PROVE  DOMAIN TeacherColumns(teacher, top) = FromTeacher
<1> DEFINE Of(names, ids) == [c \in names |-> Column(teacher, ids, version)]
           sampled == Of({"teacher_sampled_log_probs", "teacher_entropy"}, Sampled)
           onStudent == Of({"teacher_on_student_log_probs", "overlap_mask", "teacher_valid_counts"}, StudentTop)
           own == Of({"teacher_top_k_ids", "teacher_top_k_log_probs", "teacher_in_student_mask"}, top)
           score == Of({"rm_scores"}, Sampled)
           rest == IF job.topK THEN With(onStudent, own) ELSE score
<1>1. TeacherColumns(teacher, top) = With(sampled, rest)
  BY DEF TeacherColumns
<1>2. DOMAIN With(onStudent, own) =
        {"teacher_on_student_log_probs", "overlap_mask", "teacher_valid_counts", "teacher_top_k_ids",
         "teacher_top_k_log_probs", "teacher_in_student_mask"}
  BY DEF With
<1>3. DOMAIN With(sampled, rest) = DOMAIN sampled \cup DOMAIN rest
  BY DEF With
<1> QED
  BY <1>1, <1>2, <1>3 DEF FromTeacher

\* What compute_log_prob gives, before and after the entropies are popped.
LEMMA PolicyAnswers ==
  /\ DOMAIN LogProbColumns = FromPolicy
  /\ LogProbColumns["old_log_probs"].ids = Sampled /\ LogProbColumns["old_log_probs"].by = version
  /\ job.topK => \A c \in OfStudent : LogProbColumns[c].ids = StudentTop /\ LogProbColumns[c].by = version
<1> DEFINE sampled == Columns({"old_log_probs", "entropys"}, Sampled, version)
           student == Columns(OfStudent, StudentTop, version)
<1>1. DOMAIN sampled = {"old_log_probs", "entropys"}
      /\ \A c \in {"old_log_probs", "entropys"} : sampled[c].ids = Sampled /\ sampled[c].by = version
  BY ColumnsMade
<1>2. DOMAIN student = OfStudent /\ \A c \in OfStudent : student[c].ids = StudentTop /\ student[c].by = version
  BY ColumnsMade
<1>3. CASE job.topK
  <2>1. LogProbColumns = With(sampled, student)
    BY <1>3 DEF LogProbColumns, OfStudent
  <2> HIDE DEF sampled, student
  <2>2. /\ DOMAIN LogProbColumns = DOMAIN sampled \cup DOMAIN student
        /\ \A c \in DOMAIN student : LogProbColumns[c] = student[c]
        /\ \A c \in DOMAIN sampled \ DOMAIN student : LogProbColumns[c] = sampled[c]
    BY <2>1 DEF With
  <2> QED
    BY <1>1, <1>2, <1>3, <2>2 DEF FromPolicy, OfStudent
<1>4. CASE ~job.topK
  <2>1. LogProbColumns = With(sampled, <<>>)
    BY <1>4 DEF LogProbColumns
  <2> HIDE DEF sampled, student
  <2>2. /\ DOMAIN LogProbColumns = DOMAIN sampled \cup DOMAIN <<>>
        /\ \A c \in DOMAIN sampled \ DOMAIN <<>> : LogProbColumns[c] = sampled[c]
    BY <2>1 DEF With
  <2>3. DOMAIN <<>> = {}
    OBVIOUS
  <2> QED
    BY <1>1, <1>4, <2>2, <2>3 DEF FromPolicy
<1> QED
  BY <1>3, <1>4
\* A step of fit that keeps the batch leaves the columns right, at a place that
\* asks for no more of them.
LEMMA SameColumns ==
  ASSUME ColumnsInv, job' = job, batch' = batch, at' # "raised",
         at' = at \/ at' \notin Building, Baseline' => Baseline
  PROVE  ColumnsInv'
<1>1. \A place : Fits(place)' <=> Fits(place)
  BY DEF Fits, Has, Lacks, HasRef, FromRollout, FromPolicy, FromTeacher
<1>2. at' \in Building => at' = at
  OBVIOUS
<1> QED
  BY <1>1, <1>2 DEF ColumnsInv, StepsComplete, Rewarded, Building

\* Up to the responses, and after the update.
LEMMA ColumnsOutside ==
  ASSUME ColumnsInv, TrainInv, ConfigInv,
         Load \/ FirstStep \/ Generates \/ WakeEngines \/ ServeLoops \/ SleepEngines \/ Save \/ Validate \/ Finish
  PROVE  ColumnsInv'
<1> USE DEF At
<1>1. CASE Load \/ FirstStep \/ Generates \/ WakeEngines \/ ServeLoops \/ SleepEngines \/ Save \/ Validate
  <2>1. job' = job /\ batch' = batch
    BY <1>1 DEF Load, FirstStep, Generates, WakeEngines, ServeLoops, SleepEngines, Save, Validate
  <2>2. at' \notin Building \cup {"raised"}
    BY <1>1 DEF Load, FirstStep, Generates, WakeEngines, ServeLoops, SleepEngines, Save, Validate, Building
  <2>3. Baseline' => Baseline
    BY <1>1 DEF Load, FirstStep, Generates, WakeEngines, ServeLoops, SleepEngines, Save, Validate, Baseline
  <2> QED
    BY <2>1, <2>2, <2>3, SameColumns
<1>2. CASE Finish
  BY <1>2 DEF Finish, ColumnsInv, Baseline, Building, Rewarded, StepsComplete
<1> QED
  BY <1>1, <1>2

\* The responses start a batch, and REMAX's baseline adds to it.
LEMMA ColumnsReceived ==
  ASSUME ColumnsInv, TrainInv, Received
  PROVE  ColumnsInv'
<1> USE DEF At
<1>1. job' = job /\ at = "received" /\ purpose \in {"train", "baseline", "val", "val_before"}
  BY DEF Received, TrainInv, DriverInv
<1>2. CASE purpose \in {"val", "val_before"}
  <2>1. batch' = batch /\ at' \in {"done", "first_step", "finish"}
    BY <1>2 DEF Received
  <2> QED
    BY <1>1, <2>1, SameColumns DEF Building, Baseline
<1>3. CASE purpose = "baseline"
  <2> DEFINE new == Columns({"reward_baselines"}, Sampled, version)
  <2>1. batch' = With(batch, new) /\ at' = "reward"
    BY <1>3 DEF Received
  <2>2. DOMAIN new = {"reward_baselines"}
    BY ColumnsMade
  <2> HIDE DEF new
  <2>3. DOMAIN batch' = DOMAIN batch \cup {"reward_baselines"}
    BY <2>1, <2>2 DEF With
  <2>4. Fits("reward")
    BY <1>1, <1>3 DEF ColumnsInv, Baseline
  <2>5. Fits("reward")'
    BY <1>1, <2>3, <2>4 DEF Fits, Has, Lacks, FromRollout, FromTeacher, FromRewards, OfStudent, Later
  <2> QED
    BY <2>1, <2>5 DEF ColumnsInv, Baseline, Building, Rewarded, StepsComplete
<1>4. CASE purpose = "train"
  <2>1. batch' = Responses /\ (at' = "reward" \/ at' = "generate")
    BY <1>4 DEF Received
  <2>2. DOMAIN Responses = FromRollout
    BY ColumnsMade DEF Responses, FromRollout
  <2>3. Fits("reward")'
    BY <1>1, <2>1, <2>2 DEF Fits, Has, Lacks, FromRollout, FromTeacher, FromRewards, OfStudent, Later
  <2> QED
    BY <2>1, <2>3 DEF ColumnsInv, Baseline, Building, Rewarded, StepsComplete
<1> QED
  BY <1>1, <1>2, <1>3, <1>4

\* The first log-probabilities are new to the batch.
LEMMA ColumnsFirst ==
  ASSUME ColumnsInv, FirstLogProb
  PROVE  ColumnsInv'
<1> USE DEF At
<1>1. job' = job /\ at = "reward" /\ Fits("reward")
  BY DEF FirstLogProb, ColumnsInv, Building
<1>2. CASE job.mode = "rule"
  <2>1. batch' = batch /\ at' = "score"
    BY <1>2 DEF FirstLogProb
  <2>2. Fits("score")'
    BY <1>1, <1>2, <2>1 DEF Fits, Has, Lacks, FromRollout, FromTeacher, FromRewards, OfStudent, Later
  <2> QED
    BY <1>1, <1>2, <2>1, <2>2 DEF ColumnsInv, Baseline, Building, Rewarded, StepsComplete
<1>3. CASE job.mode # "rule"
  <2>1. Join(batch, {"responses"}, LogProbColumns, "teacher")
    BY <1>3 DEF FirstLogProb
  <2>2. {"responses"} \subseteq DOMAIN batch /\ DOMAIN batch \cap FromPolicy = {}
    BY <1>1 DEF Fits, Has, Lacks, FromRollout, FromPolicy
  <2>3. DOMAIN LogProbColumns = FromPolicy
    BY PolicyAnswers
  <2>4. DOMAIN batch' = DOMAIN batch \cup FromPolicy /\ at' = "teacher"
    BY <2>1, <2>2, <2>3 DEF Join, CanUnion, With
  <2>5. Fits("teacher")'
    BY <1>1, <2>4 DEF Fits, Has, Lacks, FromRollout, FromPolicy, FromTeacher, FromRewards, OfStudent, Later
  <2> QED
    BY <1>1, <1>3, <2>4, <2>5 DEF ColumnsInv, Baseline, Building, Rewarded, StepsComplete
<1> QED
  BY <1>2, <1>3

\* A teacher's columns are new to the batch.
LEMMA ColumnsTeacher ==
  ASSUME ColumnsInv, Teacher
  PROVE  ColumnsInv'
<1> USE DEF At
<1>1. job' = job /\ at = "teacher" /\ Fits("teacher") /\ job.mode # "rule"
  BY DEF Teacher, ColumnsInv, Building
<1>2. CASE job.mode = "delta_opd" /\ ~job.topK
  BY <1>1, <1>2 DEF Teacher, ColumnsInv, Baseline, Building, Rewarded, StepsComplete, Rejected
<1>3. CASE ~(job.mode = "delta_opd" /\ ~job.topK)
  <2> DEFINE next == CASE job.mode = "delta_opd_sampled" -> "sampled_reward"
                       [] job.mode = "delta_opd"         -> "delta_reward"
                       [] job.mode = "opd_kl" /\ job.topK -> "distill"
                       [] OTHER                          -> "score"
  <2>1. PICK T \in TeacherTops : Join(batch, TeacherReads, TeacherColumns("teacher", T), next)
    BY <1>3 DEF Teacher
  <2>2. TeacherReads \subseteq DOMAIN batch /\ DOMAIN batch \cap FromTeacher = {}
    BY <1>1 DEF Fits, Has, Lacks, FromRollout, FromPolicy, TeacherReads
  <2>3. /\ next = "sampled_reward" => job.mode = "delta_opd_sampled"
        /\ next = "delta_reward" => job.mode = "delta_opd" /\ job.topK
        /\ next = "distill" => job.mode = "opd_kl" /\ job.topK
        /\ next = "score" => job.mode # "delta_opd"
        /\ next \in {"sampled_reward", "delta_reward", "distill", "score"}
    BY <1>3
  <2> HIDE DEF next
  <2>4. DOMAIN batch' = DOMAIN batch \cup FromTeacher /\ at' = next
    BY <2>1, <2>2, TeacherAnswers, JoinOfNew
  <2>5. Fits("teacher") => (next = "score" => Fits("score")')
    BY <1>1, <2>4 DEF Fits, Has, Lacks, FromRollout, FromPolicy, FromTeacher, FromRewards, OfStudent, Later
  <2>6. ASSUME NEW place \in {"sampled_reward", "delta_reward", "distill"}
        PROVE  Fits(place)'
    BY <1>1, <2>4 DEF Fits, Has, Lacks, FromRollout, FromPolicy, FromTeacher, FromRewards, OfStudent, Later
  <2> QED
    BY <1>1, <2>3, <2>4, <2>5, <2>6 DEF ColumnsInv, Baseline, Building, Rewarded, StepsComplete
<1> QED
  BY <1>2, <1>3
\* The columns of compute_delta_opd_reward and of its sampled form.
SampledDeltas(raw) ==
  With(With([c \in {"rm_scores", "delta_opd_sampled_log_ratio"} |-> Column("delta", Sampled, version)],
            Renamed(raw, "teacher_sampled_log_probs", "teacher_ref_sampled_log_probs")),
       OfReference(raw))
Deltas(raw, ids) ==
  With(OfReference(raw),
       With([c \in {"rm_scores", "delta_log_ratio"} |-> Column("delta", ids, version)],
            Columns({"js_divergence"}, Sampled, version)))

\* A column goes under its new name.
LEMMA RenamedColumn ==
  ASSUME NEW raw, NEW name, NEW as
  PROVE  DOMAIN Renamed(raw, name, as) \subseteq {as}
<1>1. CASE name \in DOMAIN raw
  <2>1. Renamed(raw, name, as) = [c \in {as} |-> raw[name]]
    BY <1>1 DEF Renamed
  <2> QED
    BY <2>1
<1>2. CASE name \notin DOMAIN raw
  <2>1. Renamed(raw, name, as) = <<>>
    BY <1>2 DEF Renamed
  <2> QED
    BY <2>1
<1> QED
  BY <1>1, <1>2

\* The reference teacher's columns are all under names of their own.
LEMMA ReferenceAnswers ==
  ASSUME NEW raw
  PROVE  DOMAIN OfReference(raw) \subseteq
           {"teacher_ref_on_student_log_probs", "teacher_ref_entropy", "teacher_ref_overlap_mask"}
<1> DEFINE a == Renamed(raw, "teacher_on_student_log_probs", "teacher_ref_on_student_log_probs")
           b == Renamed(raw, "teacher_entropy", "teacher_ref_entropy")
           c == Renamed(raw, "overlap_mask", "teacher_ref_overlap_mask")
<1>1. /\ DOMAIN a \subseteq {"teacher_ref_on_student_log_probs"}
      /\ DOMAIN b \subseteq {"teacher_ref_entropy"}
      /\ DOMAIN c \subseteq {"teacher_ref_overlap_mask"}
  BY RenamedColumn
<1>2. OfReference(raw) = With(a, With(b, c))
  BY DEF OfReference
<1> HIDE DEF a, b, c
<1>3. DOMAIN OfReference(raw) = DOMAIN a \cup (DOMAIN b \cup DOMAIN c)
  BY <1>2 DEF With
<1> QED
  BY <1>1, <1>3

\* What the sampled form gives: the reward is of the sampled token.
LEMMA SampledDeltaAnswers ==
  ASSUME NEW raw
  PROVE  /\ "rm_scores" \in DOMAIN SampledDeltas(raw)
         /\ DOMAIN SampledDeltas(raw) \subseteq {"rm_scores"} \cup (FromRewards \ {"union_top_k_ids", "union_top_k_log_probs"})
         /\ SampledDeltas(raw)["rm_scores"].ids = Sampled
<1> DEFINE a == [c \in {"rm_scores", "delta_opd_sampled_log_ratio"} |-> Column("delta", Sampled, version)]
           b == Renamed(raw, "teacher_sampled_log_probs", "teacher_ref_sampled_log_probs")
           c == OfReference(raw)
<1>1. DOMAIN a = {"rm_scores", "delta_opd_sampled_log_ratio"} /\ a["rm_scores"].ids = Sampled
  BY DEF Column
<1>2. DOMAIN b \subseteq {"teacher_ref_sampled_log_probs"}
  BY RenamedColumn
<1>3. DOMAIN c \subseteq {"teacher_ref_on_student_log_probs", "teacher_ref_entropy", "teacher_ref_overlap_mask"}
  BY ReferenceAnswers
<1>4. SampledDeltas(raw) = With(With(a, b), c)
  BY DEF SampledDeltas
<1> HIDE DEF a, b, c
<1>5. /\ DOMAIN SampledDeltas(raw) = (DOMAIN a \cup DOMAIN b) \cup DOMAIN c
      /\ "rm_scores" \notin DOMAIN b \cup DOMAIN c => SampledDeltas(raw)["rm_scores"] = a["rm_scores"]
  BY <1>1, <1>4 DEF With
<1> QED
  BY <1>1, <1>2, <1>3, <1>5 DEF FromRewards

\* What the dense form gives: the reward is of the student's ids.
LEMMA DeltaAnswers ==
  ASSUME NEW raw, NEW ids
  PROVE  /\ {"rm_scores", "js_divergence"} \subseteq DOMAIN Deltas(raw, ids)
         /\ DOMAIN Deltas(raw, ids) \subseteq {"rm_scores"} \cup (FromRewards \ {"union_top_k_ids", "union_top_k_log_probs"})
         /\ Deltas(raw, ids)["rm_scores"].ids = ids
<1> DEFINE a == OfReference(raw)
           b == [c \in {"rm_scores", "delta_log_ratio"} |-> Column("delta", ids, version)]
           c == Columns({"js_divergence"}, Sampled, version)
<1>1. DOMAIN b = {"rm_scores", "delta_log_ratio"} /\ b["rm_scores"].ids = ids
  BY DEF Column
<1>2. DOMAIN c = {"js_divergence"}
  BY ColumnsMade
<1>3. DOMAIN a \subseteq {"teacher_ref_on_student_log_probs", "teacher_ref_entropy", "teacher_ref_overlap_mask"}
  BY ReferenceAnswers
<1>4. Deltas(raw, ids) = With(a, With(b, c))
  BY DEF Deltas
<1> HIDE DEF a, b, c
<1>5. /\ DOMAIN Deltas(raw, ids) = DOMAIN a \cup (DOMAIN b \cup DOMAIN c)
      /\ Deltas(raw, ids)["rm_scores"] = b["rm_scores"]
  BY <1>1, <1>2, <1>4 DEF With
<1> QED
  BY <1>1, <1>2, <1>3, <1>5 DEF FromRewards

\* What a distillation reward gives: its ids, which come with columns
\* of their own where they are not the student's.
UnionColumns == {"union_top_k_ids", "union_top_k_log_probs"}
LEMMA DistillationAnswers ==
  ASSUME NEW reward
  PROVE  LET new == DistillationColumns(reward) IN
         /\ "rm_scores" \in DOMAIN new /\ new["rm_scores"].ids = reward.ids
         /\ DOMAIN new \subseteq {"rm_scores", "student_log_probs_on_teacher_ids"} \cup UnionColumns
         /\ job.strategy \in {"only_stu", "intersection"} => DOMAIN new \cap UnionColumns = {}
         /\ job.strategy = "only_tch" =>
              /\ DOMAIN new \cap UnionColumns = {"union_top_k_ids"}
              /\ new["union_top_k_ids"].ids = teachers.T
         /\ job.strategy \in Unions =>
              /\ UnionColumns \subseteq DOMAIN new
              /\ \A c \in UnionColumns : new[c].ids = reward.ids /\ new[c].by = version
<1> DEFINE score == [c \in {"rm_scores"} |-> Column("distilled", reward.ids, version)]
           both == Columns(UnionColumns, reward.ids, version)
           tch == Columns({"student_log_probs_on_teacher_ids"}, teachers.T, version)
           own == Columns({"union_top_k_ids"}, teachers.T, version)
           new == DistillationColumns(reward)
<1>1. DOMAIN score = {"rm_scores"} /\ score["rm_scores"].ids = reward.ids
  BY DEF Column
<1>2. /\ DOMAIN both = UnionColumns /\ \A c \in UnionColumns : both[c].ids = reward.ids /\ both[c].by = version
      /\ DOMAIN tch = {"student_log_probs_on_teacher_ids"}
      /\ DOMAIN own = {"union_top_k_ids"} /\ own["union_top_k_ids"].ids = teachers.T
  BY ColumnsMade
<1>3. CASE job.strategy = "only_tch"
  <2>1. new = With(score, own)
    BY <1>3 DEF DistillationColumns
  <2> HIDE DEF score, own, new
  <2>2. /\ DOMAIN new = DOMAIN score \cup DOMAIN own
        /\ new["rm_scores"] = score["rm_scores"] /\ new["union_top_k_ids"] = own["union_top_k_ids"]
    BY <1>1, <1>2, <2>1 DEF With
  <2> QED
    BY <1>1, <1>2, <1>3, <2>2 DEF UnionColumns, Unions, new
<1>4. CASE job.strategy \in Unions
  <2>1. new = With(score, With(both, tch))
    BY <1>4 DEF DistillationColumns, Unions, UnionColumns
  <2> HIDE DEF score, both, tch, new
  <2>2. /\ DOMAIN new = DOMAIN score \cup (DOMAIN both \cup DOMAIN tch)
        /\ new["rm_scores"] = score["rm_scores"]
        /\ \A c \in UnionColumns : new[c] = both[c]
    BY <1>1, <1>2, <2>1 DEF With, UnionColumns
  <2> QED
    BY <1>1, <1>2, <1>4, <2>2 DEF UnionColumns, Unions, new
<1>5. CASE job.strategy \notin {"only_tch"} \cup Unions
  <2>1. new = With(score, <<>>)
    BY <1>5 DEF DistillationColumns, Unions
  <2> HIDE DEF score, new
  <2>2. DOMAIN new = DOMAIN score \cup DOMAIN <<>> /\ DOMAIN <<>> = {}
    BY <2>1 DEF With
  <2>3. new["rm_scores"] = score["rm_scores"]
    BY <1>1, <2>1, <2>2 DEF With
  <2> QED
    BY <1>1, <1>5, <2>2, <2>3 DEF UnionColumns, new
<1> QED
  BY <1>3, <1>4, <1>5
\* At a reward the batch has the policy's and the teacher's columns, and none
\* of the reward's.
LEMMA RewardJoins ==
  ASSUME ColumnsInv, at \in {"sampled_reward", "delta_reward", "distill"}, NEW rest, NEW new,
         DOMAIN rest = DOMAIN batch \ {"rm_scores"}, job' = job,
         DOMAIN new \subseteq {"rm_scores"} \cup FromRewards,
         batch' = With(rest, new), at' = "score",
         job.mode = "delta_opd" => "js_divergence" \in DOMAIN new
  PROVE  ColumnsInv'
<1>1. Fits(at) /\ job.mode # "rule" /\ (at = "sampled_reward" \/ job.topK)
  BY DEF ColumnsInv, Building
<1>2. DOMAIN batch' = DOMAIN rest \cup DOMAIN new
  BY DEF With
<1>3. FromRollout \cup FromPolicy \subseteq DOMAIN batch /\ DOMAIN batch \cap Later = {}
  BY <1>1 DEF Fits, Has, Lacks
<1>4. "rm_scores" \notin FromRollout \cup FromPolicy /\ Later \cap ({"rm_scores"} \cup FromRewards) = {}
  BY DEF FromRollout, FromPolicy, OfStudent, Later, FromRewards
<1>5. FromRollout \cup FromPolicy \subseteq DOMAIN batch' /\ DOMAIN batch' \cap Later = {}
  BY <1>2, <1>3, <1>4
<1>6. Fits("score")'
  <2>1. FromRollout' = FromRollout /\ FromPolicy' = FromPolicy
    BY DEF FromRollout, FromPolicy
  <2>2. Has("score")' = FromRollout \cup FromPolicy /\ Lacks("score")' = Later
    BY <1>1, <2>1 DEF Has, Lacks, Later
  <2> QED
    BY <1>5, <2>2 DEF Fits
<1> QED
  BY <1>1, <1>2, <1>6 DEF ColumnsInv, Baseline, Building, Rewarded, StepsComplete

\* compute_delta_opd_sampled_reward replaces the reward of the teacher's columns.
LEMMA SampledJoins ==
  ASSUME ColumnsInv, SampledReward
  PROVE  \E raw : batch' = With(Drop(batch, {"rm_scores"}), SampledDeltas(raw)) /\ at' = "score"
<1> USE DEF At
<1>1. at = "sampled_reward" /\ Fits("sampled_reward")
  BY DEF SampledReward, ColumnsInv, Building
<1> DEFINE rest == Drop(batch, {"rm_scores"})
           reads == TeacherReads \cup {"teacher_sampled_log_probs"}
<1>2. PICK R \in TeacherTops : Join(rest, reads, SampledDeltas(TeacherColumns("reference", R)), "score")
  BY DEF SampledReward, SampledDeltas
<1> DEFINE new == SampledDeltas(TeacherColumns("reference", R))
<1>3. DOMAIN rest = DOMAIN batch \ {"rm_scores"}
  BY DropColumns
<1>4. DOMAIN new \subseteq {"rm_scores"} \cup FromRewards
  BY SampledDeltaAnswers
<1>5. reads \subseteq DOMAIN batch
  BY <1>1 DEF Fits, Has, FromRollout, FromPolicy, FromTeacher, TeacherReads
<1>6. DOMAIN batch \cap FromRewards = {}
  BY <1>1 DEF Fits, Lacks
<1> HIDE DEF rest, reads, new
<1>7. batch' = With(rest, new) /\ at' = "score"
  BY <1>2, <1>3, <1>4, <1>5, <1>6 DEF Join, CanUnion, new
<1> QED
  BY <1>7 DEF rest, new

\* compute_delta_opd_reward adds its reward.
LEMMA DeltaJoins ==
  ASSUME ColumnsInv, DeltaReward
  PROVE  \E raw : batch' = With(batch, Deltas(raw, StudentTop)) /\ at' = "score"
<1> USE DEF At
<1>1. at = "delta_reward" /\ Fits("delta_reward") /\ job.topK
  BY DEF DeltaReward, ColumnsInv, Building
<1> DEFINE reads == TeacherReads \cup {"student_top_k_log_probs", "teacher_on_student_log_probs"}
<1>2. PICK R \in TeacherTops :
        Join(batch, reads, Deltas(TeacherColumns("reference", R),
                                  DeltaScored(job.strategy, StudentTop, teachers.T, R, teachers.N).ids), "score")
  BY DEF DeltaReward, Deltas
<1>3. DeltaScored(job.strategy, StudentTop, teachers.T, R, teachers.N).ids = StudentTop
  BY DEF DeltaScored
<1> DEFINE new == Deltas(TeacherColumns("reference", R), StudentTop)
<1>4. DOMAIN new \subseteq {"rm_scores"} \cup FromRewards
  BY DeltaAnswers
<1>5. reads \subseteq DOMAIN batch
  BY <1>1 DEF Fits, Has, FromRollout, FromPolicy, FromTeacher, TeacherReads, OfStudent
<1>6. DOMAIN batch \cap ({"rm_scores"} \cup FromRewards) = {}
  BY <1>1 DEF Fits, Lacks
<1>7. Join(batch, reads, new, "score")
  BY <1>2, <1>3
<1> HIDE DEF reads, new
<1>8. batch' = With(batch, new) /\ at' = "score"
  BY <1>4, <1>5, <1>6, <1>7 DEF Join, CanUnion
<1> QED
  BY <1>8 DEF new

\* compute_distillation_reward adds its reward for a strategy it has a branch for.
LEMMA DistillJoins ==
  ASSUME ColumnsInv, Distill, Distills(job.strategy)
  PROVE  batch' = With(batch, DistillationColumns(Distilled(job.strategy, StudentTop, teachers.T, teachers.N)))
         /\ at' = "score"
<1> USE DEF At
<1>1. at = "distill" /\ Fits("distill") /\ job.topK
  BY DEF Distill, ColumnsInv, Building
<1> DEFINE new == DistillationColumns(Distilled(job.strategy, StudentTop, teachers.T, teachers.N))
<1>2. Join(batch, DistillationReads, new, "score")
  BY DEF Distill
<1>3. DOMAIN new \subseteq {"rm_scores", "student_log_probs_on_teacher_ids"} \cup UnionColumns
  BY DistillationAnswers
<1>4. DOMAIN new \subseteq {"rm_scores"} \cup FromRewards
  BY <1>3 DEF FromRewards, UnionColumns
<1>5. DistillationReads \subseteq DOMAIN batch
  BY <1>1 DEF Fits, Has, FromRollout, FromPolicy, FromTeacher, DistillationReads, OfStudent
<1>6. DOMAIN batch \cap ({"rm_scores"} \cup FromRewards) = {}
  BY <1>1 DEF Fits, Lacks
<1> HIDE DEF new
<1>7. batch' = With(batch, new) /\ at' = "score"
  BY <1>2, <1>4, <1>5, <1>6 DEF Join, CanUnion
<1> QED
  BY <1>7 DEF new

\* The rewards find their columns.
LEMMA ColumnsReward ==
  ASSUME ColumnsInv, SampledReward \/ DeltaReward \/ Distill
  PROVE  ColumnsInv'
<1> USE DEF At
<1>1. job' = job
  BY DEF SampledReward, DeltaReward, Distill
<1>2. CASE SampledReward
  <2>1. PICK raw : batch' = With(Drop(batch, {"rm_scores"}), SampledDeltas(raw)) /\ at' = "score"
    BY <1>2, SampledJoins
  <2>2. at = "sampled_reward" /\ job.mode # "delta_opd"
    BY <1>2 DEF SampledReward, ColumnsInv
  <2>3. ASSUME NEW rest, rest = Drop(batch, {"rm_scores"}), NEW new, new = SampledDeltas(raw)
        PROVE  ColumnsInv'
    <3>1. DOMAIN rest = DOMAIN batch \ {"rm_scores"}
      BY <2>3, DropColumns
    <3>2. DOMAIN new \subseteq {"rm_scores"} \cup FromRewards
      BY <2>3, SampledDeltaAnswers
    <3>3. batch' = With(rest, new) /\ at' = "score"
      BY <2>1, <2>3
    <3> QED
      BY <1>1, <2>2, <3>1, <3>2, <3>3, RewardJoins
  <2> QED
    BY <2>3
<1>3. CASE DeltaReward
  <2>1. PICK raw : batch' = With(batch, Deltas(raw, StudentTop)) /\ at' = "score"
    BY <1>3, DeltaJoins
  <2> DEFINE new == Deltas(raw, StudentTop)
  <2>2. at = "delta_reward" /\ DOMAIN batch = DOMAIN batch \ {"rm_scores"}
    BY <1>3 DEF DeltaReward, ColumnsInv, Building, Fits, Lacks
  <2>3. DOMAIN new \subseteq {"rm_scores"} \cup FromRewards /\ "js_divergence" \in DOMAIN new
    BY DeltaAnswers
  <2>4. batch' = With(batch, new) /\ at' = "score"
    BY <2>1
  <2> HIDE DEF new
  <2> QED
    BY <1>1, <2>2, <2>3, <2>4, RewardJoins
<1>4. CASE Distill
  <2>1. at = "distill" /\ job.mode = "opd_kl" /\ job.topK
    BY <1>4 DEF Distill, ColumnsInv
  <2>2. CASE Distills(job.strategy)
    <3> DEFINE new == DistillationColumns(Distilled(job.strategy, StudentTop, teachers.T, teachers.N))
    <3>1. batch' = With(batch, new) /\ at' = "score"
      BY <1>4, <2>2, DistillJoins
    <3>2. DOMAIN new \subseteq {"rm_scores", "student_log_probs_on_teacher_ids"} \cup UnionColumns
      BY DistillationAnswers
    <3>3. DOMAIN new \subseteq {"rm_scores"} \cup FromRewards
      BY <3>2 DEF FromRewards, UnionColumns
    <3>4. DOMAIN batch = DOMAIN batch \ {"rm_scores"}
      BY <2>1 DEF ColumnsInv, Building, Fits, Lacks
    <3> HIDE DEF new
    <3> QED
      BY <1>1, <2>1, <3>1, <3>3, <3>4, RewardJoins
  <2>3. CASE ~Distills(job.strategy)
    <3>1. at' = "raised"
      BY <1>4, <2>3 DEF Distill, Raise
    <3> QED
      BY <1>1, <2>1, <2>3, <3>1 DEF ColumnsInv, Baseline, Building, Rewarded, StepsComplete, Rejected
  <2> QED
    BY <2>2, <2>3
<1> QED
  BY <1>2, <1>3, <1>4
\* What the old log-probabilities do to the batch: they are the rollout's, or
\* stay as they are, or a rule's batch gets them now.
Counts == {"student_valid_counts", "teacher_valid_counts"}
LEMMA OldJoins ==
  ASSUME ColumnsInv, OldLogProb, at' # "raised"
  PROVE  /\ at' = "ref"
         /\ \/ /\ job.bypass /\ "rollout_log_probs" \in DOMAIN batch
               /\ batch' = With(Drop(batch, Counts), [c \in {"old_log_probs"} |-> batch["rollout_log_probs"]])
            \/ /\ ~job.bypass /\ job.mode # "rule"
               /\ batch' = Drop(Drop(batch, Counts), {"entropys"})
            \/ /\ ~job.bypass /\ job.mode = "rule"
               /\ batch' = With(Drop(batch, Counts), Drop(LogProbColumns, {"entropys"}))
<1> USE DEF At
<1>1. at = "score" /\ Fits("score")
  BY DEF OldLogProb, ColumnsInv, Building
<1> DEFINE rest == Drop(batch, Counts)
           new == Drop(LogProbColumns, {"entropys"})
<1>2. CASE job.bypass
  BY <1>2 DEF OldLogProb, Raise, Counts
<1>3. CASE ~job.bypass /\ job.mode # "rule"
  <2>1. {"old_log_probs", "entropys"} \subseteq DOMAIN batch
    BY <1>1, <1>3 DEF Fits, Has, FromPolicy
  <2> QED
    BY <1>3, <2>1 DEF OldLogProb, Counts
<1>4. CASE ~job.bypass /\ job.mode = "rule"
  <2>1. "old_log_probs" \notin DOMAIN batch
    BY <1>1, <1>4 DEF Fits, Lacks
  <2>2. Join(rest, {"responses"}, new, "ref")
    BY <1>4, <2>1 DEF OldLogProb, Counts
  <2>3. at' = "ref" /\ batch' = With(rest, new)
    BY <2>2 DEF Join
  <2> QED
    BY <1>4, <2>3
<1> QED
  BY <1>2, <1>3, <1>4

\* The old log-probabilities take the place of what was there, or of nothing.
LEMMA ColumnsOld ==
  ASSUME ColumnsInv, OldLogProb
  PROVE  ColumnsInv'
<1> USE DEF At
<1>1. job' = job /\ at = "score" /\ Fits("score")
  BY DEF OldLogProb, ColumnsInv, Building
<1>2. FromRollout \subseteq DOMAIN batch /\ DOMAIN batch \cap Later = {}
      /\ (job.mode = "delta_opd" => "js_divergence" \in DOMAIN batch)
  BY <1>1 DEF Fits, Has, Lacks, ColumnsInv, Rewarded
<1>3. Counts \cap FromRollout = {} /\ {"entropys"} \cap FromRollout = {} /\ "js_divergence" \notin Counts
  BY DEF Counts, FromRollout
<1>4. ASSUME at' = "ref", FromRollout \cup {"old_log_probs"} \subseteq DOMAIN batch', DOMAIN batch' \cap Later = {},
             job.mode = "delta_opd" => "js_divergence" \in DOMAIN batch'
      PROVE  ColumnsInv'
  <2>1. Fits("ref")'
    BY <1>1, <1>4 DEF Fits, Has, Lacks, FromRollout, Later
  <2> QED
    BY <1>1, <1>4, <2>1 DEF ColumnsInv, Baseline, Building, Rewarded, StepsComplete
<1>5. CASE at' = "raised"
  <2>1. at' # "ref" /\ job.bypass
    <3>1. CASE ~job.bypass /\ {"old_log_probs", "entropys"} \subseteq DOMAIN batch
      BY <1>5, <3>1 DEF OldLogProb
    <3>2. CASE ~job.bypass /\ ~({"old_log_probs", "entropys"} \subseteq DOMAIN batch)
      <4> DEFINE rest == Drop(batch, Counts)
                 new == Drop(LogProbColumns, {"entropys"})
      <4>1. Join(rest, {"responses"}, new, "ref")
        BY <3>2 DEF OldLogProb, Counts
      <4>2. job.mode = "rule"
        BY <1>1, <3>2 DEF Fits, Has, FromPolicy
      <4>3. DOMAIN rest = DOMAIN batch \ Counts /\ DOMAIN new = FromPolicy \ {"entropys"}
        BY DropColumns, PolicyAnswers
      <4>4. DOMAIN batch \cap ({"old_log_probs"} \cup OfStudent) = {}
        BY <1>1, <4>2 DEF Fits, Lacks
      <4>5. {"responses"} \subseteq DOMAIN batch
        BY <1>2 DEF FromRollout
      <4>6. DOMAIN rest \cap DOMAIN new = {}
        BY <4>3, <4>4 DEF FromPolicy
      <4> HIDE DEF rest, new
      <4> QED
        BY <1>5, <4>1, <4>5, <4>6 DEF Join, CanUnion
    <3> QED
      BY <1>5, <3>1, <3>2
  <2>2. "rollout_log_probs" \notin DOMAIN batch
    BY <1>5, <2>1 DEF OldLogProb
  <2>3. Rejected
    BY <1>2, <2>1, <2>2 DEF FromRollout, Rejected
  <2> QED
    BY <1>1, <1>5, <2>3 DEF ColumnsInv, Baseline, Building, Rewarded, StepsComplete, Rejected
<1>6. CASE at' # "raised"
  <2> DEFINE rest == Drop(batch, Counts)
  <2>1. DOMAIN rest = DOMAIN batch \ Counts
    BY DropColumns
  <2>2. CASE job.bypass /\ "rollout_log_probs" \in DOMAIN batch
             /\ batch' = With(rest, [c \in {"old_log_probs"} |-> batch["rollout_log_probs"]])
    <3> HIDE DEF rest
    <3>1. DOMAIN batch' = DOMAIN rest \cup {"old_log_probs"}
      BY <2>2 DEF With
    <3> QED
      BY <1>2, <1>3, <1>4, <1>6, <2>1, <3>1, OldJoins DEF Later
  <2>3. CASE ~job.bypass /\ job.mode # "rule" /\ batch' = Drop(rest, {"entropys"})
    <3> HIDE DEF rest
    <3>1. DOMAIN batch' = DOMAIN rest \ {"entropys"}
      BY <2>3, DropColumns
    <3>2. "old_log_probs" \in DOMAIN batch
      BY <1>1, <2>3 DEF Fits, Has, FromPolicy
    <3> QED
      BY <1>2, <1>3, <1>4, <1>6, <2>1, <3>1, <3>2, OldJoins DEF Counts
  <2>4. CASE ~job.bypass /\ job.mode = "rule" /\ batch' = With(rest, Drop(LogProbColumns, {"entropys"}))
    <3> DEFINE new == Drop(LogProbColumns, {"entropys"})
    <3>1. DOMAIN new = FromPolicy \ {"entropys"}
      BY DropColumns, PolicyAnswers
    <3> HIDE DEF rest, new
    <3>2. DOMAIN batch' = DOMAIN rest \cup DOMAIN new
      BY <2>4 DEF With, new
    <3>3. "old_log_probs" \in DOMAIN new /\ DOMAIN new \cap Later = {}
      BY <3>1 DEF FromPolicy, OfStudent, Later
    <3> QED
      BY <1>2, <1>3, <1>4, <1>6, <2>1, <2>4, <3>2, <3>3, OldJoins
  <2> QED
    BY <1>6, <2>2, <2>3, <2>4, OldJoins
<1> QED
  BY <1>5, <1>6

\* The reference policy's column and the advantages are new to the batch.
LEMMA ColumnsRef ==
  ASSUME ColumnsInv, RefLogProb
  PROVE  ColumnsInv'
<1> USE DEF At
<1>1. job' = job /\ at = "ref" /\ Fits("ref") /\ (job.mode = "delta_opd" => "js_divergence" \in DOMAIN batch)
  BY DEF RefLogProb, ColumnsInv, Building, Rewarded
<1>2. at' = "adv" /\ DOMAIN batch' = DOMAIN batch \cup HasRef
  <2>1. CASE job.useRef
    <3> DEFINE new == Columns({"ref_log_prob"}, Sampled, 0)
    <3>1. Join(batch, {"responses"}, new, "adv")
      BY <2>1 DEF RefLogProb
    <3>2. DOMAIN new = {"ref_log_prob"}
      BY ColumnsMade
    <3>3. {"responses"} \subseteq DOMAIN batch /\ "ref_log_prob" \notin DOMAIN batch
      BY <1>1 DEF Fits, Has, Lacks, FromRollout, Later
    <3> HIDE DEF new
    <3> QED
      BY <2>1, <3>1, <3>2, <3>3 DEF Join, CanUnion, With, HasRef
  <2>2. CASE ~job.useRef
    BY <2>2 DEF RefLogProb, HasRef
  <2> QED
    BY <2>1, <2>2
<1>3. Fits("adv")'
  BY <1>1, <1>2 DEF Fits, Has, Lacks, HasRef, FromRollout
<1> QED
  BY <1>1, <1>2, <1>3 DEF ColumnsInv, Baseline, Building, Rewarded, StepsComplete, Rejected

\* What is popped before the update is not read by it.
LEMMA ColumnsAdvantages ==
  ASSUME ColumnsInv, Advantages
  PROVE  ColumnsInv'
<1> USE DEF At
<1>1. job' = job /\ at = "adv" /\ Fits("adv") /\ (job.mode = "delta_opd" => "js_divergence" \in DOMAIN batch)
  BY DEF Advantages, ColumnsInv, Building, Rewarded
<1>2. PICK ids : batch' = Drop(With(batch, Columns({"advantages"}, ids, version)), PoppedBeforeUpdate) /\ at' = "update"
  BY DEF Advantages
<1> DEFINE new == Columns({"advantages"}, ids, version)
           grown == With(batch, new)
<1>3. DOMAIN new = {"advantages"}
  BY ColumnsMade
<1> HIDE DEF new
<1>4. DOMAIN grown = DOMAIN batch \cup {"advantages"}
  BY <1>3 DEF With
<1>5. DOMAIN batch' = DOMAIN grown \ PoppedBeforeUpdate
  BY <1>2, DropColumns DEF new
<1>6. DOMAIN batch' = (DOMAIN batch \cup {"advantages"}) \ PoppedBeforeUpdate
  BY <1>4, <1>5
<1>7. Fits("update")'
  BY <1>1, <1>6 DEF Fits, Has, Lacks, HasRef, FromRollout, PoppedBeforeUpdate
<1>8. job.mode = "delta_opd" => "js_divergence" \in DOMAIN batch'
  BY <1>1, <1>6 DEF PoppedBeforeUpdate
<1> QED
  BY <1>1, <1>2, <1>7, <1>8 DEF ColumnsInv, Baseline, Building, Rewarded, StepsComplete, Rejected

\* The update finds what it reads, the divergence where delta_opd gives one.
LEMMA ColumnsUpdate ==
  ASSUME ColumnsInv, UpdateActor
  PROVE  ColumnsInv'
<1> USE DEF At
<1>1. job' = job /\ at = "update" /\ Fits("update") /\ (job.mode = "delta_opd" => "js_divergence" \in DOMAIN batch)
  BY DEF UpdateActor, ColumnsInv, Building, Rewarded
<1>2. UpdateReads \subseteq DOMAIN batch \/ Rejected
  BY <1>1 DEF Fits, Has, HasRef, FromRollout, UpdateReads, Rejected
<1>3. batch' = batch /\ (at' = "save" \/ (at' = "raised" /\ Rejected))
  BY <1>2 DEF UpdateActor
<1> QED
  BY <1>1, <1>3 DEF ColumnsInv, Baseline, Building, Rewarded, StepsComplete, Rejected

\* fit starts without a batch.
LEMMA ColumnsInit == Init => ColumnsInv
BY DEF Init, ColumnsInv, Baseline, Building, Rewarded, StepsComplete

\* Every step leaves the batch the columns its place asks for.
LEMMA ColumnsStep ==
  ASSUME TrainInv, ConfigInv, ColumnsInv, [Next]_vars
  PROVE  ColumnsInv'
<1>1. CASE Workers \/ UNCHANGED vars
  <2>1. at' = at /\ purpose' = purpose /\ batch' = batch /\ job' = job
    BY <1>1 DEF Workers, vars, driverVars
  <2>2. \A place : Fits(place)' <=> Fits(place)
    BY <2>1 DEF Fits, Has, Lacks, HasRef, FromRollout, FromPolicy, FromTeacher
  <2> QED
    BY <2>1, <2>2 DEF ColumnsInv, Baseline, StepsComplete, Rejected
<1>2. CASE Driver
  BY <1>2, ColumnsOutside, ColumnsReceived, ColumnsFirst, ColumnsTeacher, ColumnsReward, ColumnsOld, ColumnsRef,
     ColumnsAdvantages, ColumnsUpdate DEF Driver
<1> QED
  BY <1>1, <1>2 DEF Next

\* No step of fit misses a column it reads or unites two different columns of one
\* name, but in the four configurations that the code turns down: for every
\* reward mode, strategy, setup and number of steps.
THEOREM EveryColumnIsThere == Spec => []StepsComplete
<1>1. Init => TrainInv /\ ConfigInv /\ ColumnsInv
  BY DriverInit, TypeInit, MethodInit, ConfigInit, ColumnsInit DEF Init, TrainInv
<1>2. TrainInv /\ ConfigInv /\ ColumnsInv /\ [Next]_vars => (TrainInv /\ ConfigInv /\ ColumnsInv)'
  BY TrainStep, ConfigStep, ColumnsStep
<1>3. ColumnsInv => StepsComplete
  BY DEF ColumnsInv
<1> QED
  BY <1>1, <1>2, <1>3, PTL DEF Spec
-----------------------------------------------------------------------------
\* What the policy loss divides is of the same tokens, and of the policy as the
\* update finds it.

\* While a step has responses the policy stays as it is, and the ranks are
\* through with them when the driver goes on.
PolicyStays ==
  /\ at \in Building \cup {"sleep", "received"} \/ Baseline =>
       Idle \/ call \notin {"update_actor", "load_checkpoint"}
  /\ at = "sleep" => Idle
  /\ EngineFollows /\ at = "received" => call \in {"generate_sequences", "sleep"}

\* An engine that follows the policy has answered with the policy as it is.
Fresh ==
  EngineFollows =>
    /\ at = "sleep" => \A r \in Ranks : rollouts[r] = version
    /\ at = "received" => \A r \in Ranks : pc[r] \in {"release", "reduce", "idle"} => rollouts[r] = version

\* The driver's steps leave the policy's version alone.
LEMMA DriverKeepsVersion ==
  ASSUME Driver
  PROVE  version' = version
<1>1. ASSUME UNCHANGED workerVars PROVE version' = version
  BY <1>1 DEF workerVars
<1>2. ASSUME NEW m, Call(m) PROVE version' = version
  BY <1>2 DEF Call
<1> QED
  BY <1>1, <1>2
     DEF Driver, Load, FirstStep, Generates, WakeEngines, ServeLoops, Serve, SleepEngines, Received,
         FirstLogProb, Teacher, SampledReward, DeltaReward, Distill, OldLogProb, RefLogProb,
         Advantages, UpdateActor, Save, Validate, Finish, NoCall, Raise

\* Nor does a step of the workers change it while a step has responses.
LEMMA WorkersKeepVersion ==
  ASSUME TrainInv, PolicyStays, Workers, at \in Building \cup {"sleep", "received"} \/ Baseline
  PROVE  version' = version
<1>1. Idle \/ call \notin {"update_actor", "load_checkpoint"}
  BY DEF PolicyStays
<1>2. ASSUME NEW r \in Ranks, RankStep(r) PROVE version' = version
  BY <1>2 DEF RankStep, Gather, Install, Wake, Generate, Release, Bring, PutBack
<1>3. CASE Sync \/ Reduce
  BY <1>3 DEF Sync, Reduce
<1>4. CASE Run
  <2>1. ~Idle
    BY <1>4, RanksAssumption DEF Run, Idle
  <2> QED
    BY <1>1, <1>4, <2>1 DEF Run
<1> QED
  BY <1>2, <1>3, <1>4 DEF Workers, GroupStep

\* fit starts before the first responses.
LEMMA FreshInit == Init => PolicyStays /\ Fresh
BY DEF Init, PolicyStays, Fresh, Baseline, Building

\* No call of a step's reward phase is an update or a load of a checkpoint.
LEMMA DriverPolicyStays ==
  ASSUME TrainInv, PolicyStays, ConfigInv, Driver
  PROVE  PolicyStays'
<1> USE DEF At, NoCall
<1>1. setup' = setup
  BY ConfigStep DEF Next
<1>2. ASSUME UNCHANGED workerVars, Idle PROVE Idle' /\ call' = call
  BY <1>2 DEF Idle, workerVars
<1>3. ASSUME at' \notin {"sleep", "received"},
             (UNCHANGED workerVars /\ Idle) \/ (\E m \in {"compute", "generate_sequences", "wake_up", "sleep"} : Call(m))
      PROVE  PolicyStays'
  <2>1. Idle' \/ call' \notin {"update_actor", "load_checkpoint"}
    BY <1>2, <1>3 DEF Call
  <2> QED
    BY <1>3, <2>1 DEF PolicyStays
<1>4. CASE Load \/ FirstStep \/ Save \/ Validate \/ Finish \/ UpdateActor
  <2>1. at' \notin Building \cup {"sleep", "received"}
    BY <1>4 DEF Load, FirstStep, Save, Validate, Finish, UpdateActor, Building
  <2>2. ~Baseline'
    BY <1>4, <2>1 DEF Load, FirstStep, Save, Validate, Finish, UpdateActor, Baseline
  <2> QED
    BY <2>1, <2>2 DEF PolicyStays
<1>5. CASE Generates
  BY <1>5 DEF Generates, Call, PolicyStays
<1>6. CASE WakeEngines
  BY <1>3, <1>6 DEF WakeEngines
<1>7. CASE ServeLoops
  BY <1>7 DEF ServeLoops, Serve, Idle, PolicyStays
<1>8. CASE SleepEngines
  <2>1. setup.async
    BY <1>8 DEF SleepEngines, TrainInv, DriverInv
  <2>2. CASE setup.freeCache
    BY <1>8, <2>2 DEF SleepEngines, Call, PolicyStays
  <2>3. CASE ~setup.freeCache
    BY <1>1, <1>2, <1>8, <2>1, <2>3 DEF SleepEngines, PolicyStays, EngineFollows
  <2> QED
    BY <2>2, <2>3
<1>9. CASE Received
  <2>1. at' \notin {"sleep", "received"}
    BY <1>9 DEF Received, TrainInv, DriverInv
  <2> QED
    BY <1>3, <1>9, <2>1 DEF Received
<1>10. CASE FirstLogProb
  BY <1>3, <1>10 DEF FirstLogProb, Join
<1>11. CASE Teacher
  BY <1>3, <1>11 DEF Teacher, Join
<1>12. CASE SampledReward
  BY <1>3, <1>12 DEF SampledReward, Join
<1>13. CASE DeltaReward
  BY <1>3, <1>13 DEF DeltaReward, Join
<1>14. CASE Distill
  BY <1>3, <1>14 DEF Distill, Raise, Join
<1>15. CASE OldLogProb
  <2>1. at' \in {"ref", "raised"}
    BY <1>15 DEF OldLogProb, Raise, Join
  <2>2. (UNCHANGED workerVars /\ Idle) \/ Call("compute")
    BY <1>15 DEF OldLogProb, Raise
  <2> QED
    BY <1>3, <2>1, <2>2
<1>16. CASE RefLogProb
  BY <1>3, <1>16 DEF RefLogProb, Join
<1>17. CASE Advantages
  BY <1>3, <1>17 DEF Advantages
<1> QED
  BY <1>4, <1>5, <1>6, <1>7, <1>8, <1>9, <1>10, <1>11, <1>12, <1>13, <1>14, <1>15, <1>16, <1>17 DEF Driver

\* A rank that steps is not idle, and does not change the call.
LEMMA PolicyStaysStep ==
  ASSUME TrainInv, PolicyStays, ConfigInv, [Next]_vars
  PROVE  PolicyStays'
<1>1. CASE Workers
  <2>1. ~Idle /\ call' = call
    BY <1>1, RanksAssumption DEF Workers, GroupStep, RankStep, Gather, Install, Wake, Generate, Release, Bring, PutBack,
                Sync, Reduce, Run, Idle
  <2>2. at' = at /\ purpose' = purpose
    BY <1>1 DEF Workers, driverVars
  <2>3. setup' = setup
    BY ConfigStep
  <2> QED
    BY <2>1, <2>2, <2>3 DEF PolicyStays, Baseline, EngineFollows
<1>2. CASE UNCHANGED vars
  BY <1>2 DEF vars, driverVars, workerVars, PolicyStays, Baseline, EngineFollows, Idle
<1> QED
  BY <1>1, <1>2, DriverPolicyStays DEF Next

\* Responses are those of the policy as it is, from the engine to the driver.
LEMMA FreshStep ==
  ASSUME TrainInv, RolloutsFromLatest, PolicyStays, ConfigInv, Fresh, [Next]_vars
  PROVE  Fresh'
<1> USE DEF At, NoCall
<1>1. setup' = setup
  BY ConfigStep
<1>2. CASE Workers /\ at \in {"sleep", "received"}
  <2>1. at' = at /\ version' = version
    BY <1>2, WorkersKeepVersion DEF Workers, driverVars
  <2>2. at = "received"
    BY <1>2, RanksAssumption DEF PolicyStays, Workers, GroupStep, RankStep, Gather, Install, Wake, Generate, Release, Bring,
                PutBack, Sync, Reduce, Run, Idle
  <2>3. SUFFICES ASSUME EngineFollows, NEW r \in Ranks, pc'[r] \in {"release", "reduce", "idle"}
                 PROVE  rollouts'[r] = version
    BY <1>1, <2>1, <2>2 DEF Fresh, EngineFollows
  <2>4. call \in {"generate_sequences", "sleep"}
    BY <2>2, <2>3 DEF PolicyStays
  <2>5. \A x \in Ranks : pc[x] \in {"release", "reduce", "idle"} => rollouts[x] = version
    BY <2>2, <2>3 DEF Fresh
  <2>6. ASSUME NEW x \in Ranks, Generate(x) PROVE rollouts'[r] = version
    <3>1. Installed(x) = version
      BY <2>3, <2>6 DEF RolloutsFromLatest, Serving, Generate
    <3> QED
      BY <2>3, <2>5, <2>6, <3>1 DEF Generate, TrainInv, WorkerTypeOK
  <2>7. ASSUME NEW x \in Ranks, Gather(x) \/ Install(x) \/ Wake(x) \/ Release(x) \/ Bring(x) \/ PutBack(x)
        PROVE  rollouts'[r] = version
    <3>1. rollouts' = rollouts /\ pc[x] # "putback"
      BY <2>4, <2>7 DEF Gather, Install, Wake, Release, Bring, PutBack, TrainInv, MethodInv
    <3>2. pc[r] \in {"release", "reduce", "idle"}
      BY <2>3, <2>4, <2>7, <3>1 DEF Gather, Install, Wake, Release, Bring, PutBack, TrainInv, WorkerTypeOK, MethodInv
    <3> QED
      BY <2>5, <3>1, <3>2
  <2>8. CASE Sync \/ Reduce \/ Run
    BY <2>3, <2>5, <2>8 DEF Sync, Reduce, Run
  <2> QED
    BY <1>2, <2>6, <2>7, <2>8 DEF Workers, GroupStep, RankStep
<1>3. CASE Workers /\ at \notin {"sleep", "received"}
  BY <1>3 DEF Workers, driverVars, Fresh
<1>4. CASE UNCHANGED vars
  BY <1>4 DEF vars, driverVars, workerVars, Fresh, EngineFollows
<1>5. CASE ServeLoops
  <2>1. EngineFollows => InRollout /\ Idle
    BY <1>5 DEF ServeLoops, TrainInv, DriverInv, EngineFollows
  <2>2. EngineFollows => \A r \in Ranks : Installed(r) = version
    BY <2>1 DEF RolloutsFromLatest, Serving, Idle
  <2> QED
    BY <1>1, <1>5, <2>2 DEF ServeLoops, Serve, Fresh, EngineFollows
<1>6. CASE SleepEngines
  BY <1>6 DEF SleepEngines, Call, workerVars, Fresh, EngineFollows
<1>7. CASE Generates
  BY <1>7 DEF Generates, Call, First, Fresh
<1>8. CASE Driver /\ ~ServeLoops /\ ~SleepEngines /\ ~Generates
  <2>1. at' \notin {"sleep", "received"}
    BY <1>8 DEF Driver, Load, FirstStep, WakeEngines, Received,
         FirstLogProb, Teacher, SampledReward, DeltaReward, Distill, OldLogProb, RefLogProb,
         Advantages, UpdateActor, Save, Validate, Finish, Raise, Join, TrainInv, DriverInv
  <2> QED
    BY <2>1 DEF Fresh
<1> QED
  BY <1>2, <1>3, <1>4, <1>5, <1>6, <1>7, <1>8 DEF Next
\* A column of the sampled tokens, computed by the policy as it is.
OfToken(name) == batch[name].ids = Sampled /\ batch[name].by = version

\* The student's columns are of its top-k tokens, by the policy as it is.
StudentFits ==
  /\ {"student_top_k_ids", "student_top_k_log_probs"} \subseteq DOMAIN batch
  /\ batch["student_top_k_ids"].ids = StudentTop
  /\ batch["student_top_k_log_probs"].ids = StudentTop
  /\ batch["student_top_k_log_probs"].by = version

\* The reward's ids are those of the columns the loss will take with it.
OnlyTeachers == job.mode = "opd_kl" /\ job.topK /\ job.strategy = "only_tch"
UnionFits(ids) ==
  /\ "union_top_k_ids" \in DOMAIN batch
  /\ batch["union_top_k_ids"].ids = ids
  /\ \/ OnlyTeachers
     \/ /\ "union_top_k_log_probs" \in DOMAIN batch
        /\ batch["union_top_k_log_probs"].ids = ids
        /\ batch["union_top_k_log_probs"].by = version
DenseFits ==
  "rm_scores" \in DOMAIN batch =>
    LET ids == batch["rm_scores"].ids
    IN  \/ ids = Sampled
        \/ ids = StudentTop /\ StudentFits /\ UnionColumns \cap DOMAIN batch = {}
        \/ UnionFits(ids)

TokensInv ==
  /\ EngineFollows /\ (at \in Building \/ Baseline) /\ "rollout_log_probs" \in DOMAIN batch =>
       OfToken("rollout_log_probs")
  /\ at \in {"teacher", "sampled_reward", "delta_reward", "distill", "score"} /\ job.mode # "rule" =>
       OfToken("old_log_probs") /\ (job.topK => StudentFits)
  /\ at \in {"ref", "adv", "update"} /\ (job.bypass => EngineFollows) => OfToken("old_log_probs")
  /\ at \in Rewarded => DenseFits
  /\ at = "update" =>
       batch["advantages"].ids = IF "rm_scores" \in DOMAIN batch THEN batch["rm_scores"].ids ELSE Sampled

\* The columns that tell which tokens the loss is about.
Telling == {"rm_scores", "student_top_k_ids", "student_top_k_log_probs"} \cup UnionColumns

\* A step that keeps these columns keeps what the reward's ids are.
LEMMA DenseKept ==
  ASSUME DenseFits, version' = version, job' = job,
         \A c \in Telling : /\ c \in DOMAIN batch' <=> c \in DOMAIN batch
                            /\ c \in DOMAIN batch => batch'[c] = batch[c]
  PROVE  DenseFits'
BY DEF DenseFits, StudentFits, UnionFits, OnlyTeachers, Telling, UnionColumns

\* A step outside a reward phase tells nothing of the tokens.
LEMMA TokensOutside ==
  ASSUME at' \notin Building, ~Baseline'
  PROVE  TokensInv'
BY DEF TokensInv, Building, Rewarded

\* Neither does one that leaves the batch and the place.
LEMMA TokensSame ==
  ASSUME TokensInv, job' = job, setup' = setup, batch' = batch, at' \in Building => at' = at /\ version' = version,
         Baseline' => Baseline /\ version' = version
  PROVE  TokensInv'
<1>1. CASE at' \in Building
  BY <1>1 DEF TokensInv, OfToken, StudentFits, DenseFits, UnionFits, OnlyTeachers, EngineFollows
<1>2. CASE at' \notin Building
  <2>1. at' \notin Rewarded \cup {"teacher", "sampled_reward", "delta_reward", "distill"}
    BY <1>2 DEF Building, Rewarded
  <2> QED
    BY <1>2, <2>1 DEF TokensInv, OfToken, EngineFollows, Rewarded
<1> QED
  BY <1>1, <1>2

\* The rollout's log-probabilities are by the policy as it is where the engine follows it.
LEMMA TokensReceived ==
  ASSUME TrainInv, ConfigInv, ColumnsInv, Fresh, TokensInv, Received
  PROVE  TokensInv'
<1> USE DEF At, NoCall
<1>1. /\ at = "received" /\ purpose \in {"train", "baseline", "val", "val_before"}
      /\ setup' = setup /\ version' = version
  BY DEF Received, TrainInv, DriverInv, workerVars
<1>2. CASE purpose \in {"val", "val_before"}
  BY <1>1, <1>2, TokensOutside DEF Received, Building, Baseline
<1>3. CASE purpose = "baseline"
  <2> DEFINE new == Columns({"reward_baselines"}, Sampled, version)
  <2>1. batch' = With(batch, new) /\ at' = "reward"
    BY <1>3 DEF Received
  <2>2. DOMAIN new = {"reward_baselines"}
    BY ColumnsMade
  <2> HIDE DEF new
  <2>3. /\ "rollout_log_probs" \in DOMAIN batch' => "rollout_log_probs" \in DOMAIN batch
        /\ "rollout_log_probs" \in DOMAIN batch => batch'["rollout_log_probs"] = batch["rollout_log_probs"]
    BY <2>1, <2>2 DEF With
  <2>4. EngineFollows /\ "rollout_log_probs" \in DOMAIN batch => OfToken("rollout_log_probs")
    BY <1>1, <1>3 DEF TokensInv, Baseline
  <2> QED
    BY <1>1, <2>1, <2>3, <2>4 DEF TokensInv, OfToken, EngineFollows, Building, Rewarded
<1>4. CASE purpose = "train"
  <2>1. batch' = Responses /\ (at' = "reward" \/ at' = "generate")
    BY <1>4 DEF Received
  <2>2. \A c \in DOMAIN Responses : Responses[c].ids = Sampled /\ Responses[c].by = EngineVersion
    BY ColumnsMade DEF Responses
  <2>3. EngineFollows => EngineVersion = version
    BY <1>1, RanksAssumption DEF Received, Fresh, Idle, EngineVersion
  <2> QED
    BY <1>1, <2>1, <2>2, <2>3 DEF TokensInv, OfToken, EngineFollows, Building, Rewarded
<1> QED
  BY <1>1, <1>2, <1>3, <1>4

\* The first log-probabilities are by the policy as it is.
LEMMA TokensFirst ==
  ASSUME ConfigInv, ColumnsInv, TokensInv, FirstLogProb
  PROVE  TokensInv'
<1> USE DEF At
<1>1. job' = job /\ at = "reward" /\ Fits("reward")
  BY DEF FirstLogProb, ColumnsInv, Building
<1>2. setup' = setup /\ version' = version
  BY DriverKeepsVersion, ConfigStep DEF Driver, Next
<1>3. EngineFollows /\ "rollout_log_probs" \in DOMAIN batch => OfToken("rollout_log_probs")
  BY <1>1 DEF TokensInv, Building
<1>4. CASE job.mode = "rule"
  <2>1. batch' = batch /\ at' = "score" /\ "rm_scores" \notin DOMAIN batch
    BY <1>1, <1>4 DEF FirstLogProb, Fits, Lacks
  <2> QED
    BY <1>1, <1>2, <1>3, <1>4, <2>1 DEF TokensInv, OfToken, EngineFollows, DenseFits
<1>5. CASE job.mode # "rule"
  <2>1. Join(batch, {"responses"}, LogProbColumns, "teacher")
    BY <1>5 DEF FirstLogProb
  <2>2. {"responses"} \subseteq DOMAIN batch /\ DOMAIN batch \cap FromPolicy = {}
    BY <1>1 DEF Fits, Has, Lacks, FromRollout, FromPolicy
  <2>3. DOMAIN LogProbColumns = FromPolicy
    BY PolicyAnswers
  <2>4. /\ DOMAIN batch' = DOMAIN batch \cup FromPolicy /\ at' = "teacher"
        /\ \A c \in FromPolicy : batch'[c] = LogProbColumns[c]
        /\ \A c \in DOMAIN batch : batch'[c] = batch[c]
    BY <2>1, <2>2, <2>3 DEF Join, CanUnion, With
  <2>5. OfToken("old_log_probs")'
    BY <1>2, <2>4, PolicyAnswers DEF OfToken, FromPolicy
  <2>6. job.topK => StudentFits'
    BY <1>2, <2>4, PolicyAnswers DEF StudentFits, FromPolicy, OfStudent
  <2>7. EngineFollows /\ "rollout_log_probs" \in DOMAIN batch' => OfToken("rollout_log_probs")'
    BY <1>2, <1>3, <2>4 DEF OfToken, FromPolicy, OfStudent
  <2> QED
    BY <1>1, <1>2, <2>4, <2>5, <2>6, <2>7 DEF TokensInv, EngineFollows, Rewarded
<1> QED
  BY <1>4, <1>5
\* The policy's columns, which no teacher and no reward overwrites.
Kept == {"rollout_log_probs", "old_log_probs", "student_top_k_ids", "student_top_k_log_probs"}

\* A teacher and a reward keep them; what is left to show of a reward is its ids.
LEMMA TokensKept ==
  ASSUME TokensInv, at \in {"teacher", "sampled_reward", "delta_reward", "distill"}, job.mode # "rule",
         job' = job, setup' = setup, version' = version,
         at' \in {"sampled_reward", "delta_reward", "distill", "score"},
         \A c \in Kept : /\ c \in DOMAIN batch' <=> c \in DOMAIN batch
                         /\ c \in DOMAIN batch => batch'[c] = batch[c],
         "old_log_probs" \in DOMAIN batch,
         at' = "score" => DenseFits'
  PROVE  TokensInv'
<1>1. OfToken("old_log_probs") /\ (job.topK => StudentFits)
  BY DEF TokensInv
<1>2. EngineFollows /\ "rollout_log_probs" \in DOMAIN batch => OfToken("rollout_log_probs")
  BY DEF TokensInv, Building
<1>3. OfToken("old_log_probs")' /\ (job.topK => StudentFits')
  BY <1>1 DEF OfToken, StudentFits, Kept
<1>4. EngineFollows' /\ "rollout_log_probs" \in DOMAIN batch' => OfToken("rollout_log_probs")'
  BY <1>2 DEF OfToken, Kept, EngineFollows
<1> QED
  BY <1>3, <1>4 DEF TokensInv, Rewarded

\* A teacher's score without top-k is of the sampled token.
LEMMA TeacherScore ==
  ASSUME NEW teacher, NEW top, ~job.topK
  PROVE  TeacherColumns(teacher, top)["rm_scores"].ids = Sampled
<1> DEFINE a == [c \in {"teacher_sampled_log_probs", "teacher_entropy"} |-> Column(teacher, Sampled, version)]
           b == [c \in {"rm_scores"} |-> Column(teacher, Sampled, version)]
<1>1. TeacherColumns(teacher, top) = With(a, b)
  BY DEF TeacherColumns
<1>2. DOMAIN b = {"rm_scores"} /\ b["rm_scores"].ids = Sampled
  BY DEF Column
<1> HIDE DEF a, b
<1> QED
  BY <1>1, <1>2 DEF With

\* A teacher's answer keeps the policy's columns.
LEMMA TokensTeacher ==
  ASSUME ConfigInv, ColumnsInv, TokensInv, Teacher
  PROVE  TokensInv'
<1> USE DEF At
<1>1. job' = job /\ at = "teacher" /\ Fits("teacher") /\ job.mode # "rule"
  BY DEF Teacher, ColumnsInv, Building
<1>2. setup' = setup /\ version' = version
  BY DriverKeepsVersion, ConfigStep DEF Driver, Next
<1>3. CASE job.mode = "delta_opd" /\ ~job.topK
  BY <1>1, <1>3, TokensOutside DEF Teacher, Building, Baseline
<1>4. CASE ~(job.mode = "delta_opd" /\ ~job.topK)
  <2> DEFINE next == CASE job.mode = "delta_opd_sampled" -> "sampled_reward"
                       [] job.mode = "delta_opd"         -> "delta_reward"
                       [] job.mode = "opd_kl" /\ job.topK -> "distill"
                       [] OTHER                          -> "score"
  <2>1. PICK T \in TeacherTops : Join(batch, TeacherReads, TeacherColumns("teacher", T), next)
    BY <1>4 DEF Teacher
  <2>2. TeacherReads \subseteq DOMAIN batch /\ DOMAIN batch \cap FromTeacher = {}
    BY <1>1 DEF Fits, Has, Lacks, FromRollout, FromPolicy, TeacherReads
  <2>3. next \in {"sampled_reward", "delta_reward", "distill", "score"}
    OBVIOUS
  <2> HIDE DEF next
  <2> DEFINE new == TeacherColumns("teacher", T)
  <2>4. DOMAIN new = FromTeacher
    BY TeacherAnswers
  <2>5. ~job.topK => new["rm_scores"].ids = Sampled
    BY TeacherScore
  <2> HIDE DEF new
  <2>6. /\ DOMAIN batch' = DOMAIN batch \cup FromTeacher /\ at' = next
        /\ \A c \in FromTeacher : batch'[c] = new[c]
        /\ \A c \in DOMAIN batch : batch'[c] = batch[c]
    BY <2>1, <2>2, <2>4 DEF Join, CanUnion, With, new
  <2>7. DenseFits'
    <3>1. CASE job.topK
      <4>1. "rm_scores" \notin DOMAIN batch'
        BY <1>1, <2>6, <3>1 DEF Fits, Lacks, FromTeacher
      <4> QED
        BY <4>1 DEF DenseFits
    <3>2. CASE ~job.topK
      <4>1. batch'["rm_scores"].ids = Sampled
        BY <2>5, <2>6, <3>2 DEF FromTeacher
      <4> QED
        BY <4>1 DEF DenseFits
    <3> QED
      BY <3>1, <3>2
  <2>8. \A c \in Kept : /\ c \in DOMAIN batch' <=> c \in DOMAIN batch
                        /\ c \in DOMAIN batch => batch'[c] = batch[c]
    BY <2>6 DEF Kept, FromTeacher
  <2>9. "old_log_probs" \in DOMAIN batch
    BY <2>2 DEF TeacherReads
  <2> QED
    BY <1>1, <1>2, <2>3, <2>6, <2>7, <2>8, <2>9, TokensKept
<1> QED
  BY <1>3, <1>4

\* A reward is of the sampled tokens, of the student's, or of those its own
\* columns name.
LEMMA TokensReward ==
  ASSUME ConfigInv, ColumnsInv, TokensInv, SampledReward \/ DeltaReward \/ Distill
  PROVE  TokensInv'
<1> USE DEF At
<1>1. job' = job /\ setup' = setup /\ version' = version
  BY DriverKeepsVersion, ConfigStep DEF Driver, Next
<1>2. /\ at \in {"sampled_reward", "delta_reward", "distill"} /\ Fits(at) /\ job.mode # "rule"
      /\ at # "sampled_reward" => job.topK
  BY DEF SampledReward, DeltaReward, Distill, ColumnsInv, Building
<1>3. "old_log_probs" \in DOMAIN batch /\ DOMAIN batch \cap FromRewards = {}
  BY <1>2 DEF Fits, Has, Lacks, FromPolicy
<1>4. ASSUME NEW rest, NEW new, batch' = With(rest, new), at' = "score",
             DOMAIN rest = DOMAIN batch \ {"rm_scores"}, \A c \in DOMAIN rest : rest[c] = batch[c],
             DOMAIN new \subseteq {"rm_scores"} \cup FromRewards, DenseFits'
      PROVE  TokensInv'
  <2>1. \A c \in Kept : c \notin DOMAIN new /\ c # "rm_scores"
    BY <1>4 DEF Kept, FromRewards
  <2>2. \A c \in Kept : /\ c \in DOMAIN batch' <=> c \in DOMAIN batch
                        /\ c \in DOMAIN batch => batch'[c] = batch[c]
    BY <1>4, <2>1 DEF With
  <2> QED
    BY <1>1, <1>2, <1>3, <1>4, <2>2, TokensKept
<1>5. CASE SampledReward
  <2>1. PICK raw : batch' = With(Drop(batch, {"rm_scores"}), SampledDeltas(raw)) /\ at' = "score"
    BY <1>5, SampledJoins
  <2> DEFINE rest == Drop(batch, {"rm_scores"})
             new == SampledDeltas(raw)
  <2>2. DOMAIN rest = DOMAIN batch \ {"rm_scores"} /\ \A c \in DOMAIN rest : rest[c] = batch[c]
    BY DEF Drop, Restrict
  <2>3. /\ DOMAIN new \subseteq {"rm_scores"} \cup FromRewards
        /\ "rm_scores" \in DOMAIN new /\ new["rm_scores"].ids = Sampled
    BY SampledDeltaAnswers
  <2>4. batch' = With(rest, new) /\ at' = "score"
    BY <2>1
  <2> HIDE DEF rest, new
  <2>5. batch'["rm_scores"].ids = Sampled
    BY <2>3, <2>4 DEF With
  <2>6. DenseFits'
    BY <2>5 DEF DenseFits
  <2> QED
    BY <1>4, <2>2, <2>3, <2>4, <2>6
<1>6. CASE at # "sampled_reward"
  <2>1. "rm_scores" \notin DOMAIN batch /\ UnionColumns \cap DOMAIN batch = {}
    BY <1>2, <1>3, <1>6 DEF Fits, Lacks, UnionColumns, FromRewards
  <2>2. StudentFits
    BY <1>2, <1>6 DEF TokensInv
  <2>3. ASSUME NEW new, batch' = With(batch, new), DOMAIN new \subseteq {"rm_scores"} \cup FromRewards
        PROVE  /\ StudentFits'
               /\ UnionColumns \cap DOMAIN batch' = UnionColumns \cap DOMAIN new
               /\ \A c \in DOMAIN new : batch'[c] = new[c]
    <3>1. \A c \in Kept : c \notin DOMAIN new
      BY <2>3 DEF Kept, FromRewards
    <3>2. DOMAIN batch' = DOMAIN batch \cup DOMAIN new
      BY <2>3 DEF With
    <3>3. \A c \in DOMAIN new : batch'[c] = new[c]
      BY <2>3 DEF With
    <3>4. \A c \in Kept : c \in DOMAIN batch => c \in DOMAIN batch' /\ batch'[c] = batch[c]
      BY <2>3, <3>1 DEF With
    <3> QED
      BY <1>1, <2>1, <2>2, <3>2, <3>3, <3>4 DEF StudentFits, Kept
  <2>4. CASE DeltaReward
    <3>1. PICK raw : batch' = With(batch, Deltas(raw, StudentTop)) /\ at' = "score"
      BY <2>4, DeltaJoins
    <3> DEFINE new == Deltas(raw, StudentTop)
    <3>2. /\ DOMAIN new \subseteq {"rm_scores"} \cup (FromRewards \ {"union_top_k_ids", "union_top_k_log_probs"})
          /\ "rm_scores" \in DOMAIN new /\ new["rm_scores"].ids = StudentTop
      BY DeltaAnswers
    <3>3. batch' = With(batch, new) /\ at' = "score"
      BY <3>1
    <3> HIDE DEF new
    <3>4. StudentFits' /\ UnionColumns \cap DOMAIN batch' = {} /\ batch'["rm_scores"].ids = StudentTop
      BY <2>3, <3>2, <3>3 DEF UnionColumns
    <3>5. DenseFits'
      BY <3>4 DEF DenseFits, UnionColumns
    <3> QED
      BY <1>4, <2>1, <3>2, <3>3, <3>5
  <2>5. CASE Distill /\ Distills(job.strategy)
    <3> DEFINE reward == Distilled(job.strategy, StudentTop, teachers.T, teachers.N)
               new == DistillationColumns(reward)
    <3>1. batch' = With(batch, new) /\ at' = "score"
      BY <2>5, DistillJoins
    <3>2. /\ "rm_scores" \in DOMAIN new /\ new["rm_scores"].ids = reward.ids
          /\ DOMAIN new \subseteq {"rm_scores", "student_log_probs_on_teacher_ids"} \cup UnionColumns
          /\ job.strategy \in {"only_stu", "intersection"} => DOMAIN new \cap UnionColumns = {}
          /\ job.strategy = "only_tch" =>
              /\ DOMAIN new \cap UnionColumns = {"union_top_k_ids"}
              /\ new["union_top_k_ids"].ids = teachers.T
          /\ job.strategy \in Unions =>
              /\ UnionColumns \subseteq DOMAIN new
              /\ \A c \in UnionColumns : new[c].ids = reward.ids /\ new[c].by = version
      BY DistillationAnswers
    <3>3. /\ job.strategy \in {"only_stu", "intersection"} => reward.ids = StudentTop
          /\ job.strategy = "only_tch" => reward.ids = teachers.T
      BY DEF Distilled, Unions
    <3>4. job.mode = "opd_kl" /\ job.topK
      BY <2>5 DEF Distill, ColumnsInv
    <3> HIDE DEF new, reward
    <3>5. DOMAIN new \subseteq {"rm_scores"} \cup FromRewards
      BY <3>2 DEF FromRewards, UnionColumns
    <3>6. /\ StudentFits' /\ UnionColumns \cap DOMAIN batch' = UnionColumns \cap DOMAIN new
          /\ \A c \in DOMAIN new : batch'[c] = new[c]
      BY <2>3, <3>1, <3>5
    <3>7. batch'["rm_scores"].ids = reward.ids
      BY <3>2, <3>6
    <3>8. DenseFits'
      <4>1. CASE job.strategy \in {"only_stu", "intersection"}
        BY <3>2, <3>3, <3>6, <3>7, <4>1 DEF DenseFits, UnionColumns
      <4>2. CASE job.strategy = "only_tch"
        <5>1. "union_top_k_ids" \in DOMAIN batch' /\ batch'["union_top_k_ids"].ids = reward.ids
          BY <3>2, <3>3, <3>6, <4>2
        <5>2. OnlyTeachers'
          BY <1>1, <3>4, <4>2 DEF OnlyTeachers
        <5> QED
          BY <3>7, <5>1, <5>2 DEF DenseFits, UnionFits
      <4>3. CASE job.strategy \in Unions
        <5>1. \A c \in UnionColumns : c \in DOMAIN batch' /\ batch'[c].ids = reward.ids /\ batch'[c].by = version
          BY <3>2, <3>6, <4>3
        <5> QED
          BY <1>1, <3>7, <5>1 DEF DenseFits, UnionFits, UnionColumns
      <4> QED
        BY <2>5, <4>1, <4>2, <4>3 DEF Distills
    <3> QED
      BY <1>4, <2>1, <3>1, <3>5, <3>8 DEF new, reward
  <2>6. CASE Distill /\ ~Distills(job.strategy)
    BY <2>6, TokensOutside DEF Distill, Raise, Building, Baseline
  <2> QED
    BY <1>5, <1>6, <2>4, <2>5, <2>6 DEF SampledReward
<1>7. SampledReward \/ at # "sampled_reward"
  BY DEF DeltaReward, Distill
<1> QED
  BY <1>5, <1>6, <1>7
\* The old log-probabilities are the rollout's, the policy's, or a rule's own.
LEMMA TokensOld ==
  ASSUME ConfigInv, ColumnsInv, TokensInv, OldLogProb
  PROVE  TokensInv'
<1> USE DEF At
<1>1. job' = job /\ setup' = setup /\ version' = version
  BY DriverKeepsVersion, ConfigStep DEF Driver, Next
<1>2. at = "score" /\ Fits("score") /\ DenseFits
  BY DEF OldLogProb, ColumnsInv, TokensInv, Building, Rewarded
<1>3. /\ EngineFollows /\ "rollout_log_probs" \in DOMAIN batch => OfToken("rollout_log_probs")
      /\ job.mode # "rule" => OfToken("old_log_probs")
  BY <1>2 DEF TokensInv, Building
<1>4. CASE at' = "raised"
  BY <1>4, TokensOutside DEF Building, Baseline
<1>5. CASE at' # "raised"
  <2> DEFINE rest == Drop(batch, Counts)
  <2>1. DOMAIN rest = DOMAIN batch \ Counts /\ \A c \in DOMAIN rest : rest[c] = batch[c]
    BY DEF Drop, Restrict
  <2>2. Counts \cap (Telling \cup {"rollout_log_probs", "old_log_probs"}) = {}
    BY DEF Counts, Telling, UnionColumns
  <2>3. ASSUME \A c \in Telling \cup {"rollout_log_probs"} :
                  /\ c \in DOMAIN batch' <=> c \in DOMAIN batch
                  /\ c \in DOMAIN batch => batch'[c] = batch[c],
               (job.bypass => EngineFollows) => OfToken("old_log_probs")'
        PROVE  TokensInv'
    <3>1. DenseFits'
      BY <1>1, <1>2, <2>3, DenseKept
    <3>2. EngineFollows' /\ "rollout_log_probs" \in DOMAIN batch' => OfToken("rollout_log_probs")'
      BY <1>1, <1>3, <2>3 DEF EngineFollows, OfToken
    <3>3. at' = "ref" /\ EngineFollows' = EngineFollows
      BY <1>1, <1>5, OldJoins DEF EngineFollows
    <3> QED
      BY <1>1, <2>3, <3>1, <3>2, <3>3 DEF TokensInv, Rewarded
  <2>4. CASE job.bypass /\ "rollout_log_probs" \in DOMAIN batch
             /\ batch' = With(rest, [c \in {"old_log_probs"} |-> batch["rollout_log_probs"]])
    <3> HIDE DEF rest
    <3>1. /\ DOMAIN batch' = DOMAIN rest \cup {"old_log_probs"}
          /\ batch'["old_log_probs"] = batch["rollout_log_probs"]
          /\ \A c \in DOMAIN rest \ {"old_log_probs"} : batch'[c] = rest[c]
      BY <2>4 DEF With
    <3>2. "old_log_probs" \notin Telling \cup {"rollout_log_probs"}
      BY DEF Telling, UnionColumns
    <3>3. \A c \in Telling \cup {"rollout_log_probs"} :
                  /\ c \in DOMAIN batch' <=> c \in DOMAIN batch
                  /\ c \in DOMAIN batch => batch'[c] = batch[c]
      BY <2>1, <2>2, <3>1, <3>2
    <3>4. (job.bypass => EngineFollows) => OfToken("old_log_probs")'
      BY <1>1, <1>3, <2>4, <3>1 DEF OfToken
    <3> QED
      BY <2>3, <3>3, <3>4
  <2>5. CASE ~job.bypass /\ job.mode # "rule" /\ batch' = Drop(rest, {"entropys"})
    <3> HIDE DEF rest
    <3>1. DOMAIN batch' = DOMAIN rest \ {"entropys"} /\ \A c \in DOMAIN batch' : batch'[c] = rest[c]
      BY <2>5 DEF Drop, Restrict
    <3>2. "old_log_probs" \in DOMAIN batch
      BY <1>2, <2>5 DEF Fits, Has, FromPolicy
    <3>3. "entropys" \notin Telling \cup {"rollout_log_probs", "old_log_probs"}
      BY DEF Telling, UnionColumns
    <3>4. \A c \in Telling \cup {"rollout_log_probs", "old_log_probs"} :
                  /\ c \in DOMAIN batch' <=> c \in DOMAIN batch
                  /\ c \in DOMAIN batch => batch'[c] = batch[c]
      BY <2>1, <2>2, <3>1, <3>3
    <3>5. OfToken("old_log_probs")'
      BY <1>1, <1>3, <2>5, <3>2, <3>4 DEF OfToken
    <3> QED
      BY <2>3, <3>4, <3>5
  <2>6. CASE ~job.bypass /\ job.mode = "rule" /\ batch' = With(rest, Drop(LogProbColumns, {"entropys"}))
    <3> DEFINE new == Drop(LogProbColumns, {"entropys"})
    <3> DEFINE cols == LogProbColumns
    <3>1. /\ DOMAIN cols = FromPolicy
          /\ cols["old_log_probs"].ids = Sampled /\ cols["old_log_probs"].by = version
      BY PolicyAnswers
    <3> HIDE DEF cols
    <3>2. DOMAIN new = DOMAIN cols \ {"entropys"} /\ \A c \in DOMAIN new : new[c] = cols[c]
      BY DEF Drop, Restrict, cols
    <3>3. /\ DOMAIN new = FromPolicy \ {"entropys"}
          /\ new["old_log_probs"].ids = Sampled /\ new["old_log_probs"].by = version
      BY <3>1, <3>2 DEF FromPolicy
    <3> HIDE DEF rest, new
    <3>4. /\ DOMAIN batch' = DOMAIN rest \cup DOMAIN new
          /\ \A c \in DOMAIN new : batch'[c] = new[c]
          /\ \A c \in DOMAIN rest \ DOMAIN new : batch'[c] = rest[c]
      BY <2>6 DEF With, new
    <3>5. "rm_scores" \notin DOMAIN batch
      BY <1>2, <2>6 DEF Fits, Lacks
    <3>6. "rm_scores" \notin DOMAIN batch' /\ "rollout_log_probs" \notin DOMAIN new /\ "old_log_probs" \in DOMAIN new
      BY <2>1, <3>3, <3>4, <3>5 DEF FromPolicy, OfStudent
    <3>7. OfToken("old_log_probs")'
      BY <1>1, <3>3, <3>4, <3>6 DEF OfToken
    <3>8. EngineFollows /\ "rollout_log_probs" \in DOMAIN batch' => OfToken("rollout_log_probs")'
      BY <1>1, <1>3, <2>1, <2>2, <3>4, <3>6 DEF OfToken
    <3> QED
      BY <1>1, <1>5, <3>6, <3>7, <3>8, OldJoins DEF TokensInv, DenseFits, EngineFollows, Rewarded
  <2> QED
    BY <1>5, <2>4, <2>5, <2>6, OldJoins
<1> QED
  BY <1>4, <1>5

\* The reference's column and the advantages leave the others; the advantages
\* are of the reward's ids.
LEMMA TokensLater ==
  ASSUME ConfigInv, ColumnsInv, TokensInv, RefLogProb \/ Advantages
  PROVE  TokensInv'
<1> USE DEF At
<1>1. job' = job /\ setup' = setup /\ version' = version
  BY DriverKeepsVersion, ConfigStep DEF Driver, Next
<1>2. at \in {"ref", "adv"} /\ Fits(at) /\ DenseFits /\ ((job.bypass => EngineFollows) => OfToken("old_log_probs"))
  BY DEF RefLogProb, Advantages, ColumnsInv, TokensInv, Building, Rewarded
<1>3. EngineFollows /\ "rollout_log_probs" \in DOMAIN batch => OfToken("rollout_log_probs")
  BY <1>2 DEF TokensInv, Building
<1>4. "old_log_probs" \in DOMAIN batch
  BY <1>2 DEF Fits, Has
<1>5. ASSUME at' \in {"adv", "update"},
             \A c \in Telling \cup {"rollout_log_probs", "old_log_probs"} :
                  /\ c \in DOMAIN batch' <=> c \in DOMAIN batch
                  /\ c \in DOMAIN batch => batch'[c] = batch[c],
             at' = "update" => batch'["advantages"].ids =
                                 IF "rm_scores" \in DOMAIN batch THEN batch["rm_scores"].ids ELSE Sampled
      PROVE  TokensInv'
  <2>1. DenseFits'
    BY <1>1, <1>2, <1>5, DenseKept
  <2>2. EngineFollows' /\ "rollout_log_probs" \in DOMAIN batch' => OfToken("rollout_log_probs")'
    BY <1>1, <1>3, <1>5 DEF EngineFollows, OfToken
  <2>3. (job'.bypass => EngineFollows') => OfToken("old_log_probs")'
    BY <1>1, <1>2, <1>4, <1>5 DEF EngineFollows, OfToken
  <2>4. at' = "update" => batch'["advantages"].ids =
                            IF "rm_scores" \in DOMAIN batch' THEN batch'["rm_scores"].ids ELSE Sampled
    BY <1>5 DEF Telling
  <2> QED
    BY <1>5, <2>1, <2>2, <2>3, <2>4 DEF TokensInv, Rewarded
<1>6. CASE RefLogProb
  <2>1. at' = "adv" \/ at' = "raised"
    BY <1>6 DEF RefLogProb, Join
  <2>2. CASE at' = "raised"
    BY <2>2, TokensOutside DEF Building, Baseline
  <2>3. CASE at' = "adv"
    <3> DEFINE new == Columns({"ref_log_prob"}, Sampled, 0)
    <3>1. batch' = batch \/ batch' = With(batch, new)
      BY <1>6, <2>3 DEF RefLogProb, Join
    <3>2. DOMAIN new = {"ref_log_prob"}
      BY ColumnsMade
    <3>3. "ref_log_prob" \notin Telling \cup {"rollout_log_probs", "old_log_probs"}
      BY DEF Telling, UnionColumns
    <3> HIDE DEF new
    <3>4. \A c \in Telling \cup {"rollout_log_probs", "old_log_probs"} :
                  /\ c \in DOMAIN batch' <=> c \in DOMAIN batch
                  /\ c \in DOMAIN batch => batch'[c] = batch[c]
      BY <3>1, <3>2, <3>3 DEF With
    <3> QED
      BY <1>5, <2>3, <3>4
  <2> QED
    BY <2>1, <2>2, <2>3
<1>7. CASE Advantages
  <2> DEFINE ids == IF "rm_scores" \in DOMAIN batch THEN batch["rm_scores"].ids ELSE Sampled
             new == Columns({"advantages"}, ids, version)
             grown == With(batch, new)
  <2>1. batch' = Drop(grown, PoppedBeforeUpdate) /\ at' = "update"
    BY <1>7 DEF Advantages
  <2>2. DOMAIN new = {"advantages"} /\ new["advantages"].ids = ids
    BY ColumnsMade
  <2>3. (Telling \cup {"rollout_log_probs", "old_log_probs", "advantages"}) \cap PoppedBeforeUpdate = {}
        /\ "advantages" \notin Telling \cup {"rollout_log_probs", "old_log_probs"}
    BY DEF Telling, UnionColumns, PoppedBeforeUpdate
  <2> HIDE DEF ids, new
  <2>4. /\ DOMAIN grown = DOMAIN batch \cup {"advantages"}
        /\ grown["advantages"] = new["advantages"]
        /\ \A c \in DOMAIN batch \ {"advantages"} : grown[c] = batch[c]
    BY <2>2 DEF With
  <2> HIDE DEF grown
  <2>5. DOMAIN batch' = DOMAIN grown \ PoppedBeforeUpdate /\ \A c \in DOMAIN batch' : batch'[c] = grown[c]
    BY <2>1, DropColumns
  <2>6. \A c \in Telling \cup {"rollout_log_probs", "old_log_probs"} :
                  /\ c \in DOMAIN batch' <=> c \in DOMAIN batch
                  /\ c \in DOMAIN batch => batch'[c] = batch[c]
    BY <2>3, <2>4, <2>5
  <2>7. batch'["advantages"].ids = ids
    BY <2>2, <2>3, <2>4, <2>5
  <2> QED
    BY <1>5, <2>1, <2>6, <2>7 DEF ids
<1> QED
  BY <1>6, <1>7
\* fit starts without a batch.
LEMMA TokensInit == Init => TokensInv
BY DEF Init, TokensInv, Baseline, Building, Rewarded

\* Every step leaves the columns of one step of the same tokens.
LEMMA TokensStep ==
  ASSUME TrainInv, ConfigInv, ColumnsInv, PolicyStays, Fresh, TokensInv, [Next]_vars
  PROVE  TokensInv'
<1> USE DEF At, NoCall
<1>1. job' = job /\ setup' = setup
  BY ConfigStep
<1>2. CASE Workers
  <2>1. at' = at /\ purpose' = purpose /\ batch' = batch
    BY <1>2 DEF Workers, driverVars
  <2>2. at' \in Building \/ Baseline' => version' = version
    BY <1>2, <2>1, WorkersKeepVersion DEF Baseline
  <2>3. Baseline' => Baseline
    BY <2>1 DEF Baseline
  <2> QED
    BY <1>1, <2>1, <2>2, <2>3, TokensSame
<1>3. CASE UNCHANGED vars
  BY <1>1, <1>3, TokensSame DEF vars, driverVars, workerVars, Baseline
<1>4. CASE Generates \/ WakeEngines \/ ServeLoops \/ SleepEngines
  <2>1. version' = version
    BY <1>4, DriverKeepsVersion DEF Driver
  <2>2. batch' = batch /\ at' \notin Building /\ (Baseline' => Baseline)
    BY <1>4 DEF Generates, WakeEngines, ServeLoops, SleepEngines, Building, Baseline
  <2> QED
    BY <1>1, <2>1, <2>2, TokensSame
<1>5. CASE Load \/ FirstStep \/ UpdateActor \/ Save \/ Validate \/ Finish
  <2>1. at' \notin Building /\ ~Baseline'
    BY <1>5 DEF Load, FirstStep, UpdateActor, Save, Validate, Finish, Building, Baseline
  <2> QED
    BY <2>1, TokensOutside
<1> QED
  BY <1>2, <1>3, <1>4, <1>5, TokensReceived, TokensFirst, TokensTeacher, TokensReward, TokensOld, TokensLater
     DEF Next, Driver

\* No job trains more than once on a batch whose reward is of the teacher's tokens
\* alone, or whose denominator is from an engine that does not follow the policy.
DenominatorsFit ==
  \A j \in Jobs : j.offPolicy =>
    /\ ~(j.mode = "opd_kl" /\ j.topK /\ j.strategy = "only_tch")
    /\ j.bypass => /\ j.setup.async => j.setup.freeCache
                   /\ j.setup.lora /\ j.setup.dummy => j.setup.resumed = 0

\* The loss of an update is of the same tokens throughout.
LEMMA LossFits ==
  ASSUME DenominatorsFit, ConfigInv, ColumnsInv, TokensInv, at = "update"
  PROVE  LET l == LossInputs IN l.new = l.advantages /\ l.old = l.advantages /\ l.oldBy = l.version
<1>1. /\ DenseFits
      /\ (job.bypass => EngineFollows) => OfToken("old_log_probs")
      /\ batch["advantages"].ids = IF "rm_scores" \in DOMAIN batch THEN batch["rm_scores"].ids ELSE Sampled
  BY DEF TokensInv, Rewarded
<1>2. job.offPolicy => (job.bypass => EngineFollows) /\ ~OnlyTeachers
  BY DEF DenominatorsFit, ConfigInv, EngineFollows, OnlyTeachers
<1>3. CASE batch["advantages"].ids = Sampled
  BY <1>1, <1>2, <1>3 DEF LossInputs, OfToken, Column
<1>4. CASE batch["advantages"].ids # Sampled
  <2> DEFINE ids == batch["rm_scores"].ids
  <2>1. "rm_scores" \in DOMAIN batch /\ batch["advantages"].ids = ids /\ ids # Sampled
    BY <1>1, <1>4
  <2>2. CASE ids = StudentTop /\ StudentFits /\ UnionColumns \cap DOMAIN batch = {}
    <3>1. "union_top_k_ids" \notin DOMAIN batch /\ "union_top_k_log_probs" \notin DOMAIN batch
      BY <2>2 DEF UnionColumns
    <3> QED
      BY <2>1, <2>2, <3>1 DEF LossInputs, StudentFits, Column
  <2>3. CASE UnionFits(ids)
    BY <1>2, <2>1, <2>3 DEF LossInputs, UnionFits, Column
  <2> QED
    BY <1>1, <2>1, <2>2, <2>3 DEF DenseFits
<1> QED
  BY <1>3, <1>4

\* No action leaves a loss that is of different tokens.
LEMMA RatioStep ==
  ASSUME DenominatorsFit, ConfigInv, ColumnsInv, TokensInv, RatioSameTokens, [Next]_vars
  PROVE  RatioSameTokens'
<1> USE DEF At
<1>1. ASSUME loss' = loss PROVE RatioSameTokens'
  BY <1>1 DEF RatioSameTokens
<1>2. CASE UpdateActor
  <2>1. loss' = loss \/ loss' = {LossInputs}
    BY <1>2 DEF UpdateActor
  <2>2. at = "update"
    BY <1>2 DEF UpdateActor
  <2> QED
    BY <1>1, <2>1, <2>2, LossFits DEF RatioSameTokens
<1>3. CASE Finish
  BY <1>3 DEF Finish, RatioSameTokens
<1>4. CASE OldLogProb
  BY <1>1, <1>4 DEF OldLogProb, Raise
<1>5. CASE Driver /\ ~UpdateActor /\ ~Finish /\ ~OldLogProb
  BY <1>1, <1>5
     DEF Driver, Load, FirstStep, Generates, WakeEngines, ServeLoops, SleepEngines, Received,
         FirstLogProb, Teacher, SampledReward, DeltaReward, Distill, RefLogProb, Advantages, Save, Validate
<1>6. CASE Workers \/ UNCHANGED vars
  BY <1>1, <1>6 DEF Workers, vars, driverVars
<1> QED
  BY <1>2, <1>3, <1>4, <1>5, <1>6 DEF Next

\* The advantage, the log-probability under the policy trained and the one in the
\* ratio's denominator are of the same tokens, and the denominator is of the
\* policy as the update finds it: in every reward mode, strategy and setup but the
\* ones that DenominatorsFit names.
THEOREM LossOfSameTokens ==
  ASSUME DenominatorsFit
  PROVE  Spec => []RatioSameTokens
<1> DEFINE Inv == TrainInv /\ ConfigInv /\ ColumnsInv /\ PolicyStays /\ Fresh /\ TokensInv /\ RatioSameTokens
<1>1. Init => Inv
  <2>1. Init => RatioSameTokens
    BY DEF Init, RatioSameTokens
  <2> QED
    BY <2>1, DriverInit, TypeInit, MethodInit, ConfigInit, ColumnsInit, FreshInit, TokensInit DEF Init, TrainInv
<1>2. Spec => []RolloutsFromLatest
  BY TrainingIsSound, PTL
<1>3. Inv /\ RolloutsFromLatest /\ [Next]_vars => Inv'
  BY TrainStep, ConfigStep, ColumnsStep, PolicyStaysStep, FreshStep, TokensStep, RatioStep
<1>4. Inv => RatioSameTokens
  OBVIOUS
<1> QED
  BY <1>1, <1>2, <1>3, <1>4, PTL DEF Spec
=============================================================================
