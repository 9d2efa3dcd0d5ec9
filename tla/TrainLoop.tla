------------------------------ MODULE TrainLoop ------------------------------
(***************************************************************************)
(* RayPPOTrainer.fit and _validate over the actor-rollout workers: the     *)
(* calls the driver makes, in their order, and the batch it grows column   *)
(* by column between them.                                                 *)
(*                                                                         *)
(* A column tells what computed it (of), which token ids its last          *)
(* dimension ranges over (ids), and the version of the policy that         *)
(* computed it (by).  A two-dimensional tensor ranges over the sampled     *)
(* token alone.  The student's top-k ids S are fixed and the teachers'     *)
(* vary: a renaming of the vocabulary turns any ids into these.            *)
(*                                                                         *)
(* An answer is joined to the batch in the step that makes the call: the   *)
(* driver looks at neither before all ranks are idle again.                *)
(***************************************************************************)
EXTENDS HybridWorker, DistillationReward, FiniteSets

CONSTANTS Jobs,       \* the configurations a job may have
          StudentTop, \* S
          TeacherTops \* the T and R a teacher may have

\* torch.topk never returns an id twice.
ASSUME TopsAssumption ==
  /\ StudentTop \in Seq(Nat) /\ IsInjective(StudentTop)
  /\ \A T \in TeacherTops : T \in Seq(Nat) /\ IsInjective(T)

VARIABLES job,
          at,         \* the driver's place in fit
          purpose,    \* what the responses are generated for
          step,       \* global_steps
          batch,
          teachers,   \* the ids T and R and the nucleus N of the step
          scored,     \* the dense reward: a set of at most one
          loss        \* what the policy loss got: a set of at most one

driverVars == <<job, at, purpose, step, batch, teachers, scored, loss>>
vars == <<workerVars, driverVars>>

Sampled == <<0>>

Column(of, ids, by) == [of |-> of, ids |-> ids, by |-> by]
Columns(names, ids, by) == [c \in names |-> Column(c, ids, by)]

With(old, new) ==
  [c \in DOMAIN old \cup DOMAIN new |-> IF c \in DOMAIN new THEN new[c] ELSE old[c]]
Drop(cols, names) == Restrict(cols, DOMAIN cols \ names)

\* DataProto.union asserts that a column both have is the same in both.
CanUnion(old, new) == \A c \in DOMAIN old \cap DOMAIN new : old[c] = new[c]

-----------------------------------------------------------------------------

Init ==
  /\ WorkerInit
  /\ job \in Jobs
  /\ setup = job.setup
  /\ at = "load"
  /\ purpose = "train"
  /\ step = 0
  /\ batch = <<>>
  /\ teachers = <<>>
  /\ scored = {}
  /\ loss = {}

\* Every step of the driver waits for the call before it.
At(place) == at = place /\ Idle
NoCall == UNCHANGED workerVars

\* _load_checkpoint, and the validation fit may start with.
Load ==
  /\ At("load")
  /\ IF setup.resumed > 0 THEN Call("load_checkpoint") ELSE NoCall
  /\ step' = setup.resumed
  /\ at' = IF job.valBefore THEN "generate" ELSE "first_step"
  /\ purpose' = IF job.valBefore THEN "val_before" ELSE "train"
  /\ UNCHANGED <<job, batch, teachers, scored, loss>>

FirstStep ==
  /\ At("first_step")
  /\ NoCall
  /\ step' = step + 1
  /\ at' = "generate"
  /\ purpose' = "train"
  /\ UNCHANGED <<job, batch, teachers, scored, loss>>

-----------------------------------------------------------------------------
\* generate_sequences, of the worker group or of the agent loop manager.

Generates ==
  /\ At("generate")
  /\ ~setup.async
  /\ Call("generate_sequences")
  /\ at' = "received"
  /\ UNCHANGED <<job, purpose, step, batch, teachers, scored, loss>>

WakeEngines ==
  /\ At("generate")
  /\ setup.async
  /\ IF setup.freeCache THEN Call("wake_up") ELSE NoCall
  /\ at' = "serve"
  /\ UNCHANGED <<job, purpose, step, batch, teachers, scored, loss>>

ServeLoops ==
  /\ At("serve")
  /\ Serve
  /\ at' = "sleep"
  /\ UNCHANGED <<job, purpose, step, batch, teachers, scored, loss>>

\* Mutant of SleepEngines: validation leaves the engines awake.
SleepAfterTraining ==
  /\ At("sleep")
  /\ IF setup.freeCache /\ purpose = "train" THEN Call("sleep") ELSE NoCall
  /\ at' = "received"
  /\ UNCHANGED <<job, purpose, step, batch, teachers, scored, loss>>

SleepEngines ==
  /\ At("sleep")
  /\ IF setup.freeCache THEN Call("sleep") ELSE NoCall
  /\ at' = "received"
  /\ UNCHANGED <<job, purpose, step, batch, teachers, scored, loss>>

EngineVersion == rollouts[CHOOSE r \in Ranks : TRUE]

Responses ==
  Columns({"responses", "response_mask"} \cup (IF job.rolloutLogProbs THEN {"rollout_log_probs"} ELSE {}),
          Sampled, EngineVersion)

\* The responses are in.  Those of REMAX's greedy baseline are popped again
\* and leave a column behind.
Received ==
  /\ At("received")
  /\ NoCall
  /\ CASE purpose = "val_before" -> at' = (IF job.valOnly THEN "done" ELSE "first_step") /\ UNCHANGED <<batch, purpose>>
       [] purpose = "val"        -> at' = "finish" /\ UNCHANGED <<batch, purpose>>
       [] purpose = "baseline"   ->
            /\ batch' = With(batch, Columns({"reward_baselines"}, Sampled, version))
            /\ at' = "reward"
            /\ UNCHANGED purpose
       [] purpose = "train" ->
            /\ batch' = Responses
            /\ at' = IF job.remax THEN "generate" ELSE "reward"
            /\ purpose' = IF job.remax THEN "baseline" ELSE purpose
  /\ UNCHANGED <<job, step, teachers, scored, loss>>

-----------------------------------------------------------------------------
\* The reward phase.

\* The worker reads these columns and the driver unites its answer with the
\* batch; a missing column or a union of different columns ends the job.
Join(rest, reads, new, next) ==
  IF reads \subseteq DOMAIN batch /\ CanUnion(rest, new)
    THEN batch' = With(rest, new) /\ at' = next
    ELSE at' = "raised" /\ UNCHANGED batch

Raise == at' = "raised" /\ UNCHANGED <<workerVars, batch, scored>>

LogProbColumns ==
  With(Columns({"old_log_probs", "entropys"}, Sampled, version),
       IF job.topK THEN Columns({"student_top_k_ids", "student_top_k_log_probs", "student_valid_counts"},
                                StudentTop, version)
                   ELSE <<>>)

FirstLogProb ==
  /\ At("reward")
  /\ IF job.mode = "rule" THEN NoCall /\ at' = "score" /\ UNCHANGED batch
                          ELSE Call("compute") /\ Join(batch, {"responses"}, LogProbColumns, "teacher")
  /\ UNCHANGED <<job, purpose, step, teachers, scored, loss>>

\* What compute_rm_score returns for a teacher with top-k ids top.
TeacherColumns(teacher, top) ==
  LET Of(names, ids) == [c \in names |-> Column(teacher, ids, version)]
  IN  With(Of({"teacher_sampled_log_probs", "teacher_entropy"}, Sampled),
           IF job.topK
             THEN With(Of({"teacher_on_student_log_probs", "overlap_mask", "teacher_valid_counts"}, StudentTop),
                       Of({"teacher_top_k_ids", "teacher_top_k_log_probs", "teacher_in_student_mask"}, top))
             ELSE Of({"rm_scores"}, Sampled))

TeacherReads == {"responses", "response_mask", "old_log_probs"}

\* The nuclei of a teacher: some of its top-k tokens, or those and more.
Nuclei(T) ==
  IF job.topK /\ job.strategy \in TopP
    THEN {{T[i] : i \in 1 .. n} : n \in DOMAIN T} \cup {{T[i] : i \in DOMAIN T} \cup {StudentTop[1]}}
    ELSE {{T[i] : i \in DOMAIN T}}

Teacher ==
  /\ At("teacher")
  /\ NoCall
  /\ IF job.mode = "delta_opd" /\ ~job.topK
       THEN at' = "raised" /\ UNCHANGED <<batch, teachers>>
       ELSE \E T \in TeacherTops : \E N \in Nuclei(T) :
              /\ teachers' = [T |-> T, N |-> N]
              /\ Join(batch, TeacherReads, TeacherColumns("teacher", T),
                      CASE job.mode = "delta_opd_sampled" -> "sampled_reward"
                        [] job.mode = "delta_opd"         -> "delta_reward"
                        [] job.mode = "opd_kl" /\ job.topK -> "distill"
                        [] OTHER                          -> "score")
  /\ UNCHANGED <<job, purpose, step, scored, loss>>

\* A column of the reference teacher, under the name the batch gets it by.
Renamed(raw, name, as) == IF name \in DOMAIN raw THEN [c \in {as} |-> raw[name]] ELSE <<>>
OfReference(raw) ==
  With(Renamed(raw, "teacher_on_student_log_probs", "teacher_ref_on_student_log_probs"),
       With(Renamed(raw, "teacher_entropy", "teacher_ref_entropy"),
            Renamed(raw, "overlap_mask", "teacher_ref_overlap_mask")))

SampledReward ==
  /\ At("sampled_reward")
  /\ NoCall
  /\ \E R \in TeacherTops :
       LET raw == TeacherColumns("reference", R)
           delta == [c \in {"rm_scores", "delta_opd_sampled_log_ratio"} |-> Column("delta", Sampled, version)]
           new == With(With(delta, Renamed(raw, "teacher_sampled_log_probs", "teacher_ref_sampled_log_probs")),
                       OfReference(raw))
       IN  Join(Drop(batch, {"rm_scores"}), TeacherReads \cup {"teacher_sampled_log_probs"}, new, "score")
  /\ UNCHANGED <<job, purpose, step, teachers, scored, loss>>

DeltaReward ==
  /\ At("delta_reward")
  /\ Call("compute")
  /\ \E R \in TeacherTops :
       LET raw == TeacherColumns("reference", R)
           reward == DeltaScored(job.strategy, StudentTop, teachers.T, R, teachers.N)
           new == With(OfReference(raw),
                       With([c \in {"rm_scores", "delta_log_ratio"} |-> Column("delta", reward.ids, version)],
                            Columns({"js_divergence"}, Sampled, version)))
       IN  /\ scored' = {reward}
           /\ Join(batch, TeacherReads \cup {"student_top_k_log_probs", "teacher_on_student_log_probs"}, new, "score")
  /\ UNCHANGED <<job, purpose, step, teachers, loss>>

DistillationReads ==
  {"student_top_k_ids", "student_top_k_log_probs", "teacher_on_student_log_probs"}
    \cup (IF job.strategy = "only_stu" THEN {} ELSE {"teacher_top_k_ids", "overlap_mask"})
    \cup (IF job.strategy \in {"union", "union-intersection"}
            THEN {"teacher_top_k_log_probs", "teacher_in_student_mask"} ELSE {})

\* Mutant of DistillationColumns: the log-probabilities over the union are not kept.
DistillationColumnsWithoutUnion(reward) ==
  With([c \in {"rm_scores"} |-> Column("distilled", reward.ids, version)],
       CASE job.strategy = "only_tch" -> Columns({"union_top_k_ids"}, teachers.T, version)
         [] job.strategy \in {"union", "union-intersection"} -> Columns({"union_top_k_ids"}, reward.ids, version)
         [] OTHER -> <<>>)

DistillationColumns(reward) ==
  With([c \in {"rm_scores"} |-> Column("distilled", reward.ids, version)],
       CASE job.strategy = "only_tch" -> Columns({"union_top_k_ids"}, teachers.T, version)
         [] job.strategy \in {"union", "union-intersection"} ->
              With(Columns({"union_top_k_ids", "union_top_k_log_probs"}, reward.ids, version),
                   Columns({"student_log_probs_on_teacher_ids"}, teachers.T, version))
         [] OTHER -> <<>>)

\* compute_distillation_reward, which leaves rm_scores unassigned for a
\* strategy it has no branch for.
Distill ==
  /\ At("distill")
  /\ IF ~Distills(job.strategy) THEN Raise
     ELSE LET reward == Distilled(job.strategy, StudentTop, teachers.T, teachers.N)
          IN  /\ Call("compute")
              /\ scored' = {reward}
              /\ Join(batch, DistillationReads, DistillationColumns(reward), "score")
  /\ UNCHANGED <<job, purpose, step, teachers, loss>>

-----------------------------------------------------------------------------
\* From the old log-probabilities to the advantages.

OldLogProb ==
  /\ At("score")
  /\ LET rest == Drop(batch, {"student_valid_counts", "teacher_valid_counts"})
     IN  CASE job.bypass /\ "rollout_log_probs" \notin DOMAIN batch -> Raise
           [] job.bypass /\ "rollout_log_probs" \in DOMAIN batch ->
                /\ NoCall
                /\ batch' = With(rest, [c \in {"old_log_probs"} |-> batch["rollout_log_probs"]])
                /\ at' = "ref"
           [] ~job.bypass /\ {"old_log_probs", "entropys"} \subseteq DOMAIN batch ->
                /\ NoCall
                /\ batch' = Drop(rest, {"entropys"})
                /\ at' = "ref"
           [] OTHER ->
                /\ Call("compute")
                /\ Join(rest, {"responses"}, Drop(LogProbColumns, {"entropys"}), "ref")
  /\ UNCHANGED <<job, purpose, step, teachers, scored, loss>>

\* The reference policy: a LoRA actor without its adapter, or a model of its own.
RefLogProb ==
  /\ At("ref")
  /\ IF job.useRef /\ setup.lora THEN Call("compute") ELSE NoCall
  /\ IF job.useRef THEN Join(batch, {"responses"}, Columns({"ref_log_prob"}, Sampled, 0), "adv")
                   ELSE at' = "adv" /\ UNCHANGED batch
  /\ UNCHANGED <<job, purpose, step, teachers, scored, loss>>

\* Mutant of PoppedBeforeUpdate: the divergence goes with the teachers' columns.
PoppedToo ==
  {"teacher_on_student_log_probs", "teacher_top_k_ids", "teacher_top_k_log_probs", "teacher_entropy",
   "overlap_mask", "teacher_in_student_mask", "student_log_probs_on_teacher_ids", "js_divergence"}

PoppedBeforeUpdate ==
  {"teacher_on_student_log_probs", "teacher_top_k_ids", "teacher_top_k_log_probs", "teacher_entropy",
   "overlap_mask", "teacher_in_student_mask", "student_log_probs_on_teacher_ids"}

\* The reward managers return rm_scores when the batch has them; token rewards
\* keep their shape as advantages.
Advantages ==
  /\ At("adv")
  /\ NoCall
  /\ LET ids == IF "rm_scores" \in DOMAIN batch THEN batch["rm_scores"].ids ELSE Sampled
     IN  batch' = Drop(With(batch, Columns({"advantages"}, ids, version)), PoppedBeforeUpdate)
  /\ at' = "update"
  /\ UNCHANGED <<job, purpose, step, teachers, scored, loss>>

-----------------------------------------------------------------------------
\* The update, and the end of a step.

UpdateReads ==
  {"responses", "response_mask", "old_log_probs", "advantages"}
    \cup (IF job.useRef THEN {"ref_log_prob"} ELSE {})
    \cup (IF job.jsFilter THEN {"js_divergence"} ELSE {})

\* The token ids the loss ranges over: of the advantages, of the
\* log-probabilities under the policy trained, and of those in the ratio's
\* denominator, with the version they are from.
LossInputs ==
  LET advantages == batch["advantages"].ids
      dense == advantages # Sampled
      new == IF dense
               THEN (IF "union_top_k_ids" \in DOMAIN batch THEN batch["union_top_k_ids"]
                                                          ELSE batch["student_top_k_ids"]).ids
               ELSE Sampled
      old == IF ~job.offPolicy THEN Column("policy", new, version)
             ELSE IF ~dense THEN batch["old_log_probs"]
             ELSE IF "union_top_k_log_probs" \in DOMAIN batch THEN batch["union_top_k_log_probs"]
             ELSE batch["student_top_k_log_probs"]
  IN  [advantages |-> advantages, new |-> new, old |-> old.ids, oldBy |-> old.by, version |-> version]

UpdateActor ==
  /\ At("update")
  /\ IF step < job.warmup THEN NoCall /\ at' = "save" /\ UNCHANGED <<batch, loss>>
     ELSE IF UpdateReads \subseteq DOMAIN batch
       THEN Call("update_actor") /\ loss' = {LossInputs} /\ at' = "save" /\ UNCHANGED batch
       ELSE at' = "raised" /\ UNCHANGED <<workerVars, batch, loss>>
  /\ UNCHANGED <<job, purpose, step, teachers, scored>>

IsLast == step >= job.total
Due(freq) == freq > 0 /\ (IsLast \/ step % freq = 0)

\* Also due when the machine is about to expire, at any step.
Save ==
  /\ At("save")
  /\ \E expires \in BOOLEAN :
       IF Due(job.saveFreq) \/ (job.saveFreq > 0 /\ expires) THEN Call("save_checkpoint") ELSE NoCall
  /\ at' = "validate"
  /\ UNCHANGED <<job, purpose, step, batch, teachers, scored, loss>>

Validate ==
  /\ At("validate")
  /\ NoCall
  /\ IF Due(job.testFreq) THEN at' = "generate" /\ purpose' = "val"
                          ELSE at' = "finish" /\ UNCHANGED purpose
  /\ UNCHANGED <<job, step, batch, teachers, scored, loss>>

Finish ==
  /\ At("finish")
  /\ NoCall
  /\ step' = step + 1
  /\ at' = IF IsLast THEN "done" ELSE "generate"
  /\ purpose' = "train"
  /\ batch' = <<>>
  /\ teachers' = <<>>
  /\ scored' = {}
  /\ loss' = {}
  /\ UNCHANGED job

Driver ==
  \/ Load \/ FirstStep \/ Generates \/ WakeEngines \/ ServeLoops \/ SleepEngines \/ Received
  \/ FirstLogProb \/ Teacher \/ SampledReward \/ DeltaReward \/ Distill
  \/ OldLogProb \/ RefLogProb \/ Advantages \/ UpdateActor \/ Save \/ Validate \/ Finish

Workers == GroupStep /\ UNCHANGED driverVars

Next == Driver \/ Workers

\* No rank and no driver stops by itself: each is a process that runs on.
Fairness ==
  /\ WF_vars(Driver)
  /\ WF_vars((Sync \/ Reduce \/ Run) /\ UNCHANGED driverVars)
  /\ \A r \in Ranks : WF_vars(RankStep(r) /\ UNCHANGED driverVars)

Spec == Init /\ [][Next]_vars /\ Fairness

-----------------------------------------------------------------------------

\* The configurations the code turns down, or has no branch for: the batch never
\* gets what they need.
Rejected ==
  \/ job.mode = "delta_opd" /\ ~job.topK
  \/ job.mode = "opd_kl" /\ job.topK /\ ~Distills(job.strategy)
  \/ job.jsFilter /\ job.mode # "delta_opd"
  \/ job.bypass /\ ~job.rolloutLogProbs

\* A step finds every column it reads and never unites two different columns
\* of one name: only the configurations above end with an
\* exception, however many steps a job makes.
StepsComplete == at = "raised" => Rejected

\* What a policy update multiplies and divides per token belongs to one
\* token: the advantage, the log-probability under the policy trained and the
\* one in the ratio's denominator range over the same ids, and the
\* denominator is the policy as it was before the update.
RatioSameTokens ==
  \A l \in loss : l.new = l.advantages /\ l.old = l.advantages /\ l.oldBy = l.version

\* A dense reward scores every token its strategy is about, and no other,
\* and none of them twice.
ScoresEachTokenOnce ==
  \A reward \in scored :
    LET about == IF job.mode = "delta_opd" /\ job.strategy \notin {"intersection"} \cup TopP
                   THEN "only_stu" ELSE job.strategy
    IN  ScoresOnce(reward, Meant(about, StudentTop, teachers.T, teachers.N))

\* A dense reward is finite on every token it scores: no strategy's mask lets in a token for which
\* a teacher has no log-probability.  Of delta_opd two strategies are left out, which mask by the
\* first teacher alone, or not at all.
MaskedByOneTeacher == job.mode = "delta_opd" /\ job.strategy \in {"intersection", "only_tch"}
RewardsFinite == \A s \in scored : s.finite \/ MaskedByOneTeacher

\* fit comes to an end: no call waits for a rank that does not come.
FitReturns == <>(at \in {"done", "raised"})
=============================================================================
