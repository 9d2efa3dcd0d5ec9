----------------------------- MODULE MCTrainLoop -----------------------------
EXTENDS TrainLoop

SyncSetup == [async |-> FALSE, freeCache |-> TRUE, dummy |-> TRUE, level |-> 1, lora |-> FALSE,
              offParams |-> TRUE, offOptim |-> TRUE, resumed |-> 0]
Asynch    == [SyncSetup EXCEPT !.async = TRUE, !.level = 2]
Resumed   == [Asynch EXCEPT !.resumed = 1, !.offParams = FALSE]
Resident  == [SyncSetup EXCEPT !.freeCache = FALSE, !.offOptim = FALSE]
LoraBase  == [SyncSetup EXCEPT !.lora = TRUE, !.dummy = FALSE, !.resumed = 1]
LoraDummy == [Asynch EXCEPT !.lora = TRUE]
LoraLevel1 == [LoraDummy EXCEPT !.level = 1, !.dummy = FALSE]
KeepsCache == [Asynch EXCEPT !.freeCache = FALSE]
PastLast   == [Resumed EXCEPT !.resumed = 2, !.offOptim = FALSE]
MCSetups == {SyncSetup, Asynch, Resumed, Resident, LoraBase, LoraDummy, LoraLevel1, KeepsCache, PastLast}

Base == [setup |-> Asynch, total |-> 2, valBefore |-> FALSE, valOnly |-> FALSE, saveFreq |-> 0,
         testFreq |-> 0, remax |-> FALSE, rolloutLogProbs |-> FALSE, bypass |-> FALSE,
         useRef |-> FALSE, mode |-> "opd_kl", topK |-> TRUE, strategy |-> "only_stu",
         jsFilter |-> FALSE, offPolicy |-> TRUE, warmup |-> 0]

Strategies == {[Base EXCEPT !.strategy = s] : s \in {"only_stu", "intersection", "union", "union-intersection"}}
OnlyTeacher == [Base EXCEPT !.strategy = "only_tch", !.offPolicy = FALSE, !.setup = Resident]
Delta       == [Base EXCEPT !.mode = "delta_opd", !.jsFilter = TRUE, !.useRef = TRUE, !.setup = LoraLevel1]
DeltaTopP   == [Base EXCEPT !.mode = "delta_opd", !.strategy = "top_p_intersec", !.setup = SyncSetup]
DeltaRejected == [Delta EXCEPT !.topK = FALSE]
NoBranch      == [Base EXCEPT !.strategy = "top_p_intersec"]
NoDivergence  == [Base EXCEPT !.jsFilter = TRUE]
SampledDelta  == [Base EXCEPT !.mode = "delta_opd_sampled", !.topK = FALSE, !.setup = Resumed, !.valBefore = TRUE]
SampledTopK   == [Base EXCEPT !.mode = "delta_opd_sampled", !.setup = LoraDummy]
SampledKl     == [Base EXCEPT !.topK = FALSE, !.bypass = TRUE, !.rolloutLogProbs = TRUE, !.setup = LoraBase]
Rule          == [Base EXCEPT !.mode = "rule", !.topK = FALSE, !.remax = TRUE, !.setup = SyncSetup,
                              !.saveFreq = 2, !.testFreq = 1, !.useRef = TRUE, !.warmup = 2, !.total = 3]
RuleBypass    == [Rule EXCEPT !.bypass = TRUE, !.setup = Asynch, !.warmup = 0, !.total = 2]
RuleLora      == [Rule EXCEPT !.setup = LoraLevel1, !.remax = FALSE, !.bypass = TRUE, !.rolloutLogProbs = TRUE,
                              !.warmup = 0, !.total = 3]
ValOnly       == [Rule EXCEPT !.valBefore = TRUE, !.valOnly = TRUE]

Shown == Strategies \cup {OnlyTeacher, Delta, DeltaTopP, DeltaRejected, NoBranch, NoDivergence, SampledDelta,
                          SampledTopK, SampledKl, Rule, RuleBypass, RuleLora, ValOnly}

\* Each of them on every setup; an engine that keeps its cache has no
\* log-probabilities of the policy to offer as the old ones.
MCJobs == {j \in {[shown EXCEPT !.setup = s] : shown \in Shown, s \in MCSetups} :
             j.setup = KeepsCache => ~j.bypass}

OffPolicyTeacher == {[OnlyTeacher EXCEPT !.offPolicy = TRUE]}

MCStudentTop == <<1, 2>>
MCTeacherTops == {<<1, 2>>, <<2, 1>>, <<2, 3>>, <<3, 4>>}
=============================================================================
