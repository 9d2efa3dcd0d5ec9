--------------------------- MODULE MCModelWeights ---------------------------
(***************************************************************************)
(* Models of two to ten layers on meshes of one to twelve ranks, each      *)
(* taken through one way in and one way out.                               *)
(***************************************************************************)
EXTENDS ModelWeights

\* Four query heads in two groups, rows enough for every share.
Model == [layers |-> 2, heads |-> 4, groups |-> 2, headDim |-> 1, inter |-> 4, vocab |-> 4,
          bias |-> FALSE, qkNorm |-> FALSE, tie |-> FALSE, value |-> FALSE,
          head |-> "lm_head", headRows |-> 4]
Mesh == [tp |-> 1, cp |-> 1, dp |-> 1, pp |-> 1, vpp |-> 1, first |-> 0, last |-> 0,
         countEmbedding |-> FALSE, countLoss |-> FALSE]
Ways(family, way, merge) == [family |-> family, way |-> way, merge |-> merge]

Base == Model @@ Mesh @@ Ways("mcore", "export", 0)

\* One value model per head a file may have; a head of two rows is not taken.
ValueModels ==
  {[Base EXCEPT !.value = TRUE, !.head = head, !.headRows = rows, !.way = "save", !.tp = 2, !.pp = 2, !.dp = 2] :
     head \in {"lm_head", "reward_head", "score"}, rows \in {1, 2}}

\* Loaded from a Hugging Face model: even stages.
EvenMeshes ==
  {[Base EXCEPT !.tp = 2, !.dp = 2],
   [Base EXCEPT !.tp = 2, !.pp = 2, !.dp = 2, !.bias = TRUE],
   [Base EXCEPT !.pp = 2, !.cp = 2, !.qkNorm = TRUE, !.headDim = 2],
   [Base EXCEPT !.pp = 2, !.vpp = 2, !.layers = 8],
   [Base EXCEPT !.tie = TRUE, !.tp = 2],
   [Base EXCEPT !.tie = TRUE, !.pp = 2]}

\* Loaded from a distributed checkpoint: stages of any size.  Virtual stages with a number of
\* layers for the last stage alone are left out: EngineGetsModel does not hold of them, since
\* Offset takes the first stage for one that has its number given.
UnevenMeshes ==
  {[Base EXCEPT !.family = "dist", !.pp = 3, !.layers = 5, !.first = 1],
   [Base EXCEPT !.family = "dist", !.pp = 3, !.layers = 5, !.last = 1],
   [Base EXCEPT !.family = "dist", !.pp = 3, !.layers = 4, !.first = 1, !.last = 2, !.tp = 2],
   [Base EXCEPT !.family = "dist", !.pp = 2, !.layers = 3, !.first = 1, !.last = 2],
   [Base EXCEPT !.family = "dist", !.pp = 3, !.vpp = 2, !.layers = 8, !.first = 2, !.last = 2],
   [Base EXCEPT !.family = "dist", !.pp = 3, !.vpp = 2, !.layers = 10, !.first = 2],
   [Base EXCEPT !.family = "dist", !.pp = 2, !.layers = 3, !.countEmbedding = TRUE],
   [Base EXCEPT !.family = "dist", !.pp = 2, !.layers = 2, !.countEmbedding = TRUE, !.countLoss = TRUE],
   [Base EXCEPT !.family = "dist", !.pp = 2, !.vpp = 2, !.layers = 6, !.countEmbedding = TRUE, !.countLoss = TRUE]}

Saved == {[mesh EXCEPT !.way = "save"] : mesh \in EvenMeshes \cup {CHOOSE mesh \in UnevenMeshes : mesh.vpp = 2}}

Merged2(mesh, processes) == [mesh EXCEPT !.way = "merge", !.merge = processes]
MergedModels ==
  {Merged2(mesh, processes) : mesh \in EvenMeshes, processes \in {1, 2}}
  \cup {Merged2([Base EXCEPT !.layers = layers, !.tp = 2], processes) : layers \in {3, 5, 7}, processes \in {1, 2, 3, 4}}
  \cup {Merged2(mesh, 3) : mesh \in {uneven \in UnevenMeshes : uneven.layers <= 5}}

FsdpModels ==
  {[Base EXCEPT !.family = "fsdp", !.way = "fsdp", !.tp = shards, !.dp = replicas, !.tie = tied] :
     shards \in {1, 2, 3}, replicas \in {1, 2}, tied \in BOOLEAN}

MCConfigs == ValueModels \cup EvenMeshes \cup UnevenMeshes \cup Saved \cup MergedModels \cup FsdpModels
=============================================================================
