---------------------------- MODULE ModelWeights ----------------------------
(***************************************************************************)
(* The weights of a model between the forms they take: a Hugging Face      *)
(* state dict, the parameters of the ranks of a Megatron (or FSDP) worker  *)
(* group, what the ranks hand to the inference engine of a rollout, and    *)
(* what a checkpoint gives back as a Hugging Face model.                   *)
(*                                                                         *)
(* A tensor is the sequence of its rows (its columns, where it is cut      *)
(* along the second dimension), a row its tensor's name and its number.    *)
(* Ranks run the same sequence of collectives, so a transfer is one joint  *)
(* action of them.                                                         *)
(***************************************************************************)
EXTENDS Integers, SequencesExt, FiniteSetsExt, TLC

CONSTANTS
  Configs,      \* bound: the models, meshes, and ways in and out
  TwoFilesFrom  \* bound: layers from which the merger writes two files each, 30 in the code

VARIABLES cfg,    \* never changes
          phase,  \* load, share, ready, then one way out and its end
          at,     \* transfers made in this phase
          param,  \* what each rank's parameters hold
          out     \* what has come out

vars == <<cfg, phase, at, param, out>>

Whole == -1 \* in the place of a layer: a tensor of no layer

-----------------------------------------------------------------------------
\* The state dict.

HeadsPerGroup == cfg.heads \div cfg.groups

LayerTensors ==
  {"input_norm", "q", "k", "v", "o", "post_norm", "gate", "up", "down"}
  \cup IF cfg.bias THEN {"q_bias", "k_bias", "v_bias"} ELSE {}
  \cup IF cfg.qkNorm THEN {"q_norm", "k_norm"} ELSE {}

HfNames ==
  {<<"embed", Whole>>, <<"norm", Whole>>, <<cfg.head, Whole>>}
  \cup {<<tensor, layer>> : tensor \in LayerTensors, layer \in 0 .. cfg.layers - 1}

RowsOf(tensor) ==
  CASE tensor \in {"q", "q_bias", "o"}           -> cfg.heads * cfg.headDim
    [] tensor \in {"k", "v", "k_bias", "v_bias"} -> cfg.groups * cfg.headDim
    [] tensor \in {"gate", "up", "down"}         -> cfg.inter
    [] tensor = "embed"                          -> cfg.vocab
    [] tensor = cfg.head                         -> cfg.headRows
    [] OTHER                                     -> 1

\* A tied head is the embedding under another name.
Row(name, i) == <<IF cfg.tie /\ name[1] = cfg.head THEN <<"embed", Whole>> ELSE name, i>>
Hf == [name \in HfNames |-> [i \in 1 .. RowsOf(name[1]) |-> Row(name, i)]]

-----------------------------------------------------------------------------
\* The mesh, in Megatron's order of ranks.

Ranks == 0 .. cfg.tp * cfg.cp * cfg.dp * cfg.pp - 1
Tp(r) == r % cfg.tp
Cp(r) == (r \div cfg.tp) % cfg.cp
Dp(r) == (r \div (cfg.tp * cfg.cp)) % cfg.dp
Pp(r) == r \div (cfg.tp * cfg.cp * cfg.dp)

GlobalRank(tp, dp, pp, cp) == ((pp * cfg.dp + dp) * cfg.cp + cp) * cfg.tp + tp

\* How many layers Megatron builds on a stage, of its chunks together: a given number on
\* the first and the last one, where it is given (0: it is not).
Given(first, last) == (IF first > 0 THEN 1 ELSE 0) + (IF last > 0 THEN 1 ELSE 0)
StageLayers(stages, first, last, p) ==
  CASE p = 0 /\ first > 0         -> first
    [] p = stages - 1 /\ last > 0 -> last
    [] OTHER -> (cfg.layers - first - last) \div (stages - Given(first, last))

\* Layers of a chunk; the embedding and the loss may count as one.
One(counted) == IF counted THEN 1 ELSE 0
LayersIn(p, v) ==
  IF cfg.countEmbedding \/ cfg.countLoss
    THEN ((cfg.layers + One(cfg.countEmbedding) + One(cfg.countLoss)) \div (cfg.pp * cfg.vpp))
         - One(cfg.countEmbedding /\ p = 0 /\ v = 0)
         - One(cfg.countLoss /\ p = cfg.pp - 1 /\ v = cfg.vpp - 1)
    ELSE StageLayers(cfg.pp, cfg.first, cfg.last, p) \div cfg.vpp

LayerOrder ==
  LET Has(tensor) == /\ tensor = "qkv_bias" => cfg.bias
                     /\ tensor \in {"q_norm", "k_norm"} => cfg.qkNorm
  IN  SelectSeq(<<"input_norm", "q_norm", "k_norm", "qkv", "qkv_bias", "o", "post_norm", "gate_up", "down">>, Has)

\* The parameters of a stage: chunk, layer in it, tensor.  A tied head that shares a stage
\* with the embedding has none of its own.
LastStage(p) == p = cfg.pp - 1
Optional(condition, key) == IF condition THEN <<key>> ELSE <<>>
ChunkKeys(p, v) ==
  Optional(p = 0 /\ v = 0, <<0, Whole, "embed">>)
  \o FlattenSeq([l \in 1 .. LayersIn(p, v) |->
                   [i \in DOMAIN LayerOrder |-> <<v, l - 1, LayerOrder[i]>>]])
  \o Optional(LastStage(p) /\ v = cfg.vpp - 1, <<v, Whole, "norm">>)
  \o Optional(LastStage(p) /\ v = cfg.vpp - 1 /\ ~(cfg.tie /\ cfg.pp = 1), <<v, Whole, "head">>)
StageKeys(p) == FlattenSeq([c \in 1 .. cfg.vpp |-> ChunkKeys(p, c - 1)])
Keys(r) == ToSet(StageKeys(Pp(r)))

-----------------------------------------------------------------------------
\* Cutting and fusing.

\* torch.chunk, piece by piece: the last ones may be shorter, or empty.
Piece(rows, n, i) ==
  LET size == (Len(rows) + n - 1) \div n
  IN  SubSeq(rows, (i - 1) * size + 1, Min({i * size, Len(rows)}))

\* Mutant: a share's queries, keys and values kept together.
FuseUngrouped(q, k, v) ==
  FlattenSeq([t \in 1 .. cfg.tp |-> Piece(q, cfg.tp, t) \o Piece(k, cfg.tp, t) \o Piece(v, cfg.tp, t)])

\* The loader's fused query, key and value: within a tensor-parallel share group by group.
FuseQkv(q, k, v) ==
  LET n == cfg.groups \div cfg.tp
      Share(t) == FlattenSeq([j \in 1 .. n |-> Piece(Piece(q, cfg.tp, t), n, j)
                                               \o Piece(Piece(k, cfg.tp, t), n, j)
                                               \o Piece(Piece(v, cfg.tp, t), n, j)])
  IN  FlattenSeq([t \in 1 .. cfg.tp |-> Share(t)])

FuseGateUp(gate, up) ==
  FlattenSeq([t \in 1 .. cfg.tp |-> Piece(gate, cfg.tp, t) \o Piece(up, cfg.tp, t)])

\* The inverses, from the shares: each in n blocks of a group, each in a half of gates and
\* one of ups.
SplitQkv(shares, n) ==
  LET blocks == FlattenSeq([t \in DOMAIN shares |-> [j \in 1 .. n |-> Piece(shares[t], n, j)]])
      kv     == Len(blocks[1]) \div (HeadsPerGroup + 2)
      q      == kv * HeadsPerGroup
      Of(from, to) == FlattenSeq([i \in DOMAIN blocks |-> SubSeq(blocks[i], from, to)])
  IN  <<Of(1, q), Of(q + 1, q + kv), Of(q + kv + 1, q + 2 * kv)>>

SplitGateUp(shares) ==
  [half \in 1 .. 2 |-> FlattenSeq([t \in DOMAIN shares |-> Piece(shares[t], 2, half)])]

-----------------------------------------------------------------------------
\* Loading.

\* Stage, chunk and place in the chunk of every layer, when all chunks have as many.
PerModel == cfg.layers \div (cfg.pp * cfg.vpp)
PlaceOf(layer) ==
  CHOOSE place \in (0 .. cfg.pp - 1) \X (0 .. cfg.vpp - 1) \X (0 .. PerModel - 1) :
    place[2] * (cfg.layers \div cfg.vpp) + place[1] * PerModel + place[3] = layer

\* What the loader sends, one after the other.
Transfers ==
  <<<<"embed", Whole>>>>
  \o FlattenSeq([l \in 1 .. cfg.layers |->
                   [i \in DOMAIN LayerOrder |-> <<LayerOrder[i], l - 1>>]])
  \o <<<<"norm", Whole>>, <<"head", Whole>>>>

\* The rank's parameter a transfer is for, if it has it.
Destinations(transfer, r) ==
  LET tensor == transfer[1]
      place  == PlaceOf(transfer[2])
  IN  DOMAIN param[r] \cap
        CASE tensor = "embed"            -> {<<0, Whole, tensor>>}
          [] tensor \in {"norm", "head"} -> {<<cfg.vpp - 1, Whole, tensor>>}
          [] OTHER -> IF place[1] = Pp(r) THEN {<<place[2], place[3], tensor>>} ELSE {}

\* A value model takes a head of one row, whatever its name; no other one.
HeadFound ==
  IF cfg.value THEN cfg.head \in {"lm_head", "reward_head", "score"} /\ cfg.headRows = 1
               ELSE cfg.head = "lm_head"

\* The part of a transfer that tensor-parallel rank t - 1 keeps.
ShareOf(transfer, t) ==
  LET tensor  == transfer[1]
      Hft(x)  == Hf[<<x, transfer[2]>>]
  IN  CASE tensor \in {"input_norm", "post_norm", "q_norm", "k_norm", "norm"} -> Hft(tensor)
        [] tensor = "qkv"      -> Piece(FuseQkv(Hft("q"), Hft("k"), Hft("v")), cfg.tp, t)
        [] tensor = "qkv_bias" -> Piece(FuseQkv(Hft("q_bias"), Hft("k_bias"), Hft("v_bias")), cfg.tp, t)
        [] tensor = "gate_up"  -> Piece(FuseGateUp(Hft("gate"), Hft("up")), cfg.tp, t)
        [] tensor = "head"     -> IF cfg.value THEN Hft(cfg.head) ELSE Piece(Hft(cfg.head), cfg.tp, t)
        [] OTHER               -> Piece(Hft(tensor), cfg.tp, t)

\* What a parameter is built with: seeded by stage and tensor-parallel rank.
Fresh(r) == [key \in Keys(r) |-> <<<<"fresh", Tp(r), Pp(r)>>>>]

\* One broadcast of the mcore loader, in the model-parallel groups of the first replica.
LoadNext ==
  /\ phase = "load"
  /\ at <= Len(Transfers)
  /\ LET transfer == Transfers[at]
         skipped  == transfer[1] = "head" /\ ~HeadFound
     IN  param' = [r \in Ranks |->
                    IF Dp(r) > 0 \/ skipped THEN param[r]
                    ELSE [key \in Destinations(transfer, r) |-> ShareOf(transfer, Tp(r) + 1)] @@ param[r]]
  /\ at' = at + 1
  /\ UNCHANGED <<cfg, phase, out>>

\* broadcast_params: every replica takes the first one's.
ShareReplicas ==
  /\ phase = "load"
  /\ at > Len(Transfers)
  /\ param' = [r \in Ranks |-> param[GlobalRank(Tp(r), 0, Pp(r), Cp(r))]]
  /\ phase' = "ready"
  /\ UNCHANGED <<cfg, at, out>>

-----------------------------------------------------------------------------
\* What Megatron means by a parameter: the number of the layer, and the rows it computes
\* with.  Chunks follow each other through the stages, one round of them per chunk.

FirstLayer(p, v) ==
  MapThenSumSet(LAMBDA chunk : LayersIn(chunk[1], chunk[2]),
                {chunk \in (0 .. cfg.pp - 1) \X (0 .. cfg.vpp - 1) :
                   chunk[2] < v \/ (chunk[2] = v /\ chunk[1] < p)})

\* The block of a group is its queries, its key, its value.
Qkv     == <<"q", "k", "v">>
QkvBias == <<"q_bias", "k_bias", "v_bias">>
FusedRow(t, i, layer, parts) ==
  LET block  == (HeadsPerGroup + 2) * cfg.headDim
      group  == t * (cfg.groups \div cfg.tp) + (i \div block)
      place  == i % block
      q      == HeadsPerGroup * cfg.headDim
  IN  CASE place < q               -> <<<<parts[1], layer>>, group * q + place + 1>>
        [] place < q + cfg.headDim -> <<<<parts[2], layer>>, group * cfg.headDim + place - q + 1>>
        [] OTHER -> <<<<parts[3], layer>>, group * cfg.headDim + place - q - cfg.headDim + 1>>

\* The rows rank r computes with under a key.
Needed(r, key) ==
  LET tensor == key[3]
      layer  == IF key[2] = Whole THEN Whole ELSE FirstLayer(Pp(r), key[1]) + key[2]
      t      == Tp(r)
      fused  == ((cfg.heads + 2 * cfg.groups) * cfg.headDim) \div cfg.tp
      Part(name) == LET n == RowsOf(name) \div cfg.tp
                    IN  [i \in 1 .. n |-> Row(<<name, layer>>, t * n + i)]
      Fused(parts) == [i \in 1 .. fused |-> FusedRow(t, i - 1, layer, parts)]
  IN  CASE tensor \in {"input_norm", "post_norm", "q_norm", "k_norm", "norm"} -> Hf[<<tensor, layer>>]
        [] tensor = "qkv"      -> Fused(Qkv)
        [] tensor = "qkv_bias" -> Fused(QkvBias)
        [] tensor = "gate_up"  -> Part("gate") \o Part("up")
        [] tensor = "head"     -> IF cfg.value THEN Hf[<<cfg.head, Whole>>] ELSE Part(cfg.head)
        [] OTHER               -> Part(tensor)

-----------------------------------------------------------------------------
\* The weights a rollout's engine gets.

\* Mutant: all stages taken for even.
OffsetOfEven(p, v) == v * (cfg.layers \div cfg.vpp) + p * (cfg.layers \div (cfg.pp * cfg.vpp))

\* verl's number of the first layer of a chunk.
Offset(p, v) ==
  LET uneven == cfg.first > 0 \/ cfg.last > 0
      middle == cfg.layers - cfg.first - cfg.last
      stages == cfg.pp - Given(cfg.first, cfg.last)
      round  == cfg.first \div cfg.vpp + middle \div cfg.vpp + cfg.last \div cfg.vpp
      layers == cfg.layers + One(cfg.countEmbedding) + One(cfg.countLoss)
      FirstChunk == p = 0 /\ v = 0
  IN  CASE cfg.pp = 1 -> 0
        [] cfg.pp > 1 /\ uneven /\ p = 0 -> IF cfg.vpp > 1 THEN v * round ELSE 0
        [] cfg.pp > 1 /\ uneven /\ p > 0 /\ cfg.vpp > 1 ->
             v * round + cfg.first \div cfg.vpp + (p - 1) * ((middle \div cfg.vpp) \div stages)
        [] cfg.pp > 1 /\ uneven /\ p > 0 /\ cfg.vpp = 1 ->
             (p - One(cfg.first > 0)) * (IF stages > 0 THEN middle \div stages ELSE 0) + cfg.first
        [] cfg.pp > 1 /\ ~uneven ->
             (IF cfg.vpp > 1 THEN v * (layers \div cfg.vpp) + p * ((layers \div cfg.pp) \div cfg.vpp)
                             ELSE p * (layers \div cfg.pp))
             - One(cfg.countEmbedding /\ ~FirstChunk)

\* Every stage's parameters, stage after stage: all ranks walk the same list.
Meta ==
  FlattenSeq([s \in 1 .. cfg.pp |->
                [i \in DOMAIN StageKeys(s - 1) |-> <<s - 1, StageKeys(s - 1)[i]>>]])

\* Tensors every tensor-parallel rank has whole.
Unsplit == {"input_norm", "post_norm", "q_norm", "k_norm", "norm"}

\* A parameter's shares under the names of the state dict.
Named(tensor, layer, shares) ==
  LET Each(names, rows) == [i \in DOMAIN names |-> <<<<names[i], layer>>, rows[i]>>]
      n == Len(shares[1]) \div ((HeadsPerGroup + 2) * cfg.headDim)
  IN  CASE tensor = "qkv"      -> Each(Qkv, SplitQkv(shares, n))
        [] tensor = "qkv_bias" -> Each(QkvBias, SplitQkv(shares, n))
        [] tensor = "gate_up"  -> Each(<<"gate", "up">>, SplitGateUp(shares))
        [] tensor \in Unsplit -> Each(<<tensor>>, <<shares[1]>>)
        [] tensor = "head"     -> Each(<<"lm_head">>, <<FlattenSeq(shares)>>)
        [] OTHER               -> Each(<<tensor>>, <<FlattenSeq(shares)>>)

AsDict(pairs) == [name \in {pair[1] : pair \in ToSet(pairs)} |->
                   (CHOOSE pair \in ToSet(pairs) : pair[1] = name)[2]]

BeginExport ==
  /\ phase = "ready"
  /\ cfg.way = "export"
  /\ phase' = "export"
  /\ at' = 1
  /\ out' = [r \in Ranks |-> <<>>]
  /\ UNCHANGED <<cfg, param>>

\* The owner stage's tensor goes to the other stages, then the tensor-parallel ranks gather
\* their shares of it.
ExportNext ==
  /\ phase = "export"
  /\ at <= Len(Meta)
  /\ LET p     == Meta[at][1]
         key   == Meta[at][2]
         layer == IF key[2] = Whole THEN Whole ELSE key[2] + Offset(p, key[1])
         Shares(r) == [t \in 1 .. cfg.tp |-> param[GlobalRank(t - 1, Dp(r), p, Cp(r))][key]]
     IN  out' = [r \in Ranks |-> out[r] \o Named(key[3], layer, Shares(r))]
  /\ at' = at + 1
  /\ UNCHANGED <<cfg, phase, param>>

EndExport ==
  /\ phase = "export"
  /\ at > Len(Meta)
  /\ phase' = "exported"
  /\ UNCHANGED <<cfg, at, param, out>>

-----------------------------------------------------------------------------
\* The Hugging Face model a checkpoint is saved with: rank 0 collects it.

EvenChunks == \A p \in 0 .. cfg.pp - 1, v \in 0 .. cfg.vpp - 1 : LayersIn(p, v) = PerModel

BeginSave ==
  /\ phase = "ready"
  /\ cfg.way = "save"
  /\ phase' = IF EvenChunks /\ PerModel * cfg.pp * cfg.vpp = cfg.layers THEN "save" ELSE "raised"
  /\ at' = 1
  /\ out' = << >>
  /\ UNCHANGED <<cfg, param>>

SaveNext ==
  /\ phase = "save"
  /\ at <= Len(Transfers)
  /\ LET tensor == Transfers[at][1]
         layer  == Transfers[at][2]
         place  == CASE tensor = "embed"            -> <<0, 0, Whole>>
                     [] tensor \in {"norm", "head"} -> <<cfg.pp - 1, cfg.vpp - 1, Whole>>
                     [] OTHER                       -> PlaceOf(layer)
         Share(t) == param[GlobalRank(t - 1, 0, place[1], 0)][<<place[2], place[3], tensor>>]
         whole  == IF tensor = "head" /\ cfg.value THEN 1 ELSE cfg.tp
     IN  out' = IF tensor = "head" /\ cfg.tie THEN out
                ELSE AsDict(Named(tensor, layer, [t \in 1 .. whole |-> Share(t)])) @@ out
  /\ at' = at + 1
  /\ UNCHANGED <<cfg, phase, param>>

EndSave ==
  /\ phase = "save"
  /\ at > Len(Transfers)
  /\ phase' = "saved"
  /\ UNCHANGED <<cfg, at, param, out>>

-----------------------------------------------------------------------------
\* The merger of a distributed checkpoint: cfg.merge processes, a stage each.

\* get_dynamic_pipeline_shards: the stages between the first and the last one are equal and
\* no smaller than these.  Empty where it raises.
Shards ==
  LET n == cfg.layers
      p == cfg.merge
      Ends(m)  == n - m * (p - 2)
      First(m) == Ends(m) \div 2
      Final(m) == Ends(m) - First(m)
      fits   == {m \in 0 .. n - 1 : First(m) \in 1 .. m /\ Final(m) \in 1 .. m}
      Gap(m) == IF First(m) > m THEN First(m) - m ELSE m - First(m)
      best   == CHOOSE m \in fits : \A other \in fits :
                  Gap(m) < Gap(other) \/ (Gap(m) = Gap(other) /\ m <= other)
  IN  CASE n < p                     -> << >>
        [] n >= p /\ p = 1           -> <<n>>
        [] n >= p /\ p = 2           -> <<n \div 2, n - n \div 2>>
        [] n >= p /\ p > 2 /\ fits = {} -> << >>
        [] n >= p /\ p > 2 /\ fits # {} ->
             [i \in 1 .. p |-> IF i = 1 THEN First(best) ELSE IF i = p THEN Final(best) ELSE best]

\* Mutant: the sum includes the process's own layers.
LayersUpTo(m) == SumFunction(SubSeq(Shards, 1, m + 1))
LayersBefore(m) == SumFunction(SubSeq(Shards, 1, m))

\* The checkpoint's tensor of a layer: the shares put together, its gates before its ups.
Stored(tensor, layer) ==
  LET place == CASE tensor = "embed"            -> <<0, 0, Whole>>
                 [] tensor \in {"norm", "head"} -> <<cfg.pp - 1, cfg.vpp - 1, Whole>>
                 [] OTHER -> CHOOSE place \in (0 .. cfg.pp - 1) \X (0 .. cfg.vpp - 1) \X (0 .. layer) :
                               /\ place[3] < LayersIn(place[1], place[2])
                               /\ FirstLayer(place[1], place[2]) + place[3] = layer
      shares == [t \in 1 .. cfg.tp |->
                   param[GlobalRank(t - 1, 0, place[1], 0)][<<place[2], place[3], tensor>>]]
  IN  CASE tensor \in Unsplit   -> shares[1]
        [] tensor = "gate_up"   -> FlattenSeq(SplitGateUp(shares))
        [] OTHER                -> FlattenSeq(shares)

\* The layers Megatron builds for a merging process, told the shards of the first stage and,
\* of more than two, of the last.
MergerLayers(m) ==
  LET first == IF cfg.merge > 1 THEN Shards[1] ELSE 0
      final == IF cfg.merge > 2 THEN Shards[cfg.merge] ELSE 0
      Built(p) == StageLayers(cfg.merge, first, final, p)
      before == SumFunction([i \in 1 .. m |-> Built(i - 1)])
  IN  before .. before + Built(m) - 1

\* What a process makes of its stage, in the order it does.
Merged(m) ==
  LET built == MergerLayers(m)
      Renamed(tensor, layer, stored) == Named(tensor, layer, <<stored>>)
      OfLayer(l) == FlattenSeq([i \in DOMAIN LayerOrder |->
                      Renamed(LayerOrder[i], LayersBefore(m) + l, Stored(LayerOrder[i], Min(built) + l))])
  IN  (IF m = 0 THEN Renamed("embed", Whole, Stored("embed", Whole)) ELSE <<>>)
      \o FlattenSeq([l \in 1 .. Cardinality(built) |-> OfLayer(l - 1)])
      \o (IF m = cfg.merge - 1 THEN Renamed("norm", Whole, Stored("norm", Whole)) ELSE <<>>)
      \o (IF m = cfg.merge - 1 /\ ~cfg.tie THEN Renamed("head", Whole, Stored("head", Whole)) ELSE <<>>)

\* numpy.array_split: n runs, the first ones longer by one.
Splits(seq, n) ==
  LET size == Len(seq) \div n
      longer == Len(seq) % n
      Start(i) == (i - 1) * size + Min({i - 1, longer})
  IN  [i \in 1 .. n |-> SubSeq(seq, Start(i) + 1, Start(i + 1))]

PerLayer == IF cfg.layers < TwoFilesFrom THEN 1 ELSE 2

BeginMerge ==
  /\ phase = "ready"
  /\ cfg.way = "merge"
  /\ phase' = IF Shards = << >> THEN "raised" ELSE "merge"
  /\ out' = [files |-> << >>, index |-> << >>]
  /\ UNCHANGED <<cfg, at, param>>

\* A process writes its files; a process alone leaves that to save_pretrained.
MergeStage(m) ==
  /\ phase = "merge"
  /\ m \notin DOMAIN out.index
  /\ LET runs    == IF cfg.merge = 1 THEN <<Merged(m)>> ELSE Splits(Merged(m), Shards[m + 1] * PerLayer)
         File(i) == LayersBefore(m) * PerLayer + i
     IN  out' = [files |-> [file \in {File(i) : i \in DOMAIN runs} |->
                              AsDict(runs[file - LayersBefore(m) * PerLayer])] @@ out.files,
                 index |-> (m :> [name \in {pair[1] : pair \in ToSet(Merged(m))} |->
                                    CHOOSE file \in {File(i) : i \in DOMAIN runs} :
                                      name \in {pair[1] : pair \in ToSet(runs[file - LayersBefore(m) * PerLayer])}])
                           @@ out.index]
  /\ UNCHANGED <<cfg, phase, at, param>>

\* The indexes gathered, rank 0 writes one; what a reader of it gets.
EndMerge ==
  /\ phase = "merge"
  /\ \A m \in 0 .. cfg.merge - 1 : m \in DOMAIN out.index
  /\ LET Update(index, m) == out.index[m] @@ index
         index == FoldLeft(Update, << >>, [m \in 1 .. cfg.merge |-> m - 1])
     IN  out' = [name \in DOMAIN index |-> out.files[index[name]][name]]
  /\ phase' = "saved"
  /\ UNCHANGED <<cfg, at, param>>

\* The merger of an FSDP checkpoint reads the files of one replica and puts the shards
\* together.
MergeFsdp ==
  /\ phase = "ready"
  /\ cfg.way = "fsdp"
  /\ out' = [name \in HfNames |-> FlattenSeq([shard \in 1 .. cfg.tp |-> param[shard - 1][name]])]
  /\ phase' = "saved"
  /\ UNCHANGED <<cfg, at, param>>

-----------------------------------------------------------------------------
\* A group that loads a checkpoint of the mesh it has starts with what it needs; FSDP shards
\* every tensor of the state dict by its rows, over cfg.tp ranks.
Init ==
  /\ cfg \in Configs
  /\ phase = IF cfg.family = "mcore" THEN "load" ELSE "ready"
  /\ at = 1
  /\ param = [r \in Ranks |->
       CASE cfg.family = "mcore" -> Fresh(r)
         [] cfg.family = "dist"  -> [key \in Keys(r) |-> Needed(r, key)]
         [] cfg.family = "fsdp"  -> [name \in HfNames |-> Piece(Hf[name], cfg.tp, Tp(r) + 1)]]
  /\ out = << >>

Done == phase \in {"exported", "saved", "raised"} /\ UNCHANGED vars

Next ==
  \/ LoadNext \/ ShareReplicas
  \/ BeginExport \/ ExportNext \/ EndExport
  \/ BeginSave \/ SaveNext \/ EndSave
  \/ BeginMerge \/ EndMerge \/ (\E m \in 0 .. cfg.merge - 1 : MergeStage(m))
  \/ MergeFsdp
  \/ Done

Spec == Init /\ [][Next]_vars

-----------------------------------------------------------------------------
\* Every rank of every replica computes with the rows of its layers that its place in the mesh
\* asks for; the head of a value model is left as it was built unless the file has one of one
\* row.  (load_state_dict_to_megatron_gptmodel: layer map, fusing, cutting, replicas.)
RanksHoldTheirShare ==
  phase = "ready" /\ cfg.family # "fsdp" =>
    \A r \in Ranks : \A key \in DOMAIN param[r] :
      param[r][key] = IF key[3] = "head" /\ ~HeadFound THEN Fresh(r)[key] ELSE Needed(r, key)

\* The engine of every rank gets every tensor of the model once and with all of its rows in
\* their order, the tied head at most once.  (per_tensor_generator with uneven stages,
\* interleaved chunks, grouped queries.)
EngineGetsModel ==
  phase = "exported" =>
    \A r \in Ranks :
      LET names == [i \in DOMAIN out[r] |-> out[r][i][1]]
          tied  == IF cfg.tie THEN {<<cfg.head, Whole>>} ELSE {}
      IN  /\ IsInjective(names)
          /\ ToSet(names) \cup tied = HfNames
          /\ \A i \in DOMAIN names : out[r][i][2] = Hf[names[i]]

\* What is saved for others to load is the model that was loaded, whatever mesh it was trained
\* on and however many processes merge it; a tied head is left out, a value model's saved as
\* lm_head.  (merge_megatron_ckpt_gptmodel, the two mergers and their files.)
SavedModelIsLoaded ==
  phase = "saved" =>
    LET head     == <<cfg.head, Whole>>
        SavedAs(name) == IF name = head THEN <<"lm_head", Whole>> ELSE name
        kept     == IF cfg.tie THEN HfNames \ {head} ELSE HfNames
    IN  IF cfg.family = "fsdp" THEN out = Hf
        ELSE /\ DOMAIN out = {SavedAs(name) : name \in kept}
             /\ \A name \in kept :
                  out[SavedAs(name)] = IF name = head /\ ~HeadFound
                                         THEN <<<<"fresh", 0, cfg.pp - 1>>>> ELSE Hf[name]

\* Whichever way the weights take, out comes the model that went in.
ModelComesOut == EngineGetsModel /\ SavedModelIsLoaded
=============================================================================
