----------------------------- MODULE DataProto -----------------------------
(***************************************************************************)
(* verl.protocol.DataProto, the batch the driver and the workers exchange, *)
(* as a function from column names to sequences of equal length.  Tensor   *)
(* and non-tensor columns behave alike; meta_info travels with the batch   *)
(* and is left out.                                                        *)
(***************************************************************************)
EXTENDS Integers, Sequences, SequencesExt, FiniteSetsExt

SameLength(batch) == \A c, d \in DOMAIN batch : Len(batch[c]) = Len(batch[d])

Rows(batch) == IF DOMAIN batch = {} THEN 0 ELSE Len(batch[CHOOSE c \in DOMAIN batch : TRUE])

Select(batch, columns) == [c \in DOMAIN batch \cap columns |-> batch[c]]
Without(batch, columns) == [c \in DOMAIN batch \ columns |-> batch[c]]

\* union_tensor_dict and union_numpy_dict raise unless common columns are equal.
CanUnion(batch, other) ==
  /\ Rows(batch) = Rows(other)
  /\ \A c \in DOMAIN batch \cap DOMAIN other : batch[c] = other[c]

Union(batch, other) ==
  [c \in DOMAIN batch \cup DOMAIN other |-> IF c \in DOMAIN other THEN other[c] ELSE batch[c]]

\* slice: rows from .. to, both counted from one.
Slice(batch, from, to) == [c \in DOMAIN batch |-> SubSeq(batch[c], from, to)]

SelectIdxs(batch, indices) ==
  [c \in DOMAIN batch |-> [i \in DOMAIN indices |-> batch[c][indices[i]]]]

Reorder(batch, indices) == SelectIdxs(batch, indices)

\* chunk, on the path where the rows divide evenly.
CanChunk(batch, chunks) == Rows(batch) % chunks = 0

Chunk(batch, chunks) ==
  LET size == Rows(batch) \div chunks
  IN  [i \in 1 .. chunks |-> Slice(batch, (i - 1) * size + 1, i * size)]

Split(batch, size) ==
  LET n == Rows(batch)
  IN  [i \in 1 .. (n + size - 1) \div size |-> Slice(batch, (i - 1) * size + 1, Min({i * size, n}))]

Concat(batches) ==
  [c \in DOMAIN batches[1] |-> FlattenSeq([i \in DOMAIN batches |-> batches[i][c]])]

\* repeat(interleave=False), and repeat(interleave=True): the copies of a row are neighbours.
Tiled(batch, times) ==
  SelectIdxs(batch, [i \in 1 .. Rows(batch) * times |-> ((i - 1) % Rows(batch)) + 1])
Repeat(batch, times) ==
  SelectIdxs(batch, [i \in 1 .. Rows(batch) * times |-> ((i - 1) \div times) + 1])

\* pad_dataproto_to_divisor appends rows from the front, over and over when there are too few.
PadRows(batch, divisor) == (divisor - (Rows(batch) % divisor)) % divisor

PadToDivisor(batch, divisor) ==
  SelectIdxs(batch, [i \in 1 .. Rows(batch) + PadRows(batch, divisor) |-> ((i - 1) % Rows(batch)) + 1])

Unpad(batch, padRows) == Slice(batch, 1, Rows(batch) - padRows)
=============================================================================
