--------------------------- MODULE PackedForward ---------------------------
(***************************************************************************)
(* How dp_actor._forward_micro_batch with use_remove_padding lines tokens  *)
(* up: rows are packed without padding, the labels are the packed tokens   *)
(* shifted by one, Ulysses pads and slices both over its sequence-parallel *)
(* ranks, and the log-probabilities are gathered and put back in place.    *)
(*                                                                         *)
(* A row has the attended prompt tokens at the right end of PromptLength   *)
(* columns and its response at the left end of ResponseLength columns.  A  *)
(* token is its row's identity and its column; the log-probability of a    *)
(* label is the pair of the token the logits are for and the label.        *)
(***************************************************************************)
EXTENDS Integers, Sequences, SequencesExt

CONSTANTS PromptLength, ResponseLength

\* max_prompt_length and max_response_length.
ASSUME LengthsAssumption == {PromptLength, ResponseLength} \subseteq Nat \ {0}

Pad  == <<"pad", 0>>
Zero == <<Pad, Pad>>

Attended(row) == [i \in 1 .. row.prompt + row.response |-> <<row.id, PromptLength - row.prompt + i>>]
Attends(row, column) == column > PromptLength - row.prompt /\ column <= PromptLength + row.response

\* unpad_input, and torch.roll by -1 over the packed rows.
Packed(rows) == FlattenSeq([i \in DOMAIN rows |-> Attended(rows[i])])
Rolled(tokens) == [i \in DOMAIN tokens |-> tokens[(i % Len(tokens)) + 1]]

\* ulysses_pad_and_slice_inputs.
PadSize(tokens, sp) == (sp - (Len(tokens) % sp)) % sp
Padded(tokens, sp)  == tokens \o [i \in 1 .. PadSize(tokens, sp) |-> Pad]
SliceOf(tokens, sp, rank) ==
  LET padded == Padded(tokens, sp)
      part   == Len(padded) \div sp
  IN  SubSeq(padded, rank * part + 1, (rank + 1) * part)

\* Each logit of a rank's slice is read at the label that stands beside it.
LogProbs(logits, labels) == [i \in DOMAIN logits |-> <<logits[i], labels[i]>>]

\* What sequence-parallel rank `rank` computes of the rows it was given.
OwnLogits(rows, sp, rank) == SliceOf(Packed(rows), sp, rank)
OwnLogProbs(rows, sp, rank) ==
  LogProbs(OwnLogits(rows, sp, rank), SliceOf(Rolled(Packed(rows)), sp, rank))

\* The ids torch.topk finds, named by the logits they are the top of.
TopIds(logits) == [i \in DOMAIN logits |-> <<"top", logits[i]>>]

\* Ids given for the response positions, flat_ids[indices]: the response part of every
\* row is put `before` columns before its tokens, then the attended columns are kept.
IdsPlaced(rows, ids, before) ==
  FlattenSeq([i \in DOMAIN rows |->
    [j \in 1 .. rows[i].prompt + rows[i].response |->
       LET t == j - rows[i].prompt + before
       IN  IF t \in 1 .. ResponseLength THEN ids[i][t] ELSE Zero]])

\* Beside the tokens, and [:, -response_length - 1 : -1], where ResponsePart took them from.
GivenAtTokens(rows, ids) == IdsPlaced(rows, ids, 0)
GivenIds(rows, ids) == IdsPlaced(rows, ids, 1)

\* gather_outputs_and_unpad over a sequence-parallel group, one share per rank.
GatheredShares(shares, padSize) ==
  LET all == FlattenSeq(shares) IN SubSeq(all, 1, Len(all) - padSize)

\* pad_input, then the columns [-response_length - 1 : -1] of every row.
ResponsePart(rows, packed) ==
  LET offset(i) == Len(Packed(SubSeq(rows, 1, i - 1)))
      place(i, column) == offset(i) + column - (PromptLength - rows[i].prompt)
      full(i, column) == IF Attends(rows[i], column) THEN packed[place(i, column)] ELSE Zero
  IN  [i \in DOMAIN rows |-> [t \in 1 .. ResponseLength |-> full(i, PromptLength + t - 1)]]

-----------------------------------------------------------------------------
\* The same for Megatron (preprocess_packed_seqs, postprocess_packed_seqs): every row is
\* padded for itself, and with context parallelism cut into twice as many chunks as there
\* are ranks, a rank taking one from each end.

AlignSize(tp, cp) == IF cp > 1 THEN 2 * tp * cp ELSE tp
AlignedLength(row, tp, cp) ==
  LET size == AlignSize(tp, cp) IN ((Len(Attended(row)) + size - 1) \div size) * size

Half(row, tp, cp) == AlignedLength(row, tp, cp) \div (2 * cp)

\* What the row has for the front chunk of a rank.  An assignment broadcasts a single token
\* over the chunk, and fails for any other number that does not fill it.
FrontOf(row, values, tp, cp, rank) ==
  LET half == Half(row, tp, cp)
      end  == half * (rank + 1)
  IN  SubSeq(values, half * rank + 1, IF end < Len(values) THEN end ELSE Len(values))
FillsFront(row, tp, cp) ==
  cp > 1 => \A rank \in 0 .. cp - 1 :
              Len(FrontOf(row, Attended(row), tp, cp, rank)) \in {1, Half(row, tp, cp)}

\* The chunks of context-parallel rank `rank` of what stands at the attended columns of a row.
ChunksOf(row, values, tp, cp, rank) ==
  LET length == AlignedLength(row, tp, cp)
      half   == Half(row, tp, cp)
      padded == values \o [i \in 1 .. length - Len(values) |-> Pad]
      front  == FrontOf(row, values, tp, cp, rank)
  IN  IF cp = 1 THEN padded
      ELSE [i \in 1 .. half |-> IF Len(front) = 1 THEN front[1] ELSE front[i]]
           \o SubSeq(padded, length - half * (rank + 1) + 1, length - half * rank)

PackedChunks(rows, values, tp, cp, rank) ==
  FlattenSeq([i \in DOMAIN rows |-> ChunksOf(rows[i], values[i], tp, cp, rank)])

\* The label of a token: from the last column of the prompt on, the next column's.
LabelOf(token) ==
  IF token[2] \in PromptLength .. PromptLength + ResponseLength - 1
    THEN <<token[1], token[2] + 1>> ELSE Pad

ChunkLogits(rows, tp, cp, rank) ==
  PackedChunks(rows, [i \in DOMAIN rows |-> Attended(rows[i])], tp, cp, rank)
ChunkLogProbs(rows, tp, cp, rank) ==
  LET tokens(i) == Attended(rows[i])
      labels == [i \in DOMAIN rows |-> [j \in DOMAIN tokens(i) |-> LabelOf(tokens(i)[j])]]
      masked(pair) == IF pair[2][2] = Pad[2] THEN Zero ELSE pair  \* columns start at one
      pairs  == LogProbs(ChunkLogits(rows, tp, cp, rank), PackedChunks(rows, labels, tp, cp, rank))
  IN  [i \in DOMAIN pairs |-> masked(pairs[i])]

\* The rows put together again from the chunks of all ranks, without their padding.
JoinedChunks(rows, shares, tp, cp) ==
  LET length(i) == AlignedLength(rows[i], tp, cp)
      half(i)   == Half(rows[i], tp, cp)
      cuSeqlensPadded[i \in 0 .. Len(rows)] == IF i = 0 THEN 0 ELSE cuSeqlensPadded[i - 1] + length(i)
      start(i)  == cuSeqlensPadded[i - 1] \div cp
      chunk(i, j) == (j - 1) \div half(i)
      Joined(i, j) ==
        IF cp = 1 THEN shares[1][start(i) + j]
        ELSE LET within == ((j - 1) % half(i)) + 1
             IN  IF chunk(i, j) < cp
                   THEN shares[chunk(i, j) + 1][start(i) + within]
                   ELSE shares[2 * cp - chunk(i, j)][start(i) + half(i) + within]
  IN  FlattenSeq([i \in DOMAIN rows |-> [j \in DOMAIN Attended(rows[i]) |-> Joined(i, j)]])

-----------------------------------------------------------------------------
\* What it must be: position t of the response is scored where the token before it is.
Expected(row, t) == <<<<row.id, PromptLength + t - 1>>, <<row.id, PromptLength + t>>>>
=============================================================================
