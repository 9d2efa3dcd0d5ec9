-------------------------- MODULE SeqlenBalancing --------------------------
(***************************************************************************)
(* verl.utils.seqlen_balancing: how rows of different lengths are dealt to *)
(* data-parallel ranks and to micro-batches, and brought back in order.    *)
(* A partition is a sequence of sequences of row indices.                  *)
(***************************************************************************)
EXTENDS Integers, Sequences, FiniteSets, SequencesExt

CeilDiv(a, b) == -((-a) \div b)

\* Proportional to the FLOPs of a dense transformer block on one row.
Workload(length) == 24576 * length + length * length

Workloads(lengths) == [i \in DOMAIN lengths |-> Workload(lengths[i])]

Load(w, items) ==
  LET sum[i \in 0 .. Len(items)] == IF i = 0 THEN 0 ELSE sum[i - 1] + w[items[i]]
  IN  sum[Len(items)]

\* A stable sort.  `smaller' has the pairs of places whose elements are out of doubt.
Sorted(q, smaller) ==
  LET Before(i) == {j \in DOMAIN q : <<j, i>> \in smaller \/ (j < i /\ <<i, j>> \notin smaller)}
  IN  [place \in DOMAIN q |-> q[CHOOSE i \in DOMAIN q : Cardinality(Before(i)) = place - 1]]

Pairs(q) == (DOMAIN q) \X (DOMAIN q)

\* Set.__lt__ of karmarkar_karp, reversed.  Two sets share no row: the first decides.
Heavier(w, a, b) ==
  \/ Load(w, a) > Load(w, b)
  \/ Load(w, a) = Load(w, b) /\ \/ Len(a) > Len(b)
                                \/ Len(a) = Len(b) /\ a # <<>> /\ a[1] > b[1]

Descending(w, sets) == Sorted(sets, {p \in Pairs(sets) : Heavier(w, sets[p[1]], sets[p[2]])})

Spread(w, state) == Load(w, state[1]) - Load(w, Last(state))

\* State.__lt__: the state the heap gives first.
PoppedBefore(w, s, t) ==
  \/ Spread(w, s) > Spread(w, t)
  \/ Spread(w, s) = Spread(w, t) /\ Heavier(w, s[1], t[1])

\* The heaviest set of one state takes the lightest of the other.
MergeStates(w, s, t) == Descending(w, [i \in DOMAIN s |-> s[i] \o t[Len(s) + 1 - i]])

MergeTwo(w, states) ==
  LET First(S) == CHOOSE s \in S : \A t \in S \ {s} : PoppedBefore(w, s, t)
      s0 == First(states)
      s1 == First(states \ {s0})
  IN  (states \ {s0, s1}) \cup {MergeStates(w, s0, s1)}

\* Row numbers by weight.
ByWeight(w, rows) == Sorted(rows, {p \in Pairs(rows) : w[rows[p[1]]] < w[rows[p[2]]]})
Ascending(w) == ByWeight(w, [i \in DOMAIN w |-> i])

\* One state per row, or with equal sizes per k rows next to each other in length.
FirstStates(w, k, equalSize) ==
  LET order == Ascending(w) IN
    IF equalSize
      THEN {Descending(w, [i \in 1 .. k |-> <<order[o * k + i]>>]) : o \in 0 .. Len(w) \div k - 1}
      ELSE {[i \in 1 .. k |-> IF i = 1 THEN <<o>> ELSE <<>>] : o \in DOMAIN w}

KarmarkarKarp(w, k, equalSize) ==
  LET merges == (IF equalSize THEN Len(w) \div k ELSE Len(w)) - 1
      after[m \in 0 .. merges] ==
        IF m = 0 THEN FirstStates(w, k, equalSize) ELSE MergeTwo(w, after[m - 1])
  IN  CHOOSE s \in after[merges] : TRUE

\* get_seqlen_balanced_partitions asserts what CanPartition and IsPartition say.
CanPartition(w, k, equalSize) == Len(w) >= k /\ (equalSize => Len(w) % k = 0)

Increasing(rows) == Sorted(rows, {p \in Pairs(rows) : rows[p[1]] < rows[p[2]]})

BalancedPartitions(w, k, equalSize) ==
  LET partitions == KarmarkarKarp(w, k, equalSize)
  IN  [p \in DOMAIN partitions |-> Increasing(partitions[p])]

IsPartition(partitions, n) ==
  /\ \A p \in DOMAIN partitions : partitions[p] # <<>>
  /\ UNION {ToSet(partitions[p]) : p \in DOMAIN partitions} = 1 .. n

\* s[from::2]
EverySecond(s, from) == [i \in 1 .. (Len(s) - from) \div 2 + 1 |-> s[2 * i - 2 + from]]

\* The rows of the driver's batch in the order _balance_batch gives them, and just sorted.
SortedOrder(lengths, worldSize) == Ascending(Workloads(lengths))
BalancedOrder(lengths, worldSize) ==
  LET w          == Workloads(lengths)
      partitions == BalancedPartitions(w, worldSize, TRUE)
      SmallAtEnds(p) == EverySecond(p, 1) \o Reverse(EverySecond(p, 2))
  IN  FlattenSeq([p \in DOMAIN partitions |-> SmallAtEnds(ByWeight(w, partitions[p]))])

\* How many micro-batches a rank asks for by itself.
MicroBatchesWanted(lengths, maxTokens) ==
  LET wanted == CeilDiv(Load(lengths, [i \in DOMAIN lengths |-> i]), maxTokens)
  IN  IF wanted < Len(lengths) THEN wanted ELSE Len(lengths)

\* rearrange_micro_batches once the number is agreed on: light micro-batches at both ends.
MicroBatches(lengths, number) ==
  LET w      == Workloads(lengths)
      parts  == BalancedPartitions(w, number, FALSE)
      Earlier(p, q) == \/ Load(w, p) > Load(w, q)
                       \/ Load(w, p) = Load(w, q) /\ p[1] > q[1]
      sorted == Sorted(parts, {p \in Pairs(parts) : Earlier(parts[p[1]], parts[p[2]])})
  IN  Reverse(EverySecond(sorted, 1)) \o EverySecond(sorted, 2)

ReverseIdx(indices) ==
  [j \in DOMAIN indices |-> CHOOSE i \in DOMAIN indices : indices[i] = j]

\* restore_dynamic_batch, and the same with the index list not inverted.
Gathered(data, indices) == [i \in DOMAIN data |-> data[indices[i]]]
Unrestored(data, partitions) == Gathered(data, FlattenSeq(partitions))
Restored(data, partitions) == Gathered(data, ReverseIdx(FlattenSeq(partitions)))
=============================================================================
