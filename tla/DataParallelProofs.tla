------------------------- MODULE DataParallelProofs -------------------------
(***************************************************************************)
(* Theorems about DataParallel, for every configuration and all shapes of  *)
(* responses: the rows of a batch keep together through generation and     *)
(* balancing, and are dealt evenly; the ranks run as many micro-batches as *)
(* each other, so none is left waiting for another; and the optimizers of  *)
(* critic and actor train every row once per epoch.  The first sections    *)
(* say what the operators of DataProto do to the columns of a batch; those *)
(* after the first theorem follow a batch to the ranks, and those after    *)
(* the second the rows of a rank into the steps of an optimizer.           *)
(***************************************************************************)
EXTENDS DataParallel, SeqlenBalancingProofs

-----------------------------------------------------------------------------
\* Columns of a batch.

\* A sequence of n rows, whatever they are.
Column(x, n) == x = [i \in 1 .. n |-> x[i]]

\* Its rows make a set it is a sequence over.
LEMMA ColumnIs ==
  ASSUME NEW n \in Nat, NEW x, Column(x, n)
  PROVE  DOMAIN x = 1 .. n /\ Len(x) = n /\ x \in Seq({x[i] : i \in 1 .. n})
<1> DEFINE S == {x[i] : i \in 1 .. n}
<1>1. DOMAIN x = 1 .. n
  BY DEF Column
<1>2. x \in [1 .. n -> S]
  BY DEF Column
<1> HIDE DEF S
<1>3. x \in Seq(S) /\ Len(x) = n
  BY <1>2
<1> QED BY <1>1, <1>3 DEF S

\* Whatever is given row by row is one.
LEMMA ColumnMade ==
  ASSUME NEW n \in Nat, NEW x, NEW S, x \in [1 .. n -> S]
  PROVE  Column(x, n)
BY DEF Column

\* One after the other.
Joins(u, v, a, b, x) ==
  /\ Column(x, a + b)
  /\ \A i \in 1 .. a : x[i] = u[i]
  /\ \A j \in 1 .. b : x[a + j] = v[j]

\* \o puts two columns one after the other.
LEMMA ColumnsJoined ==
  ASSUME NEW a \in Nat, NEW b \in Nat, NEW u, NEW v, Column(u, a), Column(v, b)
  PROVE  Joins(u, v, a, b, u \o v)
<1> DEFINE A == {u[i] : i \in 1 .. a}
           B == {v[i] : i \in 1 .. b}
           S == A \cup B
<1>1. u \in Seq(A) /\ v \in Seq(B) /\ Len(u) = a /\ Len(v) = b
  BY ColumnIs
<1> HIDE DEF A, B
<1>2. u \in Seq(S) /\ v \in Seq(S)
  BY <1>1
<1> HIDE DEF S
<1>3. /\ u \o v \in Seq(S) /\ Len(u \o v) = a + b
      /\ \A i \in 1 .. a + b : (u \o v)[i] = IF i <= a THEN u[i] ELSE v[i - a]
  BY <1>1, <1>2, ConcatProperties
<1>4. Column(u \o v, a + b)
  <2> DEFINE x == u \o v
             n == a + b
  <2>1. x \in Seq(S) /\ Len(x) = n /\ n \in Nat
    BY <1>3
  <2> HIDE DEF x, n
  <2>2. x \in [1 .. n -> S]
    BY <2>1
  <2>3. Column(x, n)
    BY <2>1, <2>2, ColumnMade
  <2> QED BY <2>3 DEF x, n
<1>5. ASSUME NEW i \in 1 .. a PROVE (u \o v)[i] = u[i]
  BY <1>3
<1>6. ASSUME NEW j \in 1 .. b PROVE (u \o v)[a + j] = v[j]
  <2>1. a + j \in 1 .. a + b /\ ~(a + j <= a) /\ (a + j) - a = j
    OBVIOUS
  <2> QED BY <1>3, <2>1
<1> QED BY <1>4, <1>5, <1>6 DEF Joins

\* The lists that FlattenSeq's recursion goes through.
Flattens(s, k, f) == f[1] = s[1] /\ \A i \in 2 .. k : f[i] = f[i - 1] \o s[i]

\* FlattenSeq goes through these lists, whatever the lists hold.
LEMMA FlattenIs ==
  ASSUME NEW k \in Nat \ {0}, NEW s, Len(s) = k
  PROVE  \E f : Flattens(s, k, f) /\ FlattenSeq(s) = f[k]
<1> DEFINE Upto(n) == \E f : f = [i \in 1 .. n |-> IF i = 1 THEN s[i] ELSE f[i - 1] \o s[i]]
           N == {n \in Nat : Upto(n)}
<1>1. 0 \in N
  <2> DEFINE g == [i \in 1 .. 0 |-> 0]
  <2>1. g = [i \in 1 .. 0 |-> IF i = 1 THEN s[i] ELSE g[i - 1] \o s[i]]
    OBVIOUS
  <2> QED BY <2>1
<1>2. ASSUME NEW n \in N PROVE n + 1 \in N
  <2>1. PICK f : f = [i \in 1 .. n |-> IF i = 1 THEN s[i] ELSE f[i - 1] \o s[i]]
    OBVIOUS
  <2> DEFINE g == [i \in 1 .. n + 1 |-> IF i = n + 1
                                          THEN IF i = 1 THEN s[i] ELSE f[n] \o s[i] ELSE f[i]]
  <2>2. ASSUME NEW i \in 1 .. n + 1 PROVE g[i] = IF i = 1 THEN s[i] ELSE g[i - 1] \o s[i]
    <3>1. CASE i = n + 1
      BY <3>1
    <3>2. CASE i \in 1 .. n
      <4>1. f[i] = IF i = 1 THEN s[i] ELSE f[i - 1] \o s[i]
        BY <2>1, <3>2
      <4> QED BY <4>1, <3>2
    <3> QED BY <3>1, <3>2
  <2>3. g = [i \in 1 .. n + 1 |-> IF i = 1 THEN s[i] ELSE g[i - 1] \o s[i]]
    BY <2>2
  <2> HIDE DEF g
  <2>4. Upto(n + 1)
    BY <2>3, Zenon
  <2>5. n + 1 \in Nat
    OBVIOUS
  <2> HIDE DEF Upto
  <2> QED BY <2>4, <2>5
<1> HIDE DEF N
<1>3. N = Nat
  <2>1. N \in SUBSET Nat
    BY DEF N
  <2> QED BY <1>1, <1>2, <2>1, Upward
<1>4. Upto(k)
  BY <1>3 DEF N
<1> DEFINE f0 == CHOOSE f : f = [i \in 1 .. k |-> IF i = 1 THEN s[i] ELSE f[i - 1] \o s[i]]
<1>5. f0 = [i \in 1 .. k |-> IF i = 1 THEN s[i] ELSE f0[i - 1] \o s[i]]
  BY <1>4
<1>6. FlattenSeq(s) = f0[k]
  BY DEF FlattenSeq
<1> HIDE DEF f0
<1>7. Flattens(s, k, f0)
  <2>1. \A i \in 1 .. k : f0[i] = IF i = 1 THEN s[i] ELSE f0[i - 1] \o s[i]
    BY <1>5, Zenon
  <2>2. 1 \in 1 .. k /\ \A i \in 2 .. k : i \in 1 .. k /\ i # 1
    OBVIOUS
  <2>3. f0[1] = s[1]
    BY <2>1, <2>2, Zenon
  <2>4. \A i \in 2 .. k : f0[i] = f0[i - 1] \o s[i]
    BY <2>1, <2>2, Zenon
  <2> QED BY <2>3, <2>4 DEF Flattens
<1> QED BY <1>6, <1>7

\* Lists of m rows each make a grid, which is gone through line by line.
Lists(s, k, m) == Len(s) = k /\ \A i \in 1 .. k : Column(s[i], m)
Grid(s, k, m, x) ==
  /\ Column(x, k * m)
  /\ \A i \in 1 .. k : \A j \in 1 .. m : x[(i - 1) * m + j] = s[i][j]

\* FlattenSeq makes the grid of its lists.
LEMMA FlattenGrid ==
  ASSUME NEW k \in Nat \ {0}, NEW m \in Nat, NEW s, Lists(s, k, m)
  PROVE  Grid(s, k, m, FlattenSeq(s))
<1> USE DEF Lists
<1>1. PICK f : Flattens(s, k, f) /\ FlattenSeq(s) = f[k]
  BY FlattenIs
<1> DEFINE Done(n) == /\ Column(f[n], n * m)
                      /\ \A i \in 1 .. n : \A j \in 1 .. m : f[n][(i - 1) * m + j] = s[i][j]
           N == {n \in Nat : n + 1 <= k => Done(n + 1)}
<1>2. 0 \in N
  <2>1. f[1] = s[1] /\ 1 * m = m /\ Column(s[1], m)
    BY <1>1 DEF Flattens
  <2>2. Column(f[1], 1 * m)
    BY <2>1
  <2>3. ASSUME NEW i \in 1 .. 1, NEW j \in 1 .. m PROVE f[1][(i - 1) * m + j] = s[i][j]
    <3>1. i = 1 /\ (i - 1) * m + j = j
      OBVIOUS
    <3> QED BY <2>1, <3>1
  <2>4. Done(1)
    BY <2>2, <2>3
  <2> HIDE DEF Done
  <2> QED BY <2>4
<1>3. ASSUME NEW n \in N PROVE n + 1 \in N
  <2>1. CASE ~(n + 2 <= k)
    BY <2>1
  <2>2. CASE n + 2 <= k
    <3> DEFINE l == n + 1
    <3>1. Done(l) /\ l \in Nat /\ l + 1 \in 2 .. k /\ l + 1 \in 1 .. k /\ (l + 1) - 1 = l
      BY <2>2
    <3> HIDE DEF l
    <3> DEFINE u == f[l]
               v == s[l + 1]
               a == l * m
    <3>2. f[l + 1] = u \o v
      BY <1>1, <3>1 DEF Flattens
    <3>3. Column(u, a) /\ Column(v, m) /\ a \in Nat
      BY <3>1
    <3>4. \A i \in 1 .. l : \A j \in 1 .. m : u[(i - 1) * m + j] = s[i][j]
      BY <3>1
    <3> HIDE DEF u, v
    <3>5. /\ Column(u \o v, a + m)
          /\ \A i \in 1 .. a : (u \o v)[i] = u[i]
          /\ \A j \in 1 .. m : (u \o v)[a + j] = v[j]
      <4> HIDE DEF a
      <4>1. Joins(u, v, a, m, u \o v)
        BY <3>3, ColumnsJoined
      <4> QED BY <4>1 DEF Joins
    <3>6. (l + 1) * m = a + m
      BY <3>1
    <3>7. ASSUME NEW i \in 1 .. l + 1, NEW j \in 1 .. m PROVE f[l + 1][(i - 1) * m + j] = s[i][j]
      <4>1. CASE i = l + 1
        <5>1. (i - 1) * m = a
          BY <3>1, <4>1
        <5> HIDE DEF a
        <5> QED BY <3>2, <3>5, <4>1, <5>1 DEF v
      <4>2. CASE i # l + 1
        <5>1. i \in 1 .. l /\ i - 1 \in 0 .. l - 1
          BY <3>1, <4>2
        <5>2. (i - 1) * m + j \in 1 .. a
          <6>1. m \in Nat \ {0}
            OBVIOUS
          <6> QED BY <3>1, <5>1, <6>1, LineAndPlace
        <5> HIDE DEF a
        <5> QED BY <3>2, <3>4, <3>5, <5>1, <5>2
      <4> QED BY <4>1, <4>2
    <3>8. Column(f[l + 1], (l + 1) * m)
      BY <3>2, <3>5, <3>6
    <3>9. Done(l + 1)
      BY <3>7, <3>8
    <3> HIDE DEF Done
    <3> QED BY <3>1, <3>9 DEF l
  <2> QED BY <2>1, <2>2
<1>4. N = Nat
  <2>1. N \in SUBSET Nat
    OBVIOUS
  <2> HIDE DEF N
  <2> QED BY <1>2, <1>3, <2>1, Upward
<1>5. k - 1 \in N /\ (k - 1) + 1 = k
  <2> HIDE DEF N
  <2> QED BY <1>4
<1>6. Done(k)
  BY <1>5
<1> QED BY <1>1, <1>6 DEF Grid

-----------------------------------------------------------------------------
\* _balance_batch.

\* Rows taken from both ends: all of them, each once.
LEMMA SmallAtEndsIs ==
  ASSUME NEW m \in Nat, NEW p, Column(p, m)
  PROVE  \E q \in Orders(m) : MovedBy(q, m, p, EverySecond(p, 1) \o Reverse(EverySecond(p, 2)))
<1> DEFINE a == (m - 1) \div 2 + 1
           b == (m - 2) \div 2 + 1
           u == EverySecond(p, 1)
           v == EverySecond(p, 2)
           z == Reverse(v)
           q == [i \in 1 .. m |-> IF i <= a THEN 2 * i - 1 ELSE 2 * (m - i + 1)]
<1>1. a \in Nat /\ b \in Nat /\ a + b = m /\ (2 * a = m \/ 2 * a = m + 1)
  OBVIOUS
<1>2. Len(p) = m
  BY ColumnIs
<1>3. u = [i \in 1 .. a |-> p[2 * i - 1]]
  BY <1>2 DEF EverySecond
<1>4. v = [i \in 1 .. b |-> p[2 * i]]
  BY <1>2 DEF EverySecond
<1> HIDE DEF a, b, u, v
<1>5. Len(v) = b /\ \A i \in 1 .. b : v[i] = p[2 * i]
  BY <1>1, <1>4
<1>6. z = [i \in 1 .. b |-> v[b - i + 1]]
  BY <1>5 DEF Reverse
<1>7. \A i \in 1 .. b : z[i] = p[2 * (b - i + 1)]
  BY <1>1, <1>5, <1>6
<1> HIDE DEF z
<1>8. Column(u, a) /\ Column(z, b) /\ \A i \in 1 .. a : u[i] = p[2 * i - 1]
  BY <1>3, <1>6 DEF Column
<1>9. Joins(u, z, a, b, u \o z)
  BY <1>1, <1>8, ColumnsJoined
<1> DEFINE x == u \o z
<1> HIDE DEF x
<1>10. DOMAIN x = 1 .. m /\ Column(x, m)
  BY <1>1, <1>9 DEF Joins, Column, x
<1>11. ASSUME NEW i \in 1 .. m PROVE x[i] = p[q[i]]
  <2>1. CASE i <= a
    <3>1. i \in 1 .. a /\ q[i] = 2 * i - 1
      BY <1>1, <2>1
    <3> QED BY <1>8, <1>9, <3>1 DEF Joins, x
  <2>2. CASE ~(i <= a)
    <3>1. i - a \in 1 .. b /\ i = a + (i - a) /\ q[i] = 2 * (m - i + 1) /\ b - (i - a) + 1 = m - i + 1
      BY <1>1, <2>2
    <3>2. x[i] = z[i - a]
      BY <1>9, <3>1 DEF Joins, x
    <3> QED BY <1>7, <3>1, <3>2
  <2> QED BY <2>1, <2>2
<1>12. q \in Orders(m)
  <2>1. q \in [1 .. m -> 1 .. m]
    BY <1>1
  <2>2. ASSUME NEW i \in 1 .. m, NEW j \in 1 .. m, q[i] = q[j] PROVE i = j
    BY <1>1, <2>2
  <2>3. ASSUME NEW j \in 1 .. m PROVE \E i \in 1 .. m : q[i] = j
    <3>1. CASE j % 2 = 1
      <4>1. (j + 1) \div 2 \in 1 .. m /\ (j + 1) \div 2 <= a /\ 2 * ((j + 1) \div 2) - 1 = j
        BY <1>1, <3>1
      <4> QED BY <4>1
    <3>2. CASE j % 2 = 0
      <4> DEFINE i == m - (j \div 2) + 1
      <4>1. i \in 1 .. m /\ ~(i <= a) /\ 2 * (m - i + 1) = j
        BY <1>1, <3>2
      <4> HIDE DEF i
      <4> QED BY <4>1
    <3> QED BY <3>1, <3>2
  <2> QED BY <2>1, <2>2, <2>3 DEF Orders
<1>13. MovedBy(q, m, p, x)
  <2>1. x = [i \in 1 .. m |-> x[i]]
    BY <1>10 DEF Column
  <2> HIDE DEF q
  <2>2. [i \in 1 .. m |-> x[i]] = [i \in 1 .. m |-> p[q[i]]]
    BY <1>11
  <2> QED BY <2>1, <2>2 DEF MovedBy
<1> QED BY <1>12, <1>13 DEF x, u, z, v

\* The share of rank r, of size rows, in an order of the rows.
Part(order, size, r) == [i \in 1 .. size |-> order[(r - 1) * size + i]]

\* Another order of the m rows of a list.
Rearranged(R, m, a, b) == b \in Seq(R) /\ Len(b) = m /\ ToSet(b) = ToSet(a) /\ Distinct(b)

\* Moved by an order, a share keeps its rows.
LEMMA RowsMoved ==
  ASSUME NEW R, NEW m \in Nat, NEW a \in [1 .. m -> R], Distinct(a), NEW p \in Orders(m), NEW b,
         MovedBy(p, m, a, b)
  PROVE  Rearranged(R, m, a, b)
<1>1. b \in Seq(R) /\ Len(b) = m /\ ToSet(b) = ToSet(a) /\ (Distinct(a) => Distinct(b))
  BY Moved
<1> QED BY <1>1 DEF Rearranged

\* One partition as the order has it: its rows, light ones at both ends.
LEMMA PartitionInOrder ==
  ASSUME NEW R, NEW w \in [R -> Nat], NEW m \in Nat, NEW a \in [1 .. m -> R], Distinct(a), NEW b,
         b = EverySecond(ByWeight(w, a), 1) \o Reverse(EverySecond(ByWeight(w, a), 2))
  PROVE  Rearranged(R, m, a, b)
<1> DEFINE c == ByWeight(w, a)
           number == [i \in 1 .. m |-> w[a[i]]]
<1>1. ByNumber(m, a, number, c)
  BY ByWeightIs
<1>2. b = EverySecond(c, 1) \o Reverse(EverySecond(c, 2))
  OBVIOUS
<1> HIDE DEF number, c
<1>3. PICK p \in Orders(m) : MovedBy(p, m, a, c)
  BY <1>1 DEF ByNumber, MovedBy
<1>4. Rearranged(R, m, a, c)
  BY <1>3, RowsMoved
<1>5. c \in [1 .. m -> R] /\ ToSet(c) = ToSet(a) /\ Distinct(c)
  BY <1>4 DEF Rearranged
<1>6. Column(c, m)
  BY <1>5, ColumnMade
<1>7. PICK q \in Orders(m) : MovedBy(q, m, c, b)
  BY <1>2, <1>6, SmallAtEndsIs
<1>8. Rearranged(R, m, c, b)
  BY <1>5, <1>7, RowsMoved
<1> QED BY <1>5, <1>8 DEF Rearranged

\* k partitions of n rows, with as many rows each.
Cover(n, k, parts) ==
  /\ parts \in [1 .. k -> Seq(1 .. n)]
  /\ \A i \in 1 .. k : Distinct(parts[i]) /\ Len(parts[i]) = n \div k
  /\ \A i, j \in 1 .. k : i # j => ToSet(parts[i]) \cap ToSet(parts[j]) = {}
  /\ \A o \in 1 .. n : \E i \in 1 .. k : o \in ToSet(parts[i])

\* k times a k-th is the whole.
LEMMA Shares ==
  ASSUME NEW n \in Nat, NEW k \in Nat \ {0}, n % k = 0
  PROVE  n \div k \in Nat /\ k * (n \div k) = n
<1> DEFINE q == n \div k
<1>1. q \in Nat /\ n = (q * k) + (n % k)
  BY Lines
<1> HIDE DEF q
<1>2. q * k \in Nat /\ k * q = q * k
  BY <1>1
<1>3. k * q = n
  BY <1>1, <1>2
<1> QED BY <1>1, <1>3 DEF q

\* Nothing else is.
LEMMA ShareOnly ==
  ASSUME NEW n \in Nat, NEW k \in Nat \ {0}, NEW q \in Nat, q * k = n
  PROVE  q = n \div k /\ n % k = 0
<1> DEFINE d == n \div k
           r == n % k
<1>1. d \in Nat /\ r \in 0 .. k - 1 /\ n = (d * k) + r
  BY Lines
<1> HIDE DEF d, r
<1>2. d * k \in Nat /\ q * k \in Nat /\ q * k = d * k + r
  BY <1>1
<1>3. ~(d < q)
  <2> SUFFICES ASSUME d < q PROVE FALSE
    OBVIOUS
  <2>1. d * k + k <= q * k
    BY <1>1, NextLine
  <2> QED BY <1>1, <1>2, <2>1
<1>4. ~(q < d)
  <2> SUFFICES ASSUME q < d PROVE FALSE
    OBVIOUS
  <2>1. q * k + k <= d * k
    BY <1>1, NextLine
  <2> QED BY <1>1, <1>2, <2>1
<1>5. q = d
  BY <1>1, <1>3, <1>4
<1>6. r = 0
  BY <1>1, <1>2, <1>5
<1> QED BY <1>5, <1>6 DEF d, r

\* What the partitions of the rows are.
LEMMA PartitionsAre ==
  ASSUME NEW n \in Nat, NEW w \in [1 .. n -> Nat], NEW k \in Nat \ {0}, Fits(n, k, TRUE)
  PROVE  Cover(n, k, BalancedPartitions(w, k, TRUE))
<1> DEFINE parts == BalancedPartitions(w, k, TRUE)
<1>1. PICK d \in Nat : Apart(w, n, d)
  BY Bounded
<1>2. Partitioned(w, n, k, d, TRUE, parts)
  <2>1. d \in Int /\ TRUE \in BOOLEAN
    OBVIOUS
  <2>2. /\ Partitioned(w, n, k, d, TRUE, BalancedPartitions(w, k, TRUE))
        /\ \A i \in 1 .. k : Climbing(BalancedPartitions(w, k, TRUE)[i])
    BY <1>1, <2>1, SortedPartitions
  <2> QED BY <2>2
<1> HIDE DEF parts
<1>3. /\ parts \in [1 .. k -> Seq(1 .. n)]
      /\ \A i \in 1 .. k : Distinct(parts[i]) /\ Len(parts[i]) * k = n
      /\ \A i, j \in 1 .. k : i # j => ToSet(parts[i]) \cap ToSet(parts[j]) = {}
      /\ \A o \in 1 .. n : \E i \in 1 .. k : o \in ToSet(parts[i])
  BY <1>2 DEF Partitioned
<1>4. ASSUME NEW i \in 1 .. k PROVE Len(parts[i]) = n \div k
  <2> DEFINE l == Len(parts[i])
  <2>1. l \in Nat /\ l * k = n
    BY <1>3
  <2> HIDE DEF l
  <2>2. l = n \div k
    BY <2>1, ShareOnly
  <2> QED BY <2>2 DEF l
<1> QED BY <1>3, <1>4 DEF Cover, parts

\* Lists of equally many rows, in which every row stands once, are an order of the rows.
Deals(s, n, k, m) ==
  /\ Len(s) = k
  /\ \A i \in 1 .. k : s[i] \in [1 .. m -> 1 .. n] /\ Distinct(s[i])
  /\ \A i, j \in 1 .. k : i # j => ToSet(s[i]) \cap ToSet(s[j]) = {}
  /\ \A o \in 1 .. n : \E i \in 1 .. k : o \in ToSet(s[i])

\* Row (i, j) of a grid of n rows, and where a row is in it.
Placed(s, k, m, n, x) ==
  /\ \A i \in 1 .. k : \A j \in 1 .. m :
       (i - 1) * m + j \in 1 .. n /\ x[(i - 1) * m + j] = s[i][j]
  /\ \A o \in 1 .. n : \E i \in 1 .. k : \E j \in 1 .. m : o = (i - 1) * m + j /\ x[o] = s[i][j]

\* Every row of a grid has one place.
LEMMA GridPlaces ==
  ASSUME NEW k \in Nat \ {0}, NEW m \in Nat, NEW s, NEW x, Grid(s, k, m, x)
  PROVE  Placed(s, k, m, k * m, x)
<1>1. CASE m = 0
  <2>1. k * m = 0
    BY <1>1
  <2>2. 1 .. m = {} /\ 1 .. k * m = {}
    BY <1>1, <2>1
  <2> QED BY <2>2 DEF Placed
<1>2. CASE m # 0
  <2>1. m \in Nat \ {0} /\ k \in Nat
    BY <1>2
  <2>2. \A o \in 0 .. k - 1 : \A i \in 1 .. m : o * m + i \in 1 .. k * m
    BY <2>1, LineAndPlace
  <2>3. \A o \in 1 .. k * m : \E a \in 0 .. k - 1 : \E i \in 1 .. m : o = a * m + i
    BY <2>1, LineAndPlace
  <2>4. ASSUME NEW i \in 1 .. k, NEW j \in 1 .. m
        PROVE  (i - 1) * m + j \in 1 .. k * m /\ x[(i - 1) * m + j] = s[i][j]
    <3>1. i - 1 \in 0 .. k - 1
      OBVIOUS
    <3>2. (i - 1) * m + j \in 1 .. k * m
      BY <2>2, <3>1
    <3> QED BY <3>2 DEF Grid
  <2>5. ASSUME NEW o \in 1 .. k * m
        PROVE  \E i \in 1 .. k : \E j \in 1 .. m : o = (i - 1) * m + j /\ x[o] = s[i][j]
    <3>1. PICK a \in 0 .. k - 1, j \in 1 .. m : o = a * m + j
      BY <2>3
    <3> DEFINE i == a + 1
    <3>2. i \in 1 .. k /\ i - 1 = a
      OBVIOUS
    <3> HIDE DEF i
    <3>3. o = (i - 1) * m + j /\ x[o] = s[i][j]
      BY <2>4, <3>1, <3>2
    <3> QED BY <3>2, <3>3
  <2> QED BY <2>4, <2>5 DEF Placed
<1> QED BY <1>1, <1>2

\* Taken part after part, the rows of partitions that deal the rows out make an order of them.
LEMMA DealsOrder ==
  ASSUME NEW n \in Nat, NEW k \in Nat \ {0}, NEW m \in Nat, k * m = n, NEW s, Deals(s, n, k, m)
  PROVE  FlattenSeq(s) \in Orders(n) /\ Grid(s, k, m, FlattenSeq(s))
<1> DEFINE x == FlattenSeq(s)
           R == 1 .. n
<1>1. /\ Len(s) = k
      /\ \A i \in 1 .. k : s[i] \in [1 .. m -> R] /\ Distinct(s[i])
      /\ \A i, j \in 1 .. k : i # j => ToSet(s[i]) \cap ToSet(s[j]) = {}
      /\ \A o \in R : \E i \in 1 .. k : o \in ToSet(s[i])
  BY DEF Deals
<1> HIDE DEF R
<1>2. ASSUME NEW i \in 1 .. k PROVE Column(s[i], m)
  <2>1. s[i] \in [1 .. m -> R]
    BY <1>1
  <2> QED BY <2>1, ColumnMade
<1>3. Grid(s, k, m, x)
  BY <1>1, <1>2, FlattenGrid DEF Lists
<1> HIDE DEF x
<1>4. /\ \A i \in 1 .. k : \A j \in 1 .. m :
           (i - 1) * m + j \in 1 .. n /\ x[(i - 1) * m + j] = s[i][j]
      /\ \A o \in 1 .. n : \E i \in 1 .. k : \E j \in 1 .. m :
           o = (i - 1) * m + j /\ x[o] = s[i][j]
  <2>1. Placed(s, k, m, k * m, x)
    BY <1>3, GridPlaces
  <2>2. Placed(s, k, m, n, x)
    BY <2>1
  <2> QED BY <2>2 DEF Placed
<1>5. \A i \in 1 .. k : \A j \in 1 .. m : s[i][j] \in R /\ s[i][j] \in ToSet(s[i])
  BY <1>1 DEF ToSet
<1>6. x \in [1 .. n -> 1 .. n]
  <2>1. ASSUME NEW o \in 1 .. n PROVE x[o] \in R
    <3>1. PICK i \in 1 .. k, j \in 1 .. m : x[o] = s[i][j]
      BY <1>4
    <3> QED BY <1>5, <3>1
  <2>2. x = [o \in 1 .. n |-> x[o]]
    BY <1>3 DEF Grid, Column
  <2> QED BY <2>1, <2>2 DEF R
<1>7. ASSUME NEW o \in 1 .. n, NEW p \in 1 .. n, x[o] = x[p] PROVE o = p
  <2>1. PICK i \in 1 .. k, j \in 1 .. m : o = (i - 1) * m + j /\ x[o] = s[i][j]
    BY <1>4
  <2>2. PICK a \in 1 .. k, b \in 1 .. m : p = (a - 1) * m + b /\ x[p] = s[a][b]
    BY <1>4
  <2>3. s[i][j] \in ToSet(s[i]) /\ s[a][b] \in ToSet(s[a]) /\ s[i][j] = s[a][b]
    BY <1>5, <1>7, <2>1, <2>2
  <2>4. i = a
    BY <1>1, <2>3
  <2>5. j = b
    <3>1. DOMAIN s[i] = 1 .. m /\ Distinct(s[i])
      BY <1>1
    <3> QED BY <2>3, <2>4, <3>1 DEF Distinct
  <2> QED BY <2>1, <2>2, <2>4, <2>5
<1>8. ASSUME NEW o \in 1 .. n PROVE \E p \in 1 .. n : x[p] = o
  <2>1. PICK i \in 1 .. k : o \in ToSet(s[i])
    BY <1>1 DEF R
  <2>2. PICK j \in 1 .. m : o = s[i][j]
    <3>1. DOMAIN s[i] = 1 .. m
      BY <1>1
    <3> QED BY <2>1, <3>1 DEF ToSet
  <2>3. (i - 1) * m + j \in 1 .. n /\ x[(i - 1) * m + j] = o
    BY <1>4, <2>2
  <2> QED BY <2>3
<1>9. x \in Orders(n)
  BY <1>6, <1>7, <1>8 DEF Orders
<1> QED BY <1>3, <1>9 DEF x

\* The order has every row once, and the share of a rank is a partition.
Shared(w, n, k, parts, order) ==
  /\ order \in Orders(n)
  /\ \A r \in 1 .. k : Load(w, Part(order, n \div k, r)) = Load(w, parts[r])

\* The order of _balance_batch is one of all rows, whose shares are the partitions.
LEMMA BalancedOrderIs ==
  ASSUME NEW n \in Nat, NEW lengths, NEW w \in [1 .. n -> Nat], w = Workloads(lengths),
         NEW k \in Nat \ {0}, Fits(n, k, TRUE)
  PROVE  Shared(w, n, k, BalancedPartitions(w, k, TRUE), BalancedOrder(lengths, k))
<1> DEFINE parts == BalancedPartitions(w, k, TRUE)
           m == n \div k
           R == 1 .. n
           SmallAtEnds(p) == EverySecond(p, 1) \o Reverse(EverySecond(p, 2))
           s == [p \in 1 .. k |-> SmallAtEnds(ByWeight(w, parts[p]))]
           order == FlattenSeq(s)
<1>1. Cover(n, k, parts)
  BY PartitionsAre
<1>2. m \in Nat /\ k * m = n
  BY Shares DEF Fits
<1>3. /\ DOMAIN parts = 1 .. k
      /\ \A i \in 1 .. k : parts[i] \in Seq(R) /\ Distinct(parts[i]) /\ Len(parts[i]) = m
      /\ \A i, j \in 1 .. k : i # j => ToSet(parts[i]) \cap ToSet(parts[j]) = {}
      /\ \A o \in R : \E i \in 1 .. k : o \in ToSet(parts[i])
  BY <1>1 DEF Cover
<1>4. BalancedOrder(lengths, k) = order
  BY <1>3 DEF BalancedOrder
<1>5. w \in [R -> Nat] /\ DOMAIN s = 1 .. k /\ Len(s) = k
  OBVIOUS
<1>6. \A r \in 1 .. k : s[r] = EverySecond(ByWeight(w, parts[r]), 1) \o Reverse(EverySecond(ByWeight(w, parts[r]), 2))
  OBVIOUS
<1> HIDE DEF parts, m, R, s
<1>7. ASSUME NEW r \in 1 .. k
      PROVE  Rearranged(R, m, parts[r], s[r]) /\ Load(w, s[r]) = Load(w, parts[r])
  <2> DEFINE a == parts[r]
             b == s[r]
  <2>1. a \in Seq(R) /\ Distinct(a) /\ Len(a) = m
    BY <1>3
  <2>2. b = EverySecond(ByWeight(w, a), 1) \o Reverse(EverySecond(ByWeight(w, a), 2))
    BY <1>6
  <2> HIDE DEF a, b
  <2>3. a \in [1 .. m -> R]
    BY <2>1
  <2>4. Rearranged(R, m, a, b)
    BY <1>2, <1>5, <2>1, <2>2, <2>3, PartitionInOrder
  <2>5. b \in Seq(R) /\ Distinct(b) /\ ToSet(b) = ToSet(a)
    BY <2>4 DEF Rearranged
  <2>6. Load(w, b) = Load(w, a)
    <3>1. w \in [R -> Nat]
      BY <1>5
    <3>2. a \in Seq(R) /\ Distinct(a)
      BY <2>1
    <3> QED BY ONLY <2>5, <3>1, <3>2, LoadOfRows
  <2> QED BY <2>4, <2>6 DEF a, b
<1>8. Deals(s, n, k, m)
  <2>1. ASSUME NEW r \in 1 .. k PROVE s[r] \in [1 .. m -> R] /\ Distinct(s[r]) /\ ToSet(s[r]) = ToSet(parts[r])
    <3>1. s[r] \in Seq(R) /\ Len(s[r]) = m
      BY <1>7 DEF Rearranged
    <3>2. s[r] \in [1 .. m -> R]
      <4> DEFINE b == s[r]
      <4>1. b \in Seq(R) /\ Len(b) = m
        BY <3>1
      <4> HIDE DEF b
      <4>2. b \in [1 .. m -> R]
        BY <4>1
      <4> QED BY <4>2 DEF b
    <3> QED BY <1>7, <3>2 DEF Rearranged
  <2>2. /\ \A i, j \in 1 .. k : i # j => ToSet(s[i]) \cap ToSet(s[j]) = {}
        /\ \A o \in R : \E i \in 1 .. k : o \in ToSet(s[i])
    BY <1>3, <2>1
  <2> QED BY <1>5, <2>1, <2>2 DEF Deals, R
<1>9. order \in Orders(n) /\ Grid(s, k, m, order)
  BY <1>2, <1>8, DealsOrder
<1> HIDE DEF order
<1>10. ASSUME NEW r \in 1 .. k PROVE Part(order, m, r) = s[r]
  <2>1. s[r] = [i \in 1 .. m |-> s[r][i]]
    BY <1>8 DEF Deals
  <2>2. \A i \in 1 .. m : order[(r - 1) * m + i] = s[r][i]
    BY <1>9 DEF Grid
  <2>3. Part(order, m, r) = [i \in 1 .. m |-> s[r][i]]
    BY <2>2 DEF Part
  <2> QED BY <2>1, <2>3
<1>11. \A r \in 1 .. k : Load(w, Part(order, m, r)) = Load(w, parts[r])
  BY <1>7, <1>10
<1>12. Shared(w, n, k, parts, order)
  BY <1>9, <1>11 DEF Shared, m
<1> QED BY <1>4, <1>12 DEF parts

-----------------------------------------------------------------------------
\* Batches.

\* A batch of n rows.
Table(b, n) == DOMAIN b # {} /\ \A c \in DOMAIN b : Column(b[c], n)

\* len of a DataProto.
LEMMA TableRows ==
  ASSUME NEW n \in Nat, NEW b, Table(b, n)
  PROVE  Rows(b) = n
<1> DEFINE c == CHOOSE c \in DOMAIN b : TRUE
<1>1. c \in DOMAIN b /\ DOMAIN b # {}
  BY DEF Table
<1>2. Rows(b) = Len(b[c])
  BY <1>1 DEF Rows
<1> HIDE DEF c
<1>3. Column(b[c], n)
  BY <1>1 DEF Table
<1>4. Len(b[c]) = n
  BY <1>3, ColumnIs
<1> QED BY <1>2, <1>4

\* The rows of a batch that m indices name.
Picked(b, q, m, x) ==
  /\ DOMAIN x = DOMAIN b
  /\ Table(x, m)
  /\ \A c \in DOMAIN b : \A i \in 1 .. m : x[c][i] = b[c][q[i]]

\* What select_idxs and reorder make.
LEMMA SelectIdxsIs ==
  ASSUME NEW m \in Nat, NEW b, DOMAIN b # {}, NEW q, DOMAIN q = 1 .. m
  PROVE  Picked(b, q, m, SelectIdxs(b, q))
<1> DEFINE x == SelectIdxs(b, q)
<1>1. DOMAIN x = DOMAIN b /\ \A c \in DOMAIN b : x[c] = [i \in 1 .. m |-> b[c][q[i]]]
  BY DEF SelectIdxs
<1> HIDE DEF x
<1>2. ASSUME NEW c \in DOMAIN b PROVE Column(x[c], m) /\ \A i \in 1 .. m : x[c][i] = b[c][q[i]]
  <2> DEFINE y == x[c]
  <2>1. y = [i \in 1 .. m |-> b[c][q[i]]]
    BY <1>1
  <2>2. \A i \in 1 .. m : y[i] = b[c][q[i]]
    BY <2>1
  <2>3. Column(y, m)
    BY <2>1, <2>2 DEF Column
  <2> QED BY <2>2, <2>3
<1> QED BY <1>1, <1>2 DEF Picked, Table, x

\* Consecutive rows of a column.
LEMMA SubSeqIs ==
  ASSUME NEW n \in Nat, NEW x, Column(x, n), NEW a \in Nat, NEW m \in Nat, a + m <= n
  PROVE  SubSeq(x, a + 1, a + m) = [i \in 1 .. m |-> x[a + i]]
<1> DEFINE S == {x[i] : i \in 1 .. n}
           y == SubSeq(x, a + 1, a + m)
<1>1. \A i \in a + 1 .. a + m : x[i] \in S
  OBVIOUS
<1> HIDE DEF S
<1>2. /\ y \in Seq(S) /\ Len(y) = IF a + 1 <= a + m THEN (a + m) - (a + 1) + 1 ELSE 0
      /\ \A i \in 1 .. (a + m) - (a + 1) + 1 : y[i] = x[(a + 1) + i - 1]
  BY <1>1, SubSeqProperties
<1> HIDE DEF y
<1>3. Len(y) = m /\ y \in Seq(S)
  BY <1>2
<1>4. DOMAIN y = 1 .. m
  BY <1>3
<1>5. \A i \in 1 .. m : y[i] = x[a + i]
  BY <1>2
<1>6. y = [i \in 1 .. m |-> y[i]]
  BY <1>3
<1> QED BY <1>5, <1>6 DEF y

\* The k chunks of m rows each of a batch.
Chunked(b, k, m, x) ==
  /\ DOMAIN x = 1 .. k
  /\ \A w \in 1 .. k : /\ DOMAIN x[w] = DOMAIN b /\ Table(x[w], m)
                       /\ \A c \in DOMAIN b : \A i \in 1 .. m : x[w][c][i] = b[c][(w - 1) * m + i]

\* What chunk makes of a batch whose rows divide evenly.
LEMMA ChunkIs ==
  ASSUME NEW n \in Nat, NEW k \in Nat \ {0}, n % k = 0, NEW b, Table(b, n)
  PROVE  Chunked(b, k, n \div k, Chunk(b, k))
<1> DEFINE m == n \div k
           x == Chunk(b, k)
<1>1. Rows(b) = n
  BY TableRows
<1>2. x = [i \in 1 .. k |-> Slice(b, (i - 1) * m + 1, i * m)]
  BY <1>1 DEF Chunk
<1>3. m \in Nat /\ k * m = n
  BY Shares
<1> HIDE DEF m, x
<1>4. ASSUME NEW w \in 1 .. k
      PROVE  /\ DOMAIN x[w] = DOMAIN b /\ Table(x[w], m)
             /\ \A c \in DOMAIN b : \A i \in 1 .. m : x[w][c][i] = b[c][(w - 1) * m + i]
  <2> DEFINE a == (w - 1) * m
  <2>1. a \in Nat /\ a + m = w * m
    BY <1>3
  <2>2. a + m <= n
    <3>1. CASE m = 0
      <4>1. a = 0
        BY <3>1
      <4> QED BY <3>1, <4>1
    <3>2. CASE m # 0
      <4>1. m \in Nat \ {0} /\ w - 1 \in 0 .. k - 1 /\ m \in 1 .. m /\ k \in Nat
        BY <1>3, <3>2
      <4>2. (w - 1) * m + m \in 1 .. k * m
        BY <4>1, LineAndPlace
      <4> QED BY <1>3, <4>2
    <3> QED BY <3>1, <3>2
  <2>3. x[w] = Slice(b, a + 1, a + m)
    BY <1>2, <2>1
  <2> HIDE DEF a
  <2>4. DOMAIN x[w] = DOMAIN b /\ \A c \in DOMAIN b : x[w][c] = SubSeq(b[c], a + 1, a + m)
    BY <2>3 DEF Slice
  <2>5. ASSUME NEW c \in DOMAIN b
        PROVE  Column(x[w][c], m) /\ \A i \in 1 .. m : x[w][c][i] = b[c][a + i]
    <3> DEFINE y == x[w][c]
               z == b[c]
    <3>1. Column(z, n)
      BY DEF Table
    <3>2. y = SubSeq(z, a + 1, a + m)
      BY <2>4
    <3> HIDE DEF y, z
    <3>3. y = [i \in 1 .. m |-> z[a + i]]
      BY <1>3, <2>1, <2>2, <3>1, <3>2, SubSeqIs
    <3>4. Column(y, m) /\ \A i \in 1 .. m : y[i] = z[a + i]
      BY <3>3 DEF Column
    <3> QED BY <3>4 DEF y, z
  <2>6. DOMAIN b # {}
    BY DEF Table
  <2> QED BY <2>4, <2>5, <2>6 DEF Table, a
<1>5. DOMAIN x = 1 .. k
  BY <1>2
<1> QED BY <1>4, <1>5 DEF Chunked, m, x

\* k batches of m rows each, with the columns C, and x, these one after the other.
Batches(s, k, m, C) ==
  C # {} /\ DOMAIN s = 1 .. k /\ \A w \in 1 .. k : DOMAIN s[w] = C /\ Table(s[w], m)
Stacked(s, k, m, C, x) ==
  /\ DOMAIN x = C /\ Table(x, k * m)
  /\ \A c \in C : \A w \in 1 .. k : \A i \in 1 .. m : x[c][(w - 1) * m + i] = s[w][c][i]

\* What torch.concat makes of them.
LEMMA ConcatIs ==
  ASSUME NEW k \in Nat \ {0}, NEW m \in Nat, NEW s, NEW C, Batches(s, k, m, C)
  PROVE  Stacked(s, k, m, C, Concat(s))
<1>0. C # {} /\ DOMAIN s = 1 .. k /\ \A w \in 1 .. k : DOMAIN s[w] = C /\ Table(s[w], m)
  BY DEF Batches
<1> DEFINE x == Concat(s)
           list(c) == [w \in 1 .. k |-> s[w][c]]
<1>1. 1 \in 1 .. k /\ DOMAIN s[1] = C
  BY <1>0
<1>2. DOMAIN x = C /\ \A c \in C : x[c] = FlattenSeq(list(c))
  BY <1>0, <1>1 DEF Concat
<1> HIDE DEF x
<1>3. ASSUME NEW c \in C PROVE Grid(list(c), k, m, x[c])
  <2>1. Len(list(c)) = k
    OBVIOUS
  <2>2. \A w \in 1 .. k : Column(list(c)[w], m)
    BY <1>0 DEF Table
  <2> HIDE DEF list
  <2>3. Lists(list(c), k, m)
    BY <2>1, <2>2 DEF Lists
  <2>4. Grid(list(c), k, m, FlattenSeq(list(c)))
    BY <2>3, FlattenGrid
  <2> QED BY <1>2, <2>4
<1>4. Table(x, k * m)
  BY <1>0, <1>2, <1>3 DEF Table, Grid
<1>5. \A c \in C : \A w \in 1 .. k : \A i \in 1 .. m : x[c][(w - 1) * m + i] = s[w][c][i]
  BY <1>3 DEF Grid
<1> QED BY <1>2, <1>4, <1>5 DEF x, Stacked

\* Two batches of as many rows, side by side.
LEMMA UnionIs ==
  ASSUME NEW n \in Nat, NEW b, Table(b, n), NEW o, Table(o, n)
  PROVE  Table(Union(b, o), n) /\ DOMAIN Union(b, o) = DOMAIN b \cup DOMAIN o
<1>1. DOMAIN Union(b, o) = DOMAIN b \cup DOMAIN o
  BY DEF Union
<1>2. \A c \in DOMAIN Union(b, o) : Union(b, o)[c] = IF c \in DOMAIN o THEN o[c] ELSE b[c]
  BY DEF Union
<1> QED BY <1>1, <1>2 DEF Table

-----------------------------------------------------------------------------
\* Generation.

\* Place i of line a, and how it is found again.
At(x, a, k, i) == x = a * k + i
FoundAt(x, a, k, i) == x \in Nat /\ (x - 1) \div k = a /\ (x - 1) % k = i - 1

\* A place is found again by \div and %.
LEMMA LineOf ==
  ASSUME NEW k \in Nat \ {0}, NEW a \in Nat, NEW i \in 1 .. k, NEW x, At(x, a, k, i)
  PROVE  FoundAt(x, a, k, i)
<1> DEFINE y == x - 1
           b == y \div k
           j == y % k
<1>1. a * k \in Nat /\ x = a * k + i /\ x \in Nat /\ y \in Nat /\ y + 1 = x
  BY DEF At
<1> HIDE DEF y
<1>2. b \in Nat /\ j \in 0 .. k - 1 /\ y = (b * k) + j
  BY <1>1, Lines
<1> HIDE DEF b, j
<1>3. j + 1 \in 1 .. k /\ b * k + (j + 1) = a * k + i
  BY <1>1, <1>2
<1>4. b = a /\ j + 1 = i
  <2>1. \A c, d \in Nat : \A p, q \in 1 .. k : c * k + p = d * k + q => c = d /\ p = q
    BY LineAndPlace
  <2> DEFINE p == j + 1
  <2>2. p \in 1 .. k /\ b * k + p = a * k + i
    BY <1>3
  <2> HIDE DEF p
  <2>3. b = a /\ p = i
    BY <1>2, <2>1, <2>2
  <2> QED BY <2>3 DEF p
<1>5. j = i - 1
  BY <1>2, <1>4
<1> QED BY <1>1, <1>4, <1>5 DEF FoundAt, b, j, y

\* A grid of lines of lines: its size does not depend on where it is cut.
LEMMA Regroup ==
  ASSUME NEW a \in Nat, NEW b \in Nat, NEW c \in Nat
  PROVE  a * b \in Nat /\ c * (a * b) = a * (c * b) /\ (a * b) * c = a * (b * c)
OBVIOUS

\* A whole of `workers' shares.
Dealt(workers, share, times) == workers * share = times

\* Row i of the share of worker w answers prompt (i - 1) \div share, where a share has
\* `share' answers to each prompt.
OrderedAt(prompts, times, workers, share, i, x) ==
  LET order == PerPromptOrder(prompts, times, workers)
  IN  /\ x \in 1 .. prompts * times /\ order[x] \in 1 .. prompts * times
      /\ (order[x] - 1) \div times = (i - 1) \div share

\* In the order of _build_per_prompt_balanced_indices row i of every worker answers the same prompt.
LEMMA PerPromptOrderIs ==
  ASSUME NEW prompts \in Nat \ {0}, NEW times \in Nat \ {0}, NEW workers \in Nat \ {0},
         NEW share \in Nat \ {0}, Dealt(workers, share, times),
         NEW w \in 1 .. workers, NEW i \in 1 .. prompts * share, NEW x,
         At(x, w - 1, prompts * share, i)
  PROVE  OrderedAt(prompts, times, workers, share, i, x)
<1> DEFINE m == prompts * share
           n == prompts * times
           o == PerPromptOrder(prompts, times, workers)[x]
           p == (i - 1) \div share
           j == (x - 1) % share
<1>1. workers * share = times
  BY DEF Dealt
<1>2. times \div workers = share
  <2>1. share * workers = times
    BY <1>1
  <2>2. share = times \div workers /\ times % workers = 0
    BY <2>1, ShareOnly
  <2> QED BY <2>2
<1>3. m \in Nat /\ n \in Nat /\ workers * m = n
  BY <1>1, Regroup
<1>4. m \in Nat \ {0} /\ i \in 1 .. m
  BY <1>3
<1>5. x = (w - 1) * m + i
  BY DEF At
<1>6. PerPromptOrder(prompts, times, workers)
        = [y \in 1 .. n |-> ((((y - 1) % m) \div share) * times + ((y - 1) \div m) * share + ((y - 1) % share)) + 1]
  BY <1>2 DEF PerPromptOrder
<1> HIDE DEF m, n
<1>7. x \in 1 .. n
  <2>1. w - 1 \in 0 .. workers - 1 /\ workers \in Nat
    OBVIOUS
  <2>2. (w - 1) * m + i \in 1 .. workers * m
    BY <1>4, <2>1, LineAndPlace
  <2> QED BY <1>3, <1>5, <2>2
<1>8. x \in Nat /\ (x - 1) \div m = w - 1 /\ (x - 1) % m = i - 1
  <2> DEFINE a == w - 1
  <2>1. a \in Nat /\ At(x, a, m, i)
    BY <1>5 DEF At
  <2> HIDE DEF a
  <2>2. FoundAt(x, a, m, i)
    BY <1>4, <2>1, LineOf
  <2> QED BY <2>2 DEF FoundAt, a
<1>9. j \in 0 .. share - 1
  BY <1>2, <1>7
<1>10. o = (p * times + (w - 1) * share + j) + 1
  <2>1. o = ((((x - 1) % m) \div share) * times + ((x - 1) \div m) * share + ((x - 1) % share)) + 1
    BY <1>6, <1>7
  <2> QED BY <1>8, <2>1
<1>11. p \in 0 .. prompts - 1
  <2>1. PICK a \in 0 .. prompts - 1, b \in 1 .. share : i = a * share + b
    <3>1. prompts \in Nat
      OBVIOUS
    <3>2. \A y \in 1 .. prompts * share : \E a \in 0 .. prompts - 1 : \E b \in 1 .. share : y = a * share + b
      BY <1>2, <3>1, LineAndPlace
    <3> QED BY <3>2
  <2>2. a \in Nat
    OBVIOUS
  <2>3. FoundAt(i, a, share, b)
    BY <2>1, <2>2, LineOf DEF At
  <2> QED BY <2>3 DEF FoundAt
<1> HIDE DEF p, j, o
<1> DEFINE e == (w - 1) * share + (j + 1)
<1>12. e \in 1 .. times
  <2>1. w - 1 \in 0 .. workers - 1 /\ workers \in Nat /\ j + 1 \in 1 .. share
    BY <1>9, <1>2
  <2> DEFINE i0 == j + 1
  <2> HIDE DEF i0
  <2>2. (w - 1) * share + i0 \in 1 .. workers * share
    BY <1>2, <2>1, LineAndPlace DEF i0
  <2> QED BY <1>1, <2>2 DEF i0
<1>13. o = p * times + e
  <2> DEFINE c == p * times
             d == (w - 1) * share
  <2>1. c \in Int /\ d \in Int /\ j \in Int
    BY <1>1, <1>9, <1>11
  <2>2. o = (c + d + j) + 1 /\ e = d + (j + 1)
    BY <1>10
  <2> HIDE DEF c, d, e
  <2>3. o = c + e
    BY <2>1, <2>2
  <2> QED BY <2>3 DEF c
<1> HIDE DEF e
<1>14. (o - 1) \div times = p
  <2>1. p \in Nat
    BY <1>11
  <2>2. FoundAt(o, p, times, e)
    BY <1>12, <1>13, <2>1, LineOf DEF At
  <2> QED BY <2>2 DEF FoundAt
<1>15. o \in 1 .. n
  <2>1. prompts \in Nat
    OBVIOUS
  <2>2. p * times + e \in 1 .. prompts * times
    BY <1>11, <1>12, <2>1, LineAndPlace
  <2> QED BY <1>13, <2>2 DEF n
<1> QED BY <1>7, <1>14, <1>15 DEF OrderedAt, o, p, n

\* What a configuration is.
Known(c) ==
  /\ {c.world, c.tp, c.sp, c.pp, c.vppGroup, c.prompts, c.n, c.workers, c.maxTokens,
      c.micro, c.mini, c.epochs} \subseteq Nat \ {0}
  /\ {c.validate, c.balance, c.dynamic, c.topk, c.batchAgg} \subseteq BOOLEAN

Samples(c) == c.prompts * c.n
DealsAlike(c) == c.validate /\ c.n % c.workers = 0
ShareSize(c) == c.n \div c.workers

\* In a validation whose workers share the answers to every prompt, row i of each
\* worker's rows answers this prompt.
PromptOf(c, i) == ((i - 1) \div ShareSize(c)) + 1

\* The numbers of a configuration are positive.
LEMMA KnownConfig ==
  ASSUME cfg \in Configs
  PROVE  /\ Known(cfg) /\ Samples(cfg) \in Nat \ {0}
         /\ cfg.prompts \in Nat \ {0} /\ cfg.n \in Nat \ {0} /\ cfg.workers \in Nat \ {0} /\ cfg.world \in Nat \ {0}
<1>1. Known(cfg)
  BY ConfigsAssumption DEF Known
<1>2. cfg.prompts \in Nat \ {0} /\ cfg.n \in Nat \ {0} /\ cfg.workers \in Nat \ {0} /\ cfg.world \in Nat \ {0}
  BY <1>1 DEF Known
<1>3. Samples(cfg) \in Nat \ {0}
  <2> DEFINE a == cfg.prompts
             b == cfg.n
  <2>1. a \in Nat \ {0} /\ b \in Nat \ {0}
    BY <1>2
  <2> HIDE DEF a, b
  <2>2. a * b \in Nat \ {0}
    BY <2>1
  <2> QED BY <2>2 DEF a, b, Samples
<1> QED BY <1>1, <1>2, <1>3

\* Every prompt n times, whoever is to answer.
LEMMA GenerationBatchIs ==
  ASSUME cfg \in Configs
  PROVE  /\ Table(GenerationBatch, Samples(cfg)) /\ "uid" \in DOMAIN GenerationBatch
         /\ DealsAlike(cfg) => \A w \in 1 .. cfg.workers : \A i \in 1 .. cfg.prompts * ShareSize(cfg) :
              GenerationBatch.uid[(w - 1) * (cfg.prompts * ShareSize(cfg)) + i] = PromptOf(cfg, i)
<1> DEFINE prompts == [p \in 1 .. cfg.prompts |-> p]
           greedy  == IF cfg.estimator = "remax"
                        THEN [reward_baselines |-> [p \in DOMAIN prompts |-> GreedyOutcome(p)]]
                        ELSE <<>>
           columns == Union([uid |-> prompts], greedy)
           turns   == [i \in 1 .. Samples(cfg) |-> ((i - 1) \div cfg.n) + 1]
           order   == PerPromptOrder(cfg.prompts, cfg.n, cfg.workers)
           repeated == SelectIdxs(columns, turns)
           P == cfg.prompts
           n == cfg.n
           k == cfg.workers
           N == Samples(cfg)
<1>1. P \in Nat \ {0} /\ n \in Nat \ {0} /\ k \in Nat \ {0} /\ N \in Nat \ {0} /\ N = P * n
  BY KnownConfig DEF Samples
<1>2. /\ DOMAIN greedy \subseteq {"reward_baselines"}
      /\ \A c \in DOMAIN greedy : Column(greedy[c], P)
  <2>1. CASE cfg.estimator = "remax"
    <3> DEFINE x == [p \in 1 .. P |-> GreedyOutcome(p)]
    <3>1. Column(x, P)
      BY DEF Column
    <3>2. greedy = [reward_baselines |-> x]
      BY <2>1
    <3> HIDE DEF greedy, x
    <3> QED BY <3>1, <3>2
  <2>2. CASE cfg.estimator # "remax"
    <3>1. greedy = <<>>
      BY <2>2
    <3> HIDE DEF greedy
    <3>2. DOMAIN greedy = {}
      BY <3>1
    <3> QED BY <3>2
  <2> QED BY <2>1, <2>2
<1>3. /\ DOMAIN columns = {"uid"} \cup DOMAIN greedy
      /\ columns.uid = prompts
      /\ \A c \in DOMAIN greedy : c # "uid" => columns[c] = greedy[c]
  <2> HIDE DEF greedy, prompts
  <2> QED BY <1>2 DEF Union
<1>4. Table(columns, P) /\ "uid" \in DOMAIN columns /\ \A p \in 1 .. P : columns.uid[p] = p
  <2>1. Column(prompts, P) /\ \A p \in 1 .. P : prompts[p] = p
    BY DEF Column
  <2> HIDE DEF greedy, prompts, columns
  <2>2. \A c \in DOMAIN columns : Column(columns[c], P)
    BY <1>2, <1>3, <2>1
  <2> QED BY <1>3, <2>1, <2>2 DEF Table
<1> HIDE DEF columns, greedy, prompts
<1>5. Rows(columns) = P
  BY <1>1, <1>4, TableRows
<1>6. GenerationBatch = IF DealsAlike(cfg) THEN SelectIdxs(repeated, order) ELSE repeated
  BY <1>5 DEF GenerationBatch, Repeat, Reorder, DealsAlike, Samples, columns, greedy, prompts
<1>7. Picked(columns, turns, N, repeated)
  <2>1. DOMAIN turns = 1 .. N /\ DOMAIN columns # {}
    BY <1>4
  <2> HIDE DEF turns
  <2> QED BY <1>1, <2>1, SelectIdxsIs
<1> HIDE DEF repeated
<1>8. Table(repeated, N) /\ DOMAIN repeated = DOMAIN columns /\ \A i \in 1 .. N : repeated.uid[i] = columns.uid[turns[i]]
  BY <1>4, <1>7 DEF Picked
<1>9. CASE ~DealsAlike(cfg)
  BY <1>4, <1>6, <1>8, <1>9
<1>10. CASE DealsAlike(cfg)
  <2> DEFINE b == SelectIdxs(repeated, order)
             q == ShareSize(cfg)
  <2>1. DOMAIN order = 1 .. N
    BY DEF PerPromptOrder, Samples
  <2> HIDE DEF order
  <2>2. Picked(repeated, order, N, b)
    <3>1. DOMAIN repeated # {}
      BY <1>4, <1>8
    <3> QED BY <1>1, <2>1, <3>1, SelectIdxsIs
  <2> HIDE DEF b
  <2>3. Table(b, N) /\ "uid" \in DOMAIN b /\ \A x \in 1 .. N : b.uid[x] = repeated.uid[order[x]]
    BY <1>4, <1>8, <2>2 DEF Picked
  <2>4. q \in Nat \ {0} /\ Dealt(k, q, n)
    <3>1. n % k = 0
      BY <1>10 DEF DealsAlike
    <3>2. q \in Nat /\ k * q = n
      BY <1>1, <3>1, Shares DEF ShareSize
    <3> HIDE DEF q, n, k
    <3>3. q # 0
      <4> SUFFICES ASSUME q = 0 PROVE FALSE
        OBVIOUS
      <4>1. k * q = 0
        BY <1>1
      <4> QED BY <1>1, <3>2, <4>1
    <3> QED BY <3>2, <3>3 DEF Dealt
  <2>5. ASSUME NEW w \in 1 .. k, NEW i \in 1 .. P * q
        PROVE  b.uid[(w - 1) * (P * q) + i] = PromptOf(cfg, i)
    <3> DEFINE x == (w - 1) * (P * q) + i
               o == order[x]
    <3>1. At(x, w - 1, P * q, i)
      BY DEF At
    <3>9. w \in 1 .. k /\ i \in 1 .. P * q
      OBVIOUS
    <3> HIDE DEF x, P, n, k, q
    <3>2. OrderedAt(P, n, k, q, i, x)
      BY <1>1, <2>4, <3>1, <3>9, PerPromptOrderIs
    <3>3. x \in 1 .. N /\ o \in 1 .. N /\ (o - 1) \div n = (i - 1) \div q
      BY <1>1, <3>2 DEF OrderedAt, order, P, n, k
    <3> HIDE DEF o
    <3>4. turns[o] = ((i - 1) \div q) + 1
      BY <3>3 DEF n
    <3>5. turns[o] \in 1 .. P
      <4> DEFINE y == (o - 1) \div n
      <4>1. P \in Nat
        BY <1>1
      <4>2. \A z \in 1 .. P * n : \E a \in 0 .. P - 1 : \E c \in 1 .. n : z = a * n + c
        BY <1>1, <4>1, LineAndPlace
      <4>3. PICK a \in 0 .. P - 1, c \in 1 .. n : o = a * n + c
        BY <1>1, <3>3, <4>2
      <4>4. a \in Nat
        BY <4>1
      <4>5. FoundAt(o, a, n, c)
        BY <1>1, <4>3, <4>4, LineOf DEF At
      <4>6. turns[o] = a + 1
        BY <3>3, <4>5 DEF FoundAt, n
      <4> QED BY <4>1, <4>6
    <3>6. b.uid[x] = columns.uid[turns[o]]
      BY <1>8, <2>3, <3>3 DEF o
    <3>7. b.uid[x] = ((i - 1) \div q) + 1
      BY <1>4, <3>4, <3>5, <3>6
    <3> QED BY <3>7 DEF x, q, PromptOf
  <2>6. GenerationBatch = b
    BY <1>6, <1>10 DEF b
  <2> QED BY <2>3, <2>5, <2>6
<1> QED BY <1>9, <1>10

-----------------------------------------------------------------------------
\* Even shares.

Extremes(S) == /\ Max(S) \in S /\ Min(S) \in S
               /\ \A y \in S : y <= Max(S) /\ Min(S) <= y

Numbers(g, n) == {g[i] : i \in 1 .. n}

\* Some numbers have a largest and a smallest one.
LEMMA Largest ==
  ASSUME NEW n \in Nat \ {0}, NEW g, \A i \in 1 .. n : g[i] \in Int
  PROVE  \E x \in 1 .. n : \A i \in 1 .. n : g[i] <= g[x]
<1> DEFINE Upto(m) == \E x \in 1 .. m : \A i \in 1 .. m : g[i] <= g[x]
           N == {m \in Nat : m + 1 <= n => Upto(m + 1)}
<1>1. 0 \in N
  <2>1. g[1] \in Int
    OBVIOUS
  <2>2. Upto(1)
    BY <2>1
  <2> HIDE DEF Upto
  <2> QED BY <2>2
<1>2. ASSUME NEW m \in N PROVE m + 1 \in N
  <2>1. CASE ~(m + 2 <= n)
    BY <2>1
  <2>2. CASE m + 2 <= n
    <3>1. PICK x \in 1 .. m + 1 : \A i \in 1 .. m + 1 : g[i] <= g[x]
      BY <2>2
    <3> DEFINE y == IF g[x] <= g[m + 2] THEN m + 2 ELSE x
    <3>2. y \in 1 .. m + 2 /\ g[x] \in Int /\ g[m + 2] \in Int /\ \A i \in 1 .. m + 2 : g[i] \in Int
      BY <2>2
    <3>3. g[x] <= g[y] /\ g[m + 2] <= g[y] /\ g[y] \in Int
      BY <3>2
    <3>4. \A i \in 1 .. m + 2 : i \in 1 .. m + 1 \/ i = m + 2
      OBVIOUS
    <3> HIDE DEF y
    <3>5. \A i \in 1 .. m + 2 : g[i] <= g[y]
      BY <3>1, <3>2, <3>3, <3>4
    <3>6. Upto(m + 2)
      BY <3>2, <3>5
    <3> HIDE DEF Upto
    <3>7. m + 1 \in Nat /\ (m + 1) + 1 = m + 2
      OBVIOUS
    <3> QED BY <3>6, <3>7
  <2> QED BY <2>1, <2>2
<1>3. N = Nat
  <2>1. N \in SUBSET Nat
    OBVIOUS
  <2> HIDE DEF N
  <2> QED BY <1>1, <1>2, <2>1, Upward
<1>4. n - 1 \in N /\ (n - 1) + 1 = n
  <2> HIDE DEF N
  <2> QED BY <1>3
<1> QED BY <1>4

\* A set of some numbers has a largest and a smallest.
LEMMA ExtremesAre ==
  ASSUME NEW n \in Nat \ {0}, NEW g, \A i \in 1 .. n : g[i] \in Int
  PROVE  Extremes(Numbers(g, n))
<1> DEFINE S == Numbers(g, n)
           h == [i \in 1 .. n |-> -g[i]]
<1>1. PICK x \in 1 .. n : \A i \in 1 .. n : g[i] <= g[x]
  BY Largest
<1>2. \A i \in 1 .. n : h[i] = -g[i] /\ h[i] \in Int
  OBVIOUS
<1> HIDE DEF h
<1>3. PICK y \in 1 .. n : \A i \in 1 .. n : h[i] <= h[y]
  BY <1>2, Largest
<1>4. \A i \in 1 .. n : g[y] <= g[i]
  BY <1>2, <1>3
<1>5. S \subseteq Int /\ g[x] \in S /\ g[y] \in S
  BY DEF Numbers
<1>6. \A s \in S : g[y] <= s /\ g[x] >= s
  <2> SUFFICES ASSUME NEW s \in S PROVE g[y] <= s /\ g[x] >= s
    OBVIOUS
  <2>1. PICK i \in 1 .. n : s = g[i]
    BY DEF Numbers
  <2> QED BY <1>1, <1>4, <2>1
<1> HIDE DEF S
<1>7. Max(S) \in S /\ \A s \in S : Max(S) >= s
  BY <1>5, <1>6 DEF Max
<1>8. Min(S) \in S /\ \A s \in S : Min(S) <= s
  BY <1>5, <1>6 DEF Min
<1>9. Extremes(S)
  BY <1>5, <1>7, <1>8 DEF Extremes
<1> QED BY <1>9 DEF S

\* Consecutive places.
After(a, m) == [i \in 1 .. m |-> a + i]

\* The loads of k shares of m rows of some weights differ by at most d.
EvenLoads(v, m, k, d) ==
  \A r, s \in 1 .. k : Load(v, After((r - 1) * m, m)) - Load(v, After((s - 1) * m, m)) <= d

\* Those of the k shares of n rows differ by no more than two rows do.
EvenlyDealt(v, n, k) == n % k = 0 /\ EvenLoads(v, n \div k, k, Max(Range(v)) - Min(Range(v)))

\* The rows of a batch in the balanced order.
LEMMA BalancedOrderEven ==
  ASSUME NEW n \in Nat, NEW k \in Nat \ {0}, NEW lengths, NEW w \in [1 .. n -> Nat], w = Workloads(lengths),
         CanPartition(w, k, TRUE), NEW v, MovedBy(BalancedOrder(lengths, k), n, w, v)
  PROVE  EvenlyDealt(v, n, k)
<1> DEFINE parts == BalancedPartitions(w, k, TRUE)
           order == BalancedOrder(lengths, k)
           m == n \div k
           d == Max(Range(v)) - Min(Range(v))
<1>1. Len(w) = n /\ w \in Seq(Nat) /\ Fits(n, k, TRUE) /\ n % k = 0 /\ n \in Nat \ {0}
  BY DEF CanPartition, Fits
<1>2. order \in Orders(n) /\ \A r \in 1 .. k : Load(w, Part(order, m, r)) = Load(w, parts[r])
  <2>1. Shared(w, n, k, parts, order)
    BY <1>1, BalancedOrderIs
  <2> QED BY <2>1 DEF Shared
<1>3. m \in Nat /\ k * m = n
  BY <1>1, Shares
<1>4. v = [i \in 1 .. n |-> w[order[i]]]
  BY DEF MovedBy
<1> HIDE DEF order, m, parts
<1>5. /\ \A i \in 1 .. n : order[i] \in 1 .. n
      /\ \A j \in 1 .. n : \E i \in 1 .. n : order[i] = j
  BY <1>2 DEF Orders
<1>6. DOMAIN v = 1 .. n /\ \A i \in 1 .. n : v[i] = w[order[i]] /\ v[i] \in Nat
  BY <1>4, <1>5
<1>7. Extremes(Range(v))
  <2>1. \A i \in 1 .. n : v[i] \in Int
    BY <1>6
  <2>2. Extremes(Numbers(v, n))
    BY <1>1, <2>1, ExtremesAre
  <2>3. Range(v) = Numbers(v, n)
    BY <1>6 DEF Range, Numbers
  <2> QED BY <2>2, <2>3
<1>8. \A i \in 1 .. n : v[i] \in Range(v)
  BY <1>6 DEF Range
<1>9. \A y \in Range(v) : y \in Nat
  BY <1>6 DEF Range
<1>10. d \in Nat /\ \A a, b \in 1 .. n : w[a] - w[b] <= d
  <2>1. Max(Range(v)) \in Nat /\ Min(Range(v)) \in Nat /\ Max(Range(v)) >= Min(Range(v))
    BY <1>7, <1>9 DEF Extremes
  <2>2. ASSUME NEW a \in 1 .. n, NEW b \in 1 .. n PROVE w[a] - w[b] <= d
    <3>1. PICK i \in 1 .. n : order[i] = a
      BY <1>5
    <3>2. PICK j \in 1 .. n : order[j] = b
      BY <1>5
    <3>3. v[i] = w[a] /\ v[j] = w[b] /\ v[i] \in Nat /\ v[j] \in Nat
      BY <1>6, <3>1, <3>2
    <3>4. v[i] <= Max(Range(v)) /\ Min(Range(v)) <= v[j]
      BY <1>7, <1>8 DEF Extremes
    <3> QED BY <2>1, <3>3, <3>4
  <2> QED BY <2>1, <2>2
<1> HIDE DEF d
<1>11. \A i, j \in 1 .. k : Load(w, parts[i]) - Load(w, parts[j]) <= d
  <2>1. \A a, b \in DOMAIN w : w[a] - w[b] <= d
    BY <1>10
  <2> QED BY <1>1, <1>10, <2>1, PartitionsBalanced DEF parts
<1> DEFINE L == [r \in 1 .. k |-> Load(w, parts[r])]
<1>12. ASSUME NEW r \in 1 .. k
       PROVE  Load(v, [i \in 1 .. m |-> (r - 1) * m + i]) = L[r] /\ L[r] \in Int
  <2> DEFINE p == [i \in 1 .. m |-> (r - 1) * m + i]
             q == Part(order, m, r)
             a == (r - 1) * m
  <2>1. p = [i \in 1 .. m |-> a + i] /\ a \in Nat
    BY <1>3
  <2>2. q = [i \in 1 .. m |-> order[a + i]]
    BY DEF Part
  <2>3. \A i \in 1 .. m : a + i \in 1 .. n
    <3>1. ASSUME NEW i \in 1 .. m PROVE (r - 1) * m + i \in 1 .. n
      <4>1. m \in Nat \ {0} /\ k \in Nat /\ r - 1 \in 0 .. k - 1
        BY <1>3
      <4>2. (r - 1) * m + i \in 1 .. k * m
        BY <4>1, LineAndPlace
      <4> QED BY <1>3, <4>2
    <3> QED BY <3>1
  <2> HIDE DEF a, p, q
  <2>4. /\ Len(p) = m /\ Len(q) = m
        /\ \A i \in 1 .. m : p[i] = a + i /\ q[i] = order[a + i]
    <3>1. Len(p) = m
      BY <1>3, <2>1
    <3>2. Len(q) = m
      BY <1>3, <2>2
    <3> QED BY <2>1, <2>2, <3>1, <3>2
  <2>5. q \in Seq(1 .. n)
    <3>1. \A i \in 1 .. m : order[a + i] \in 1 .. n
      BY <1>5, <2>3
    <3>2. q \in [1 .. m -> 1 .. n]
      BY <2>2, <3>1
    <3> QED BY <1>3, <3>2
  <2>6. \A i \in 1 .. Len(p) : v[p[i]] = w[q[i]]
    <3> SUFFICES ASSUME NEW i \in 1 .. m PROVE v[p[i]] = w[q[i]]
      BY <2>4
    <3>1. v[a + i] = w[order[a + i]]
      BY <1>6, <2>3
    <3> QED BY <2>4, <3>1
  <2>7. Load(v, p) = Load(w, q)
    BY <1>3, <2>4, <2>6, LoadSame
  <2>8. Load(w, q) = L[r]
    BY <1>2 DEF q
  <2>9. Load(w, q) \in Nat
    <3> DEFINE R == 1 .. n
    <3>1. w \in [R -> Nat] /\ q \in Seq(R)
      BY <2>5
    <3> HIDE DEF R
    <3> QED BY <3>1, LoadType
  <2> QED BY <2>7, <2>8, <2>9 DEF p
<1>13. ASSUME NEW r \in 1 .. k, NEW s \in 1 .. k
       PROVE  Load(v, After((r - 1) * m, m)) - Load(v, After((s - 1) * m, m)) <= d
  <2>1. Load(v, After((r - 1) * m, m)) = L[r] /\ Load(v, After((s - 1) * m, m)) = L[s]
    BY <1>12 DEF After
  <2> QED BY <1>11, <2>1
<1> QED BY <1>1, <1>13 DEF EvenlyDealt, EvenLoads, d, m

-----------------------------------------------------------------------------
\* The state as far as a batch is generated and balanced.

\* n responses, none of them empty.
Answered(rows, n) ==
  /\ Column(rows, n)
  /\ \A i \in 1 .. n : rows[i].prompt \in Nat \ {0} /\ rows[i].response \in Nat \ {0}

\* The rows of a worker, before or after it has answered.
Asked(data, m) ==
  /\ Table(data, m)
  /\ "uid" \in DOMAIN data /\ DOMAIN data \subseteq {"uid", "responses"}
  /\ "responses" \in DOMAIN data => Answered(data.responses, m)

\* The workers have m rows each: all rows between them, and of a validation the
\* same prompts.
Working(c, ws, m) ==
  /\ DOMAIN ws = 1 .. c.workers
  /\ \A w \in 1 .. c.workers :
       /\ ws[w] = [first |-> ws[w].first, data |-> ws[w].data]
       /\ Asked(ws[w].data, m)
       /\ DealsAlike(c) => \A i \in 1 .. m : ws[w].data.uid[i] = PromptOf(c, i)
  /\ ~c.validate => c.workers * m = Samples(c)
  /\ DealsAlike(c) => m = c.prompts * ShareSize(c)
Generating(c, ws) == \E m \in Nat : Working(c, ws, m)

\* The driver's batch, every row with its response.
Held(c, b) == Table(b, Samples(c)) /\ "responses" \in DOMAIN b /\ Answered(b.responses, Samples(c))

\* The batch in the balanced order.
Evened(c, b) == EvenlyDealt(Workloads(Lengths(b)), Samples(c), c.world)

BalanceInv ==
  /\ cfg \in Configs
  /\ phase = "generating" => Table(batch, Samples(cfg)) /\ Generating(cfg, work)
  /\ phase \in {"generated", "balanced"} => Held(cfg, batch)
  /\ phase = "balanced" /\ cfg.balance => Evened(cfg, batch)

\* A validation pads its prompts to a multiple of the workers, which changes nothing where
\* these share the answers to every prompt.
Prompted(r) ==
  /\ Table(PaddedPrompts, r) /\ "uid" \in DOMAIN PaddedPrompts /\ Samples(cfg) <= r
  /\ ~cfg.validate => r = Samples(cfg)
  /\ DealsAlike(cfg) => /\ r = Samples(cfg)
                   /\ \A i \in 1 .. Samples(cfg) : PaddedPrompts.uid[i] = GenerationBatch.uid[i]

\* What a generation is asked for, padded or not.
LEMMA PaddedPromptsAre ==
  ASSUME cfg \in Configs
  PROVE  \E r \in Nat : Prompted(r)
<1> DEFINE b == GenerationBatch
           k == cfg.workers
           N == Samples(cfg)
           pad == PadRows(b, k)
           turns == [i \in 1 .. N + pad |-> ((i - 1) % N) + 1]
<1>1. k \in Nat \ {0} /\ N \in Nat \ {0} /\ cfg.prompts \in Nat \ {0} /\ cfg.n \in Nat \ {0} /\ Known(cfg)
  BY KnownConfig
<1>2. Table(b, N) /\ "uid" \in DOMAIN b
  BY GenerationBatchIs
<1>3. Rows(b) = N
  BY <1>1, <1>2, TableRows
<1> HIDE DEF b, N, k
<1>4. CASE ~cfg.validate
  <2>1. PaddedPrompts = b /\ ~DealsAlike(cfg)
    BY <1>4 DEF PaddedPrompts, DealsAlike, b
  <2>2. Prompted(N)
    BY <1>1, <1>2, <1>4, <2>1 DEF Prompted, N
  <2> QED BY <1>1, <2>2
<1>5. CASE cfg.validate
  <2>1. PaddedPrompts = SelectIdxs(b, turns)
    BY <1>3, <1>5 DEF PaddedPrompts, PadToDivisor, b, k
  <2>2. pad = (k - (N % k)) % k /\ pad \in Nat
    <3>1. pad = (k - (N % k)) % k
      BY <1>3 DEF PadRows
    <3>2. N % k \in 0 .. k - 1
      BY <1>1, Lines
    <3> DEFINE d == k - (N % k)
    <3>3. d \in Nat
      BY <1>1, <3>2
    <3> HIDE DEF d
    <3>4. d % k \in Nat
      BY <1>1, <3>3
    <3> QED BY <3>1, <3>4 DEF d
  <2> HIDE DEF pad
  <2>3. Picked(b, turns, N + pad, PaddedPrompts)
    <3>1. DOMAIN turns = 1 .. N + pad /\ N + pad \in Nat /\ DOMAIN b # {}
      BY <1>1, <1>2, <2>2
    <3> HIDE DEF turns
    <3> QED BY <2>1, <3>1, SelectIdxsIs
  <2>4. ASSUME DealsAlike(cfg)
        PROVE  pad = 0 /\ \A i \in 1 .. N : PaddedPrompts.uid[i] = b.uid[i]
    <3> DEFINE n == cfg.n
               P == cfg.prompts
               q == n \div k
    <3>1. n % k = 0
      BY <2>4 DEF DealsAlike, k
    <3>2. q \in Nat /\ k * q = n
      BY <1>1, <3>1, Shares
    <3>3. P \in Nat /\ N = P * n
      BY <1>1 DEF N, Samples
    <3> HIDE DEF q, n, P
    <3>4. P * q \in Nat /\ (P * q) * k = N
      <4>1. (P * q) * k = P * (q * k) /\ q * k = k * q /\ P * q \in Nat
        BY <1>1, <3>2, <3>3
      <4> QED BY <3>2, <3>3, <4>1
    <3>5. N % k = 0
      <4> DEFINE c == P * q
      <4>1. c \in Nat /\ c * k = N
        BY <3>4
      <4> HIDE DEF c
      <4>2. c = N \div k /\ N % k = 0
        BY <1>1, <4>1, ShareOnly
      <4> QED BY <4>2
    <3>6. pad = 0
      <4>1. (k - 0) % k = 0
        BY <1>1
      <4> QED BY <2>2, <3>5, <4>1
    <3>7. ASSUME NEW i \in 1 .. N PROVE PaddedPrompts.uid[i] = b.uid[i]
      <4>1. At(i, 0, N, i)
        BY <1>1 DEF At
      <4>2. FoundAt(i, 0, N, i)
        BY <1>1, <4>1, LineOf
      <4>3. i \in 1 .. N + pad /\ turns[i] = i
        BY <1>1, <3>6, <4>2 DEF FoundAt
      <4> HIDE DEF turns
      <4> QED BY <1>2, <2>3, <4>3 DEF Picked
    <3> QED BY <3>6, <3>7
  <2>5. Prompted(N + pad)
    <3>1. Table(PaddedPrompts, N + pad) /\ "uid" \in DOMAIN PaddedPrompts
      BY <1>2, <2>3 DEF Picked
    <3>2. DealsAlike(cfg) => N + pad = N
      BY <1>1, <2>4
    <3>3. N <= N + pad
      BY <1>1, <2>2
    <3> QED BY <1>5, <2>4, <3>1, <3>2, <3>3 DEF Prompted, N, b
  <2> QED BY <1>1, <2>2, <2>5
<1> QED BY <1>4, <1>5

\* Dealt to the agent loop workers, each gets as many rows, and of a validation the same prompts.
LEMMA CallGenerateKeeps ==
  ASSUME BalanceInv, CallGenerate
  PROVE  BalanceInv'
<1> DEFINE k == cfg.workers
           own == Chunk(Select(PaddedPrompts, {"uid"}), k)
           size == Rows(PaddedPrompts) \div k
<1>1. /\ cfg \in Configs /\ cfg' = cfg /\ batch' = GenerationBatch /\ phase' = "generating"
      /\ CanChunk(PaddedPrompts, k)
      /\ work' = [w \in 1 .. k |-> [first |-> (w - 1) * size, data |-> own[w]]]
  BY DEF BalanceInv, CallGenerate
<1>2. PICK r \in Nat : Prompted(r)
  BY <1>1, PaddedPromptsAre
<1>3. Rows(PaddedPrompts) = r /\ k \in Nat \ {0} /\ cfg.prompts \in Nat \ {0}
  BY <1>1, <1>2, TableRows, KnownConfig DEF Prompted
<1> DEFINE m == r \div k
<1>4. r % k = 0 /\ m \in Nat /\ k * m = r
  BY <1>1, <1>3, Shares DEF CanChunk
<1>5. Chunked(Select(PaddedPrompts, {"uid"}), k, m, own)
  <2> DEFINE b == Select(PaddedPrompts, {"uid"})
  <2>1. Table(b, r)
    BY <1>2 DEF Prompted, Select, Table
  <2> HIDE DEF b
  <2>2. Chunked(b, k, r \div k, Chunk(b, k))
    BY <1>3, <1>4, <2>1, ChunkIs
  <2> QED BY <2>2 DEF b
<1>6. /\ DOMAIN Select(PaddedPrompts, {"uid"}) = {"uid"}
      /\ Select(PaddedPrompts, {"uid"}).uid = PaddedPrompts.uid
  BY <1>2 DEF Prompted, Select
<1> HIDE DEF own, size, m
<1>7. ASSUME NEW w \in 1 .. k
      PROVE  /\ DOMAIN own[w] = {"uid"} /\ Table(own[w], m)
             /\ \A i \in 1 .. m : own[w].uid[i] = PaddedPrompts.uid[(w - 1) * m + i]
  BY <1>5, <1>6 DEF Chunked
<1>8. DealsAlike(cfg) => m = cfg.prompts * ShareSize(cfg)
  <2> SUFFICES ASSUME DealsAlike(cfg) PROVE m = cfg.prompts * ShareSize(cfg)
    OBVIOUS
  <2> DEFINE n == cfg.n
             q == n \div k
             P == cfg.prompts
  <2>1. n \in Nat /\ n % k = 0
    BY <1>1, KnownConfig DEF DealsAlike
  <2>2. q \in Nat /\ k * q = n
    BY <1>3, <2>1, Shares
  <2>3. P \in Nat /\ r = P * n
    BY <1>2, <1>3 DEF Prompted, Samples
  <2> HIDE DEF q, P, n, k
  <2>4. P * q \in Nat /\ (P * q) * k = r
    <3>1. (P * q) * k = P * (q * k) /\ q * k = k * q /\ P * q \in Nat
      BY <1>3, <2>2, <2>3
    <3> QED BY <2>2, <2>3, <3>1
  <2> DEFINE c == P * q
  <2>5. c \in Nat /\ c * k = r
    BY <2>4
  <2> HIDE DEF c
  <2>6. c = r \div k /\ r % k = 0
    BY <1>3, <2>5, ShareOnly
  <2> QED BY <2>6 DEF c, m, P, q, n, k, ShareSize
<1>9. ASSUME DealsAlike(cfg), NEW w \in 1 .. k, NEW i \in 1 .. m PROVE own[w].uid[i] = PromptOf(cfg, i)
  <2> DEFINE x == (w - 1) * m + i
  <2>1. own[w].uid[i] = PaddedPrompts.uid[x]
    BY <1>7
  <2>2. x \in 1 .. Samples(cfg)
    <3>1. m \in Nat \ {0} /\ k \in Nat /\ w - 1 \in 0 .. k - 1
      BY <1>3, <1>4
    <3>2. (w - 1) * m + i \in 1 .. k * m
      BY <3>1, LineAndPlace
    <3> QED BY <1>2, <1>4, <1>9, <3>2 DEF Prompted
  <2>3. PaddedPrompts.uid[x] = GenerationBatch.uid[x]
    BY <1>2, <1>9, <2>2 DEF Prompted
  <2>4. GenerationBatch.uid[x] = PromptOf(cfg, i)
    BY <1>1, <1>8, <1>9, GenerationBatchIs
  <2> QED BY <2>1, <2>3, <2>4
<1>10. Working(cfg, work', m)
  <2>1. ASSUME NEW w \in 1 .. k
        PROVE  /\ work'[w] = [first |-> work'[w].first, data |-> work'[w].data]
               /\ work'[w].data = own[w]
    BY <1>1
  <2>2. ASSUME NEW w \in 1 .. k
        PROVE  /\ Asked(work'[w].data, m)
               /\ DealsAlike(cfg) => \A i \in 1 .. m : work'[w].data.uid[i] = PromptOf(cfg, i)
    <3>1. Asked(own[w], m)
      BY <1>7 DEF Asked
    <3>2. DealsAlike(cfg) => \A i \in 1 .. m : own[w].uid[i] = PromptOf(cfg, i)
      BY <1>9
    <3> QED BY <2>1, <3>1, <3>2
  <2>3. DOMAIN work' = 1 .. k
    BY <1>1
  <2>4. ~cfg.validate => k * m = Samples(cfg)
    BY <1>2, <1>4 DEF Prompted
  <2> QED BY <1>1, <1>8, <2>1, <2>2, <2>3, <2>4 DEF Working
<1>11. Table(batch', Samples(cfg))
  BY <1>1, GenerationBatchIs
<1>12. Generating(cfg, work')
  BY <1>4, <1>10 DEF Generating
<1> QED BY <1>1, <1>11, <1>12 DEF BalanceInv

\* An answer leaves a worker's rows and prompts as they are.
LEMMA GenerateKeeps ==
  ASSUME BalanceInv, phase = "generating", NEW w \in DOMAIN work, Generate(w)
  PROVE  BalanceInv'
<1>1. cfg' = cfg /\ batch' = batch /\ phase' = phase /\ cfg \in Configs /\ Table(batch, Samples(cfg))
  BY DEF BalanceInv, Generate
<1>2. PICK m \in Nat : Working(cfg, work, m)
  BY DEF BalanceInv, Generating
<1>3. /\ w \in 1 .. cfg.workers /\ DOMAIN work = 1 .. cfg.workers
      /\ work[w] = [first |-> work[w].first, data |-> work[w].data]
      /\ Asked(work[w].data, m)
      /\ DealsAlike(cfg) => \A i \in 1 .. m : work[w].data.uid[i] = PromptOf(cfg, i)
  BY <1>2 DEF Working
<1>4. Rows(work[w].data) = m
  BY <1>3, TableRows DEF Asked
<1>5. PICK shapes \in [1 .. m -> Shapes] :
        work' = [work EXCEPT ![w].data =
                   [uid |-> @.uid,
                    responses |-> [i \in DOMAIN shapes |-> [id       |-> work[w].first + i,
                                                            source   |-> work[w].data.uid[i],
                                                            prompt   |-> shapes[i].prompt,
                                                            response |-> shapes[i].response,
                                                            valid    |-> shapes[i].valid]]]]
  BY <1>4 DEF Generate
<1> DEFINE rows == [i \in 1 .. m |-> [id       |-> work[w].first + i,
                                      source   |-> work[w].data.uid[i],
                                      prompt   |-> shapes[i].prompt,
                                      response |-> shapes[i].response,
                                      valid    |-> shapes[i].valid]]
           data == [uid |-> work[w].data.uid, responses |-> rows]
           asked == [first |-> work[w].first, data |-> data]
<1>7. Answered(rows, m)
  <2>1. Column(rows, m)
    BY DEF Column
  <2>2. ASSUME NEW i \in 1 .. m
        PROVE  rows[i].prompt \in Nat \ {0} /\ rows[i].response \in Nat \ {0}
    <3>1. shapes[i] \in Shapes /\ rows[i].prompt = shapes[i].prompt /\ rows[i].response = shapes[i].response
      OBVIOUS
    <3>2. shapes[i].prompt \in 1 .. PromptLength /\ shapes[i].response \in 1 .. ResponseLength
      BY <3>1, ShapesAssumption
    <3> HIDE DEF rows
    <3> QED BY <3>1, <3>2
  <2> HIDE DEF rows
  <2> QED BY <2>1, <2>2 DEF Answered
<1>6. work' = [work EXCEPT ![w].data = data]
  BY <1>3, <1>5
<1> HIDE DEF rows
<1>8. DOMAIN data = {"uid", "responses"} /\ data.uid = work[w].data.uid /\ data.responses = rows
  OBVIOUS
<1>9. asked = [first |-> asked.first, data |-> asked.data] /\ asked.data = data
  OBVIOUS
<1> HIDE DEF data, asked
<1>10. Asked(data, m)
  <2>1. Column(data.uid, m)
    BY <1>3, <1>8 DEF Asked, Table
  <2>2. Table(data, m)
    BY <1>7, <1>8, <2>1 DEF Table, Answered
  <2> QED BY <1>7, <1>8, <2>2 DEF Asked
<1>11. Working(cfg, work', m)
  <2>1. ASSUME NEW x \in 1 .. cfg.workers
        PROVE  /\ work'[x] = [first |-> work'[x].first, data |-> work'[x].data]
               /\ Asked(work'[x].data, m)
               /\ DealsAlike(cfg) => \A i \in 1 .. m : work'[x].data.uid[i] = PromptOf(cfg, i)
    <3>1. CASE x = w
      <4>1. work'[x] = asked
        BY <1>3, <1>6, <3>1 DEF asked
      <4> QED BY <1>3, <1>8, <1>9, <1>10, <4>1
    <3>2. CASE x # w
      <4>1. work'[x] = work[x]
        BY <1>3, <1>6, <3>2
      <4>2. /\ work[x] = [first |-> work[x].first, data |-> work[x].data]
            /\ Asked(work[x].data, m)
            /\ DealsAlike(cfg) => \A i \in 1 .. m : work[x].data.uid[i] = PromptOf(cfg, i)
        BY <1>2 DEF Working
      <4> QED BY <4>1, <4>2
    <3> QED BY <3>1, <3>2
  <2>2. DOMAIN work' = 1 .. cfg.workers
    BY <1>3, <1>6
  <2> QED BY <1>2, <2>1, <2>2 DEF Working
<1>12. Generating(cfg, work')
  BY <1>11 DEF Generating
<1> QED BY <1>1, <1>12 DEF BalanceInv

\* What the workers have made, one worker after the other.
PutTogether(c, ws, m, all) ==
  /\ Working(c, ws, m) /\ m \in Nat \ {0} /\ c.workers * m = Samples(c)
  /\ Table(all, Samples(c)) /\ "responses" \in DOMAIN all
  /\ \A w \in 1 .. c.workers : \A i \in 1 .. m :
       all.responses[(w - 1) * m + i] = ws[w].data.responses[i]
  /\ \A w \in 1 .. c.workers : "responses" \in DOMAIN ws[w].data

\* Put together, the workers' rows are all rows of the batch.
LEMMA PutTogetherIs ==
  ASSUME BalanceInv, CollectGenerate, ~cfg.validate
  PROVE  \E m \in Nat : \E all : PutTogether(cfg, work, m, all) /\ batch' = Union(batch, all)
<1> DEFINE s == [w \in DOMAIN work |-> work[w].data]
           all == Concat(s)
           k == cfg.workers
           n == Samples(cfg)
           C == {"uid", "responses"}
<1>1. phase = "generating" /\ cfg \in Configs /\ batch' = Union(batch, all)
  BY DEF BalanceInv, CollectGenerate
<1>2. PICK m \in Nat : Working(cfg, work, m)
  BY <1>1 DEF BalanceInv, Generating
<1>3. k \in Nat \ {0} /\ n \in Nat \ {0} /\ k * m = n
  BY <1>1, <1>2, KnownConfig DEF Working
<1>4. DOMAIN s = 1 .. k /\ \A w \in 1 .. k : s[w] = work[w].data
  BY <1>2 DEF Working
<1>5. ASSUME NEW w \in 1 .. k
      PROVE  DOMAIN s[w] = C /\ Table(s[w], m) /\ "responses" \in DOMAIN work[w].data
  <2>1. s[w] = work[w].data /\ Asked(work[w].data, m)
    BY <1>2, <1>4 DEF Working
  <2>2. "responses" \in DOMAIN work[w].data
    BY <1>2 DEF CollectGenerate, Working
  <2> HIDE DEF s
  <2> QED BY <2>1, <2>2 DEF Asked
<1> HIDE DEF s, k, n
<1>6. Stacked(s, k, m, C, all)
  <2>1. Batches(s, k, m, C)
    BY <1>4, <1>5 DEF Batches
  <2> HIDE DEF C
  <2> QED BY <1>3, <2>1, ConcatIs
<1> HIDE DEF all
<1>7. Table(all, n) /\ "responses" \in DOMAIN all
  BY <1>3, <1>6 DEF Stacked
<1>8. m # 0
  <2> SUFFICES ASSUME m = 0 PROVE FALSE
    OBVIOUS
  <2>1. k * m = 0
    BY <1>3
  <2> QED BY <1>3, <2>1
<1>9. \A w \in 1 .. k : \A i \in 1 .. m : all.responses[(w - 1) * m + i] = work[w].data.responses[i]
  BY <1>4, <1>6 DEF Stacked
<1>10. PutTogether(cfg, work, m, all)
  BY <1>2, <1>3, <1>5, <1>7, <1>8, <1>9 DEF PutTogether, n, k
<1> QED BY <1>1, <1>10

\* Each of them with its response.
LEMMA CollectGenerateKeeps ==
  ASSUME BalanceInv, CollectGenerate
  PROVE  BalanceInv'
<1>1. cfg' = cfg /\ phase = "generating" /\ cfg \in Configs /\ Table(batch, Samples(cfg))
  BY DEF BalanceInv, CollectGenerate
<1>2. CASE cfg.validate
  <2>1. phase' = "done"
    BY <1>2 DEF CollectGenerate
  <2> QED BY <1>1, <2>1 DEF BalanceInv
<1>3. CASE ~cfg.validate
  <2> DEFINE k == cfg.workers
             n == Samples(cfg)
  <2>1. phase' = "generated"
    BY <1>3 DEF CollectGenerate
  <2>2. PICK m \in Nat : \E all : PutTogether(cfg, work, m, all) /\ batch' = Union(batch, all)
    BY <1>3, PutTogetherIs
  <2>3. PICK all : PutTogether(cfg, work, m, all) /\ batch' = Union(batch, all)
    BY <2>2
  <2>4. k \in Nat \ {0} /\ n \in Nat \ {0} /\ m \in Nat \ {0} /\ k * m = n
    BY <1>1, <2>3, KnownConfig DEF PutTogether
  <2>5. Table(all, n) /\ "responses" \in DOMAIN all
    BY <2>3 DEF PutTogether
  <2>6. ASSUME NEW w \in 1 .. k, NEW i \in 1 .. m
        PROVE  /\ all.responses[(w - 1) * m + i].prompt \in Nat \ {0}
               /\ all.responses[(w - 1) * m + i].response \in Nat \ {0}
    <3>1. all.responses[(w - 1) * m + i] = work[w].data.responses[i] /\ Answered(work[w].data.responses, m)
      BY <2>3 DEF PutTogether, Working, Asked
    <3> QED BY <3>1 DEF Answered
  <2> HIDE DEF k, n
  <2>7. Answered(all.responses, n)
    <3>1. Column(all.responses, n)
      BY <2>5 DEF Table
    <3>2. ASSUME NEW x \in 1 .. n
          PROVE  all.responses[x].prompt \in Nat \ {0} /\ all.responses[x].response \in Nat \ {0}
      <4>1. \A y \in 1 .. k * m : \E a \in 0 .. k - 1 : \E i \in 1 .. m : y = a * m + i
        BY <2>4, LineAndPlace
      <4>2. PICK a \in 0 .. k - 1, i \in 1 .. m : x = a * m + i
        BY <2>4, <4>1
      <4> DEFINE w == a + 1
      <4>3. w \in 1 .. k /\ w - 1 = a
        BY <2>4
      <4> HIDE DEF w
      <4> QED BY <2>6, <4>2, <4>3
    <3> QED BY <3>1, <3>2 DEF Answered
  <2>8. Table(Union(batch, all), n)
    BY <1>1, <2>4, <2>5, UnionIs DEF n
  <2>9. "responses" \in DOMAIN Union(batch, all) /\ Union(batch, all).responses = all.responses
    BY <2>5 DEF Union
  <2>10. Held(cfg, batch')
    BY <2>3, <2>7, <2>8, <2>9 DEF Held, n
  <2> QED BY <1>1, <2>1, <2>10 DEF BalanceInv
<1> QED BY <1>2, <1>3

\* The lengths of the rows of a batch, and their workloads.
Weighed(b, n) ==
  /\ Rows(b) = n
  /\ DOMAIN Lengths(b) = 1 .. n
  /\ \A i \in 1 .. n : Lengths(b)[i] \in Nat \ {0}
  /\ Workloads(Lengths(b)) \in [1 .. n -> Nat]

\* calculate_workload of the rows of a batch.
LEMMA WorkloadsAre ==
  ASSUME NEW n \in Nat, NEW b, Table(b, n), Answered(b.responses, n)
  PROVE  Weighed(b, n)
<1>1. Rows(b) = n
  BY TableRows
<1>2. Lengths(b) = [i \in 1 .. n |-> b.responses[i].prompt + b.responses[i].response]
  BY <1>1 DEF Lengths
<1>3. \A i \in 1 .. n : Lengths(b)[i] \in Nat \ {0}
  BY <1>2 DEF Answered
<1>4. DOMAIN Lengths(b) = 1 .. n
  BY <1>2
<1>5. Workloads(Lengths(b)) \in [1 .. n -> Nat]
  <2>1. \A l \in Nat : Workload(l) \in Nat
    BY DEF Workload
  <2>2. \A i \in 1 .. n : Workload(Lengths(b)[i]) \in Nat
    BY <1>3, <2>1
  <2> QED BY <1>4, <2>2 DEF Workloads
<1> QED BY <1>1, <1>3, <1>4, <1>5 DEF Weighed

\* _balance_batch puts the rows of the batch in another order.
LEMMA BalanceMoves ==
  ASSUME BalanceInv, Balance, cfg.balance
  PROVE  /\ BalancedOrder(Lengths(batch), cfg.world) \in Orders(Samples(cfg))
         /\ Picked(batch, BalancedOrder(Lengths(batch), cfg.world), Samples(cfg), batch')
<1> DEFINE n == Samples(cfg)
           k == cfg.world
           lengths == Lengths(batch)
           w == Workloads(lengths)
           order == BalancedOrder(lengths, k)
<1>1. Held(cfg, batch) /\ cfg \in Configs
  BY DEF BalanceInv, Balance
<1>2. n \in Nat \ {0} /\ k \in Nat \ {0}
  BY <1>1, KnownConfig
<1>3. Table(batch, n) /\ Weighed(batch, n)
  BY <1>1, <1>2, WorkloadsAre DEF Held
<1>4. batch' = SelectIdxs(batch, order) /\ CanPartition(w, k, TRUE)
  BY DEF Balance, Reorder, CanBalance
<1>5. w \in [1 .. n -> Nat] /\ Len(w) = n /\ w = Workloads(lengths)
  BY <1>2, <1>3 DEF Weighed
<1>6. Fits(n, k, TRUE)
  BY <1>4, <1>5 DEF CanPartition, Fits
<1> HIDE DEF n, k, lengths, w
<1>7. order \in Orders(n)
  <2>1. Shared(w, n, k, BalancedPartitions(w, k, TRUE), BalancedOrder(lengths, k))
    BY <1>2, <1>5, <1>6, BalancedOrderIs
  <2> QED BY <2>1 DEF Shared
<1>8. DOMAIN order = 1 .. n
  BY <1>7 DEF Orders
<1> HIDE DEF order
<1>9. Picked(batch, order, n, batch')
  BY <1>2, <1>3, <1>4, <1>8, SelectIdxsIs DEF Table
<1> QED BY <1>7, <1>9 DEF order, lengths, k, n

\* _balance_batch leaves every row in the batch and the ranks' shares even.
LEMMA BalanceKeeps ==
  ASSUME BalanceInv, Balance
  PROVE  BalanceInv'
<1> DEFINE n == Samples(cfg)
           k == cfg.world
           lengths == Lengths(batch)
           w == Workloads(lengths)
           order == BalancedOrder(lengths, k)
<1>1. cfg' = cfg /\ phase' = "balanced" /\ cfg \in Configs /\ Held(cfg, batch)
  BY DEF BalanceInv, Balance
<1>2. n \in Nat \ {0} /\ k \in Nat \ {0} /\ Known(cfg)
  BY <1>1, KnownConfig
<1>3. Table(batch, n) /\ "responses" \in DOMAIN batch /\ Answered(batch.responses, n)
  BY <1>1 DEF Held
<1>4. Weighed(batch, n)
  BY <1>2, <1>3, WorkloadsAre
<1>5. CASE ~cfg.balance
  <2>1. batch' = batch
    BY <1>5 DEF Balance
  <2> QED BY <1>1, <1>5, <2>1 DEF BalanceInv
<1>6. CASE cfg.balance
  <2> DEFINE b == batch'
             v == Workloads(Lengths(b))
  <2>1. CanPartition(w, k, TRUE)
    BY <1>6 DEF Balance, CanBalance
  <2>2. w \in [1 .. n -> Nat] /\ Len(w) = n /\ w = Workloads(lengths)
    BY <1>2, <1>4 DEF Weighed
  <2>3. order \in Orders(n) /\ Picked(batch, order, n, b)
    BY <1>6, BalanceMoves
  <2> HIDE DEF n, k, lengths, w, b
  <2>4. order \in [1 .. n -> 1 .. n]
    BY <2>3 DEF Orders
  <2>5. DOMAIN order = 1 .. n /\ \A i \in 1 .. n : order[i] \in 1 .. n
    BY <2>4
  <2> HIDE DEF order
  <2>6. Table(b, n) /\ "responses" \in DOMAIN b /\ \A i \in 1 .. n : b.responses[i] = batch.responses[order[i]]
    BY <1>3, <2>3 DEF Picked
  <2>7. Answered(b.responses, n)
    BY <1>3, <2>5, <2>6 DEF Answered, Table
  <2>8. Weighed(b, n)
    BY <1>2, <2>6, <2>7, WorkloadsAre
  <2>9. \A i \in 1 .. n : Lengths(b)[i] = lengths[order[i]]
    <3>1. \A i \in 1 .. n : Lengths(b)[i] = b.responses[i].prompt + b.responses[i].response
      BY <2>8 DEF Weighed, Lengths
    <3>2. \A i \in 1 .. n : lengths[i] = batch.responses[i].prompt + batch.responses[i].response
      BY <1>4 DEF Weighed, Lengths, lengths
    <3> QED BY <2>5, <2>6, <3>1, <3>2
  <2>10. MovedBy(order, n, w, v)
    <3>1. v = [i \in 1 .. n |-> Workload(Lengths(b)[i])]
      BY <2>8 DEF Weighed, Workloads
    <3>2. \A i \in 1 .. n : w[i] = Workload(lengths[i])
      BY <1>4 DEF Weighed, Workloads, w, lengths
    <3>3. \A i \in 1 .. n : Workload(Lengths(b)[i]) = w[order[i]]
      BY <2>5, <2>9, <3>2
    <3> HIDE DEF v
    <3>4. v = [i \in 1 .. n |-> w[order[i]]]
      BY <3>1, <3>3
    <3> QED BY <3>4 DEF MovedBy
  <2>11. EvenlyDealt(v, n, k)
    <3> HIDE DEF v
    <3>1. MovedBy(BalancedOrder(lengths, k), n, w, v)
      BY <2>10 DEF order
    <3>2. n \in Nat
      BY <1>2
    <3> QED BY <1>2, <2>1, <2>2, <3>1, <3>2, BalancedOrderEven
  <2>12. Held(cfg, b) /\ Evened(cfg, b)
    BY <2>6, <2>7, <2>11 DEF Held, Evened, n, k
  <2> QED BY <1>1, <2>12 DEF BalanceInv, b
<1> QED BY <1>5, <1>6

\* Balancing is over with the first call of the ranks, and no later phase is one the
\* invariant speaks of.
Later == {"raised", "log_prob", "scored", "values", "valued", "credited", "update_critic",
          "criticized", "ranked", "update", "failed", "done"}

\* After the balanced order the driver goes on to phases that are all later ones.
LEMMA LaterKeeps ==
  ASSUME BalanceInv, cfg' = cfg, phase' \in Later
  PROVE  BalanceInv'
<1>1. phase' # "generating" /\ phase' \notin {"generated", "balanced"}
  BY DEF Later
<1> QED BY <1>1 DEF BalanceInv

\* An action that changes nothing the invariant speaks of keeps it.
LEMMA SameKeeps ==
  ASSUME BalanceInv, cfg' = cfg, phase' = phase, phase \in Later \/ (work' = work /\ batch' = batch)
  PROVE  BalanceInv'
<1>1. CASE phase \in Later
  BY <1>1, LaterKeeps
<1>2. CASE work' = work /\ batch' = batch
  BY <1>2 DEF BalanceInv
<1> QED BY <1>1, <1>2

\* Every step of the driver, its workers and its ranks keeps the invariant.
LEMMA BalanceStep ==
  ASSUME BalanceInv, [Next]_vars
  PROVE  BalanceInv'
<1>1. CASE CallGenerate
  BY <1>1, CallGenerateKeeps
<1>2. CASE \E w \in DOMAIN work : phase = "generating" /\ Generate(w)
  BY <1>2, GenerateKeeps
<1>3. CASE CollectGenerate
  BY <1>3, CollectGenerateKeeps
<1>4. CASE Balance
  BY <1>4, BalanceKeeps
<1>5. CASE CannotDivide
  BY <1>5, LaterKeeps DEF CannotDivide, Later
<1>6. CASE CallLogProb
  BY <1>6, LaterKeeps DEF CallLogProb, Begin, Later
<1>7. CASE ComputeLogProb
  BY <1>7, SameKeeps DEF ComputeLogProb, Later
<1>8. CASE CollectLogProb
  BY <1>8, LaterKeeps DEF CollectLogProb, Later
<1>9. CASE CallValues
  BY <1>9, LaterKeeps DEF CallValues, Begin, Later
<1>10. CASE ComputeValues
  BY <1>10, SameKeeps DEF ComputeValues, Later
<1>11. CASE CollectValues
  BY <1>11, LaterKeeps DEF CollectValues, Later
<1>12. CASE ComputeAdvantage
  BY <1>12, LaterKeeps DEF ComputeAdvantage, Later
<1>13. CASE EstimatorFails
  BY <1>13, LaterKeeps DEF EstimatorFails, Later
<1>14. CASE CallCritic
  BY <1>14, LaterKeeps DEF CallCritic, CallUpdateOf, Begin, Later
<1>15. CASE BackwardCritic
  BY <1>15, SameKeeps DEF BackwardCritic, Later
<1>16. CASE CriticStep
  <2>1. phase' \in {phase, "raised", "criticized"} /\ phase = "update_critic" /\ cfg' = cfg
    BY <1>16 DEF CriticStep, StepThen, Begin
  <2> QED BY <2>1, LaterKeeps DEF Later
<1>17. CASE Rank
  BY <1>17, LaterKeeps DEF Rank, Later
<1>18. CASE CallUpdate
  BY <1>18, LaterKeeps DEF CallUpdate, CallUpdateOf, Begin, Later
<1>19. CASE Backward
  BY <1>19, SameKeeps DEF Backward, Later
<1>20. CASE GatherFails
  BY <1>20, LaterKeeps DEF GatherFails, Later
<1>21. CASE OptimizerStep
  <2>1. phase' \in {phase, "raised", "done"} /\ phase = "update" /\ cfg' = cfg
    BY <1>21 DEF OptimizerStep, StepThen, Begin
  <2> QED BY <2>1, LaterKeeps DEF Later
<1>22. CASE Finished
  BY <1>22, SameKeeps DEF Finished, vars
<1>23. CASE UNCHANGED vars
  BY <1>23, SameKeeps DEF vars
<1> QED
  BY <1>1, <1>2, <1>3, <1>4, <1>5, <1>6, <1>7, <1>8, <1>9, <1>10, <1>11, <1>12, <1>13, <1>14,
     <1>15, <1>16, <1>17, <1>18, <1>19, <1>20, <1>21, <1>22, <1>23 DEF Next

\* The rows that answer one prompt stand together, one share after the other.
Answering(data, m, p) == {i \in 1 .. m : data.uid[i] = p}

\* How many a worker has of a prompt where the workers share the answers to every one.
LEMMA ShareOfPrompt ==
  ASSUME NEW q \in Nat \ {0}, NEW P \in Nat \ {0}, NEW p \in 1 .. P, NEW data,
         \A i \in 1 .. P * q : data.uid[i] = ((i - 1) \div q) + 1
  PROVE  Cardinality(Answering(data, P * q, p)) = q
<1> DEFINE m == P * q
           a == p - 1
           before == a * q
           places == before + 1 .. before + q
<1>1. m \in Nat /\ a \in 0 .. P - 1 /\ before \in Nat
  OBVIOUS
<1>2. ASSUME NEW i \in 1 .. m PROVE (data.uid[i] = p) <=> i \in places
  <2> DEFINE b == (i - 1) \div q
             j == (i - 1) % q
  <2>1. i - 1 \in Nat /\ data.uid[i] = b + 1
    BY <1>1
  <2>2. b \in Nat /\ j \in 0 .. q - 1 /\ i - 1 = (b * q) + j
    BY <2>1, Lines
  <2> HIDE DEF b, j, before
  <2>3. CASE b = a
    <3>1. b * q = before
      BY <2>3 DEF before
    <3>2. i = before + (j + 1) /\ j + 1 \in 1 .. q
      BY <1>1, <2>2, <3>1
    <3>3. i \in places
      <4> HIDE DEF m
      <4> QED BY <1>1, <3>2
    <3>4. data.uid[i] = p
      BY <2>1, <2>3
    <3> QED BY <3>3, <3>4
  <2>4. CASE b # a
    <3>1. i \notin places
      <4> SUFFICES ASSUME i \in places PROVE FALSE
        OBVIOUS
      <4> DEFINE y == i - before
      <4>1. y \in 1 .. q /\ i = before + y
        BY <1>1
      <4> HIDE DEF y
      <4>2. \A c, d \in Nat : \A u, v \in 1 .. q : c * q + u = d * q + v => c = d /\ u = v
        BY LineAndPlace
      <4>3. a * q + y = b * q + (j + 1)
        BY <1>1, <2>2, <4>1 DEF before
      <4>4. j + 1 \in 1 .. q /\ a \in Nat
        BY <1>1, <2>2
      <4> QED BY <2>2, <2>4, <4>1, <4>2, <4>3, <4>4
    <3> QED BY <1>1, <2>1, <2>2, <2>4, <3>1
  <2> QED BY <2>3, <2>4
<1>3. places \subseteq 1 .. m
  <2>1. (a + 1) * q = before + q
    BY <1>1
  <2>2. (a + 1) * q <= m
    BY <1>1
  <2> HIDE DEF before, m
  <2> QED BY <1>1, <2>1, <2>2
<1>4. Answering(data, m, p) = places
  <2> HIDE DEF m, places
  <2> QED BY <1>2, <1>3 DEF Answering
<1>5. Cardinality(places) = q
  <2> HIDE DEF before
  <2> QED BY <1>1, FS_Interval
<1> QED BY <1>4, <1>5

-----------------------------------------------------------------------------
\* Batches of any number of rows.

Tabular(b) == \E m \in Nat : Table(b, m)

\* Two columns of as many rows.
AsLong(u, v) == \E m \in Nat : Column(u, m) /\ Column(v, m)

\* Rows put together stay as many as other rows put together in the same way.
LEMMA JoinedAsLong ==
  ASSUME NEW u, NEW v, NEW x, NEW y, AsLong(u, x), AsLong(v, y)
  PROVE  AsLong(u \o v, x \o y)
<1>1. PICK a \in Nat : Column(u, a) /\ Column(x, a)
  BY DEF AsLong
<1>2. PICK b \in Nat : Column(v, b) /\ Column(y, b)
  BY DEF AsLong
<1>3. Joins(u, v, a, b, u \o v) /\ Joins(x, y, a, b, x \o y)
  BY <1>1, <1>2, ColumnsJoined
<1>4. a + b \in Nat /\ Column(u \o v, a + b) /\ Column(x \o y, a + b)
  BY <1>3 DEF Joins
<1> QED BY <1>4 DEF AsLong

\* So do lists of them.
LEMMA FlattenAsLong ==
  ASSUME NEW k \in Nat \ {0}, NEW s, Len(s) = k, NEW t, Len(t) = k,
         \A i \in 1 .. k : AsLong(s[i], t[i])
  PROVE  AsLong(FlattenSeq(s), FlattenSeq(t))
<1>1. PICK f : Flattens(s, k, f) /\ FlattenSeq(s) = f[k]
  BY FlattenIs
<1>2. PICK g : Flattens(t, k, g) /\ FlattenSeq(t) = g[k]
  BY FlattenIs
<1> DEFINE N == {n \in Nat : n + 1 <= k => AsLong(f[n + 1], g[n + 1])}
<1>3. 0 \in N
  <2>1. f[1] = s[1] /\ g[1] = t[1] /\ 1 \in 1 .. k
    BY <1>1, <1>2 DEF Flattens
  <2> QED BY <2>1
<1>4. ASSUME NEW n \in N PROVE n + 1 \in N
  <2>1. CASE ~(n + 2 <= k)
    BY <2>1
  <2>2. CASE n + 2 <= k
    <3> DEFINE l == n + 1
    <3>1. AsLong(f[l], g[l]) /\ l + 1 \in 2 .. k /\ l + 1 \in 1 .. k /\ (l + 1) - 1 = l /\ l \in Nat
      BY <2>2
    <3> HIDE DEF l
    <3>2. f[l + 1] = f[l] \o s[l + 1] /\ g[l + 1] = g[l] \o t[l + 1]
      BY <1>1, <1>2, <3>1 DEF Flattens
    <3>3. AsLong(s[l + 1], t[l + 1])
      BY <3>1
    <3>4. AsLong(f[l + 1], g[l + 1])
      BY <3>1, <3>2, <3>3, JoinedAsLong
    <3> QED BY <3>1, <3>4 DEF l
  <2> QED BY <2>1, <2>2
<1>5. N = Nat
  <2>1. N \in SUBSET Nat
    OBVIOUS
  <2> HIDE DEF N
  <2> QED BY <1>3, <1>4, <2>1, Upward
<1>6. k - 1 \in N /\ (k - 1) + 1 = k
  <2> HIDE DEF N
  <2> QED BY <1>5
<1>7. AsLong(f[k], g[k])
  BY <1>6
<1> QED BY <1>1, <1>2, <1>7

\* Batches with the same columns, of any numbers of rows.
Pieces(s, k, C) == C # {} /\ DOMAIN s = 1 .. k /\ \A w \in 1 .. k : DOMAIN s[w] = C /\ Tabular(s[w])

\* torch.concat of them.
LEMMA ConcatTabular ==
  ASSUME NEW k \in Nat \ {0}, NEW s, NEW C, Pieces(s, k, C)
  PROVE  DOMAIN Concat(s) = C /\ Tabular(Concat(s))
<1>0. C # {} /\ DOMAIN s = 1 .. k /\ \A w \in 1 .. k : DOMAIN s[w] = C /\ Tabular(s[w])
  BY DEF Pieces
<1> DEFINE x == Concat(s)
           list(c) == [w \in 1 .. k |-> s[w][c]]
<1>1. 1 \in 1 .. k /\ DOMAIN s[1] = C
  BY <1>0
<1>2. DOMAIN x = C /\ \A c \in C : x[c] = FlattenSeq(list(c))
  BY <1>0, <1>1 DEF Concat
<1> HIDE DEF x
<1>3. ASSUME NEW c \in C, NEW d \in C PROVE AsLong(x[c], x[d])
  <2>1. Len(list(c)) = k /\ Len(list(d)) = k
    OBVIOUS
  <2>2. ASSUME NEW w \in 1 .. k PROVE AsLong(list(c)[w], list(d)[w])
    <3>1. PICK m \in Nat : Table(s[w], m)
      BY <1>0 DEF Tabular
    <3>2. Column(s[w][c], m) /\ Column(s[w][d], m)
      BY <1>0, <3>1 DEF Table
    <3>3. AsLong(s[w][c], s[w][d])
      BY <3>2 DEF AsLong
    <3> QED BY <3>3
  <2> HIDE DEF list
  <2>3. AsLong(FlattenSeq(list(c)), FlattenSeq(list(d)))
    BY <2>1, <2>2, FlattenAsLong
  <2> QED BY <1>2, <2>3
<1>4. PICK c \in C : TRUE
  BY <1>0
<1>5. PICK m \in Nat : Column(x[c], m)
  BY <1>3 DEF AsLong
<1>6. ASSUME NEW d \in C PROVE Column(x[d], m)
  <2>1. PICK n \in Nat : Column(x[c], n) /\ Column(x[d], n)
    BY <1>3 DEF AsLong
  <2>2. Len(x[c]) = n /\ Len(x[c]) = m
    BY <1>5, <2>1, ColumnIs
  <2> QED BY <2>1, <2>2
<1>7. Tabular(x)
  BY <1>0, <1>2, <1>6 DEF Tabular, Table
<1> QED BY <1>2, <1>7 DEF x

\* restore_dynamic_batch moves the rows of a batch.
LEMMA RestoredTabular ==
  ASSUME NEW b, Tabular(b), NEW parts
  PROVE  Tabular([c \in DOMAIN b |-> Restored(b[c], parts)])
<1> DEFINE x == [c \in DOMAIN b |-> Restored(b[c], parts)]
<1>1. PICK m \in Nat : Table(b, m)
  BY DEF Tabular
<1>2. ASSUME NEW c \in DOMAIN b PROVE Column(x[c], m)
  <2> DEFINE indices == ReverseIdx(FlattenSeq(parts))
             y == x[c]
             z == b[c]
  <2>1. Column(z, m)
    BY <1>1 DEF Table
  <2>2. DOMAIN z = 1 .. m
    BY <2>1, ColumnIs
  <2>3. y = [i \in DOMAIN z |-> z[indices[i]]]
    BY DEF Restored, Gathered
  <2> HIDE DEF y, z, indices
  <2>4. y = [i \in 1 .. m |-> z[indices[i]]]
    BY <2>2, <2>3
  <2>5. Column(y, m)
    BY <2>4 DEF Column
  <2> QED BY <2>5 DEF y
<1>3. DOMAIN x = DOMAIN b
  OBVIOUS
<1> HIDE DEF x
<1>4. Table(x, m)
  BY <1>1, <1>2, <1>3 DEF Table
<1>5. Tabular(x)
  BY <1>4 DEF Tabular
<1> QED BY <1>5 DEF x

\* Union with a batch of any number of rows, which CanUnion has found to be the same.
LEMMA UnionTabular ==
  ASSUME NEW n \in Nat, NEW b, Table(b, n), NEW o, Tabular(o), CanUnion(b, o)
  PROVE  Table(Union(b, o), n) /\ DOMAIN Union(b, o) = DOMAIN b \cup DOMAIN o
<1>1. PICK m \in Nat : Table(o, m)
  BY DEF Tabular
<1>2. Rows(b) = n /\ Rows(o) = m /\ Rows(b) = Rows(o)
  BY <1>1, TableRows DEF CanUnion
<1>3. Table(o, n)
  BY <1>1, <1>2
<1> QED BY <1>3, UnionIs

-----------------------------------------------------------------------------
\* Numbers of micro-batches.

\* The least number of bins of size b that hold a.
Ceiling(a, b, c) == c \in Nat /\ a <= c * b /\ (c = 0 \/ (c - 1) * b < a)

\* ceildiv.
LEMMA CeilDivIs ==
  ASSUME NEW a \in Nat, NEW b \in Nat \ {0}
  PROVE  Ceiling(a, b, CeilDiv(a, b))
<1> DEFINE q == (-a) \div b
           r == (-a) % b
<1>1. q \in Int /\ r \in 0 .. b - 1 /\ -a = (q * b) + r
  OBVIOUS
<1>2. CeilDiv(a, b) = -q
  BY DEF CeilDiv
<1> HIDE DEF q, r
<1>3. (-q) * b = a + r /\ ((-q) - 1) * b = (a + r) - b
  BY <1>1
<1>4. -q \in Nat
  <2> SUFFICES ASSUME q >= 1 PROVE FALSE
    BY <1>1
  <2>1. q * b >= b
    BY <1>1
  <2> QED BY <1>1, <2>1
<1> QED BY <1>1, <1>2, <1>3, <1>4 DEF Ceiling

\* It is positive where something is to be held, and grows with that.
LEMMA CeilingGrows ==
  ASSUME NEW a \in Nat, NEW b \in Nat \ {0}, NEW c, Ceiling(a, b, c),
         NEW x \in Nat, x <= a, NEW z, Ceiling(x, b, z)
  PROVE  z <= c /\ (x > 0 => z > 0)
<1>1. c \in Nat /\ z \in Nat /\ a <= c * b /\ (z = 0 \/ (z - 1) * b < x)
  BY DEF Ceiling
<1>2. z <= c
  <2> SUFFICES ASSUME c < z PROVE FALSE
    BY <1>1
  <2>1. z - 1 \in Nat /\ c <= z - 1
    BY <1>1
  <2>2. c * b <= (z - 1) * b
    <3>1. CASE c = z - 1
      BY <1>1, <3>1
    <3>2. CASE c < z - 1
      <4> DEFINE d == z - 1
      <4>1. c * b + b <= d * b
        BY <1>1, <2>1, <3>2, NextLine
      <4>2. c * b \in Nat /\ d * b \in Nat
        BY <1>1, <2>1
      <4> QED BY <4>1, <4>2
    <3> QED BY <2>1, <3>1, <3>2, <1>1
  <2>3. c * b \in Nat /\ (z - 1) * b \in Nat /\ z # 0
    BY <1>1, <2>1
  <2> QED BY <1>1, <2>2, <2>3
<1>3. ASSUME x > 0 PROVE z > 0
  <2>1. x <= z * b
    BY DEF Ceiling
  <2>2. z # 0
    BY <1>3, <2>1
  <2> QED BY <1>1, <2>2
<1> QED BY <1>2, <1>3

\* The rows of a batch weigh something.
LEMMA LoadPositive ==
  ASSUME NEW n \in Nat \ {0}, NEW w, \A i \in 1 .. n : w[i] \in Nat \ {0}, DOMAIN w = 1 .. n, NEW a,
         a = [i \in 1 .. n |-> i]
  PROVE  Load(w, a) \in Nat \ {0}
<1> DEFINE R == 1 .. n
           u == [i \in 1 .. n |-> w[i]]
           p == [i \in 1 .. n - 1 |-> i]
<1>1. p \in Seq(R) /\ n \in R /\ a = Append(p, n)
  <2>1. p \in Seq(R) /\ n \in R /\ Len(p) = n - 1
    OBVIOUS
  <2> DEFINE x == Append(p, n)
  <2>2. x \in Seq(R) /\ Len(x) = n /\ x[n] = n /\ \A i \in 1 .. n - 1 : x[i] = i
    BY <2>1
  <2>3. \A i \in 1 .. n : x[i] = i
    BY <2>2
  <2>4. x = [i \in 1 .. n |-> x[i]]
    BY <2>2
  <2> HIDE DEF x
  <2>5. x = a
    BY <2>3, <2>4
  <2> QED BY <2>1, <2>5 DEF x
<1>2. u \in [R -> Nat] /\ u[n] \in Nat \ {0}
  OBVIOUS
<1>3. Load(w, a) = Load(u, a)
  <2>1. Len(a) = n /\ \A i \in 1 .. Len(a) : w[a[i]] = u[a[i]]
    OBVIOUS
  <2> HIDE DEF u
  <2> QED BY <2>1, LoadSame
<1> HIDE DEF u, p, R
<1>4. Load(u, p) \in Nat
  BY <1>1, <1>2, LoadType
<1>5. Load(u, a) = Load(u, p) + u[n]
  <2>1. Load(u, Append(p, n)) = Load(u, p) + u[n]
    BY <1>1, LoadAppend
  <2> QED BY <1>1, <2>1
<1> QED BY <1>2, <1>3, <1>4, <1>5

\* A rank asks for at least one micro-batch, and for no more than it has rows.
LEMMA WantedIs ==
  ASSUME NEW n \in Nat \ {0}, NEW l, \A i \in 1 .. n : l[i] \in Nat \ {0}, DOMAIN l = 1 .. n, Len(l) = n,
         NEW most \in Nat \ {0}
  PROVE  MicroBatchesWanted(l, most) \in 1 .. n
<1> DEFINE a == [i \in 1 .. n |-> i]
           x == Load(l, a)
           c == CeilDiv(x, most)
<1>1. x \in Nat \ {0}
  <2> HIDE DEF a
  <2>1. a = [i \in 1 .. n |-> i]
    BY DEF a
  <2> QED BY <2>1, LoadPositive
<1>2. MicroBatchesWanted(l, most) = IF c < Len(l) THEN c ELSE Len(l)
  BY DEF MicroBatchesWanted
<1> HIDE DEF x
<1>3. Ceiling(x, most, c)
  BY <1>1, CeilDivIs
<1> HIDE DEF c
<1>4. c \in Nat /\ c > 0
  <2>1. x \in Nat /\ x > 0 /\ x <= x
    BY <1>1
  <2>2. x > 0 => c > 0
    BY <1>3, <2>1, CeilingGrows
  <2> QED BY <1>3, <2>1, <2>2 DEF Ceiling
<1> QED BY <1>2, <1>4

\* Lists of rows, each with the number of its rows.
Parted(x, k) == Column(x, k) /\ \A i \in 1 .. k : \E m \in Nat : Column(x[i], m)

\* Lists put in another order.
LEMMA PartedMoved ==
  ASSUME NEW k \in Nat, NEW p, NEW q, DOMAIN q = 1 .. k,
         \A i \in 1 .. k : \E m \in Nat : Column(p[q[i]], m)
  PROVE  Parted([i \in 1 .. k |-> p[q[i]]], k)
<1> DEFINE x == [i \in 1 .. k |-> p[q[i]]]
<1>1. Column(x, k)
  BY DEF Column
<1>2. \A i \in 1 .. k : \E m \in Nat : Column(x[i], m)
  OBVIOUS
<1> HIDE DEF x
<1>3. Parted(x, k)
  BY <1>1, <1>2 DEF Parted
<1> QED BY <1>3 DEF x

\* Light ones at both ends.
LEMMA BothEnds ==
  ASSUME NEW k \in Nat \ {0}, NEW s, Parted(s, k)
  PROVE  Parted(Reverse(EverySecond(s, 1)) \o EverySecond(s, 2), k)
<1> DEFINE a == (k - 1) \div 2 + 1
           b == (k - 2) \div 2 + 1
           u == EverySecond(s, 1)
           v == EverySecond(s, 2)
           z == Reverse(u)
<1>1. a \in Nat /\ b \in Nat /\ a + b = k /\ (2 * a = k \/ 2 * a = k + 1)
  OBVIOUS
<1>2. Len(s) = k /\ \A i \in 1 .. k : \E m \in Nat : Column(s[i], m)
  BY ColumnIs DEF Parted
<1>3. u = [i \in 1 .. a |-> s[2 * i - 1]]
  BY <1>2 DEF EverySecond
<1>4. v = [i \in 1 .. b |-> s[2 * i]]
  BY <1>2 DEF EverySecond
<1> HIDE DEF a, b, u, v
<1>5. Len(u) = a /\ \A i \in 1 .. a : u[i] = s[2 * i - 1]
  BY <1>1, <1>3
<1>6. z = [i \in 1 .. a |-> u[a - i + 1]]
  BY <1>5 DEF Reverse
<1>7. \A i \in 1 .. a : z[i] = s[2 * (a - i + 1) - 1]
  BY <1>1, <1>5, <1>6
<1> HIDE DEF z
<1>8. Column(z, a) /\ Column(v, b)
  BY <1>4, <1>6 DEF Column
<1>9. Joins(z, v, a, b, z \o v)
  BY <1>1, <1>8, ColumnsJoined
<1> DEFINE x == z \o v
<1> HIDE DEF x
<1>10. Column(x, k) /\ (\A i \in 1 .. a : x[i] = z[i]) /\ (\A j \in 1 .. b : x[a + j] = v[j])
  BY <1>1, <1>9 DEF Joins, x
<1>11. ASSUME NEW i \in 1 .. k PROVE \E j \in 1 .. k : x[i] = s[j]
  <2>1. CASE i <= a
    <3>1. i \in 1 .. a /\ 2 * (a - i + 1) - 1 \in 1 .. k
      BY <1>1, <2>1
    <3> QED BY <1>7, <1>10, <3>1
  <2>2. CASE ~(i <= a)
    <3>1. i - a \in 1 .. b /\ i = a + (i - a) /\ 2 * (i - a) \in 1 .. k
      BY <1>1, <2>2
    <3>2. v[i - a] = s[2 * (i - a)] /\ x[i] = v[i - a]
      BY <1>4, <1>10, <3>1
    <3> QED BY <3>1, <3>2
  <2> QED BY <2>1, <2>2
<1>12. Parted(x, k)
  BY <1>2, <1>10, <1>11 DEF Parted
<1> QED BY <1>12 DEF x, z, u, v

\* rearrange_micro_batches cuts the rows into as many micro-batches as it was told to.
LEMMA MicroBatchesAre ==
  ASSUME NEW n \in Nat, NEW lengths, Workloads(lengths) \in [1 .. n -> Nat],
         NEW k \in Nat \ {0}, k <= n
  PROVE  Parted(MicroBatches(lengths, k), k)
<1> DEFINE w == Workloads(lengths)
           parts == BalancedPartitions(w, k, FALSE)
           Before(p, q) == \/ Load(w, p) > Load(w, q)
                           \/ Load(w, p) = Load(w, q) /\ p[1] > q[1]
           smaller == {p \in Pairs(parts) : Before(parts[p[1]], parts[p[2]])}
           sorted == Sorted(parts, smaller)
<1>1. w \in [1 .. n -> Nat]
  OBVIOUS
<1>2. MicroBatches(lengths, k) = Reverse(EverySecond(sorted, 1)) \o EverySecond(sorted, 2)
  BY DEF MicroBatches
<1> HIDE DEF w
<1>3. PICK d \in Nat : Apart(w, n, d)
  BY <1>1, Bounded
<1>4. Fits(n, k, FALSE) /\ d \in Int
  BY DEF Fits
<1>5. Partitioned(w, n, k, d, FALSE, parts)
  BY <1>1, <1>3, <1>4, SortedPartitions
<1>6. parts \in [1 .. k -> Seq(1 .. n)] /\ \A i \in 1 .. k : parts[i] # <<>>
  BY <1>5 DEF Partitioned
<1> HIDE DEF parts
<1>7. DOMAIN parts = 1 .. k
  BY <1>6
<1>8. ASSUME NEW i \in 1 .. k
      PROVE  Load(w, parts[i]) \in Nat /\ parts[i][1] \in Nat /\ \E m \in Nat : Column(parts[i], m)
  <2> DEFINE p == parts[i]
             R == 1 .. n
             m == Len(p)
  <2>1. p \in Seq(R) /\ p # <<>> /\ w \in [R -> Nat]
    BY <1>1, <1>6
  <2> HIDE DEF p
  <2>2. p[1] \in Nat /\ m \in Nat
    BY <2>1, FirstRow
  <2>3. p \in [1 .. m -> R]
    BY <2>1
  <2> HIDE DEF R, m
  <2>4. Load(w, p) \in Nat
    BY <2>1, LoadType
  <2>5. Column(p, m)
    BY <2>2, <2>3, ColumnMade
  <2> QED BY <2>2, <2>4, <2>5 DEF p
<1>9. ASSUME NEW i \in 1 .. k, NEW j \in 1 .. k
      PROVE  <<i, j>> \in smaller <=> Before(parts[i], parts[j])
  BY <1>7 DEF Pairs
<1>10. ASSUME NEW i \in 1 .. k, NEW j \in 1 .. k, <<i, j>> \in smaller
       PROVE  <<j, i>> \notin smaller
  BY ONLY <1>8, <1>9, <1>10
<1>11. ASSUME NEW a \in 1 .. k, NEW b \in 1 .. k, NEW c \in 1 .. k, <<a, c>> \in smaller
       PROVE  <<a, b>> \in smaller \/ <<b, c>> \in smaller
  <2> DEFINE L(i) == Load(w, parts[i])
             F(i) == parts[i][1]
  <2>1. L(a) \in Nat /\ L(b) \in Nat /\ L(c) \in Nat /\ F(a) \in Nat /\ F(b) \in Nat /\ F(c) \in Nat
    BY <1>8
  <2>2. \A i, j \in 1 .. k : <<i, j>> \in smaller <=> L(i) > L(j) \/ (L(i) = L(j) /\ F(i) > F(j))
    BY <1>9
  <2> HIDE DEF L, F, smaller
  <2> QED BY <1>11, <2>1, <2>2
<1> HIDE DEF smaller
<1>12. SortedBy(k, parts, smaller, sorted)
  BY <1>7, <1>10, <1>11, SortedIs
<1> HIDE DEF sorted
<1>13. PICK q \in Orders(k) : sorted = [i \in 1 .. k |-> parts[q[i]]]
  BY <1>12 DEF SortedBy
<1>14. DOMAIN q = 1 .. k /\ \A i \in 1 .. k : q[i] \in 1 .. k
  BY DEF Orders
<1>15. \A i \in 1 .. k : \E m \in Nat : Column(parts[q[i]], m)
  BY <1>8, <1>14
<1>16. Parted(sorted, k)
  BY <1>13, <1>14, <1>15, PartedMoved
<1> QED BY <1>2, <1>16, BothEnds

-----------------------------------------------------------------------------
\* The mesh.

\* The ranks between one pipeline stage and the next.
PerStage(c) == c.world \div c.pp

\* A configuration's ranks are the stages', a stage's the data-parallel ranks'.
Meshed(c, d) ==
  /\ d \in Nat \ {0} /\ PerStage(c) \in Nat \ {0} /\ c.tp * c.sp \in Nat \ {0}
  /\ c.pp * PerStage(c) = c.world /\ d * (c.tp * c.sp) = PerStage(c)

\* Three factors in another order.
LEMMA Factors ==
  ASSUME NEW a \in Nat \ {0}, NEW b \in Nat \ {0}, NEW c \in Nat \ {0}, NEW d \in Nat
  PROVE  /\ (a * b) * c \in Nat \ {0} /\ a * b \in Nat \ {0} /\ d * (a * b) \in Nat
         /\ ((a * b) * c) * d = c * (d * (a * b)) /\ (d * (a * b)) * c = c * (d * (a * b))
         /\ d * (a * b) = (d * b) * a
OBVIOUS

\* The division of the ranks by _validate_config and the constructors leaves nothing over.
LEMMA MeshIs ==
  ASSUME cfg \in Configs
  PROVE  Meshed(cfg, Dp) /\ cfg.mini * cfg.n >= Dp
<1> DEFINE W == cfg.world
           a == cfg.tp
           b == cfg.sp
           c == cfg.pp
           P == (a * b) * c
           d == W \div P
<1>1. /\ W \in Nat \ {0} /\ a \in Nat \ {0} /\ b \in Nat \ {0} /\ c \in Nat \ {0}
      /\ W % P = 0 /\ d = Dp /\ cfg.mini * cfg.n >= Dp
  BY ConfigsAssumption DEF Dp
<1> HIDE DEF W, a, b, c
<1>2. P \in Nat \ {0} /\ a * b \in Nat \ {0}
  BY <1>1, Factors
<1> HIDE DEF P
<1>3. d \in Nat /\ P * d = W
  BY <1>1, <1>2, Shares
<1> HIDE DEF d
<1>4. d # 0
  BY <1>1, <1>2, <1>3
<1> DEFINE q == d * (a * b)
<1>5. q \in Nat \ {0} /\ q * c = W /\ c * q = W
  <2>1. q \in Nat /\ P * d = c * q /\ q * c = c * q
    BY <1>1, <1>3, Factors DEF P
  <2>2. q # 0
    <3> SUFFICES ASSUME q = 0 PROVE FALSE
      OBVIOUS
    <3>1. c * q = 0
      BY <1>1
    <3> HIDE DEF q
    <3> QED BY <1>1, <1>3, <2>1, <3>1
  <2> HIDE DEF q
  <2> QED BY <1>3, <2>1, <2>2
<1>6. q = W \div c
  <2> HIDE DEF q
  <2> QED BY <1>1, <1>5, ShareOnly
<1> QED BY <1>1, <1>2, <1>3, <1>4, <1>5, <1>6 DEF Meshed, PerStage, W, a, b, c

\* The last stage has a rank for each rank.
LEMMA LastStageIs ==
  ASSUME cfg \in Configs, NEW r \in Ranks
  PROVE  LastStage(r) \in Ranks
<1> DEFINE q == PerStage(cfg)
           p == cfg.pp
           x == r \div q
           y == r % q
<1>1. q \in Nat \ {0} /\ p \in Nat \ {0} /\ p * q = cfg.world /\ r \in Nat
  BY MeshIs, KnownConfig DEF Meshed, Known, Ranks
<1>2. LastStage(r) = r + ((p - 1) - x) * q
  BY DEF LastStage, Stage, PerStage
<1> HIDE DEF q, p
<1>3. x \in Nat /\ y \in 0 .. q - 1 /\ r = (x * q) + y
  BY <1>1, Lines
<1> HIDE DEF x, y
<1>4. ((p - 1) - x) * q = (p - 1) * q - x * q /\ (p - 1) * q = p * q - q /\ (p - 1) * q \in Nat /\ x * q \in Nat
  BY <1>1, <1>3
<1>5. LastStage(r) = (p - 1) * q + y /\ (p - 1) * q = cfg.world - q
  BY <1>1, <1>2, <1>3, <1>4
<1>6. LastStage(r) \in 0 .. cfg.world - 1
  BY <1>1, <1>3, <1>4, <1>5
<1> QED BY <1>6 DEF Ranks

\* A multiple of a number, divided by it.
LEMMA Multiple ==
  ASSUME NEW a \in Nat, NEW k \in Nat \ {0}
  PROVE  a * k \in Nat /\ (a * k) \div k = a /\ (a * k) % k = 0
<1> DEFINE n == a * k
<1>1. n \in Nat /\ a * k = n
  OBVIOUS
<1> HIDE DEF n
<1>2. a = n \div k /\ n % k = 0
  BY <1>1, ShareOnly
<1> QED BY <1>1, <1>2

\* Some rank answers for the ranks of its rows.
LEMMA OneCollects ==
  ASSUME cfg \in Configs
  PROVE  \E r \in Ranks : Collects(r)
<1> DEFINE q == PerStage(cfg)
           p == cfg.pp
           a == cfg.tp
           b == cfg.sp
           d == Dp
           t == p - 1
           r == t * q
           u == t * d
           v == u * b
<1>1. /\ q \in Nat \ {0} /\ p \in Nat \ {0} /\ a \in Nat \ {0} /\ b \in Nat \ {0} /\ d \in Nat \ {0}
      /\ p * q = cfg.world /\ q = d * (a * b)
  BY MeshIs, KnownConfig DEF Meshed, Known
<1>2. Collects(r) <=> r % a = 0 /\ (r \div a) % b = 0 /\ r \div q = t
  BY DEF Collects, SpRank, Stage, PerStage
<1> HIDE DEF q, p, a, b, d
<1>3. t \in Nat /\ r = p * q - q /\ u \in Nat /\ v \in Nat
  BY <1>1
<1>4. r = v * a
  <2>1. t * (d * (a * b)) = ((t * d) * b) * a
    BY <1>1, <1>3
  <2> QED BY <1>1, <2>1
<1> HIDE DEF t, u
<1>5. r \div q = t
  BY <1>1, <1>3, Multiple
<1>6. r \div a = v /\ r % a = 0
  BY <1>1, <1>3, <1>4, Multiple
<1>7. v % b = 0
  BY <1>1, <1>3, Multiple
<1>8. r \in Ranks
  BY <1>1, <1>3 DEF Ranks
<1> QED BY <1>2, <1>5, <1>6, <1>7, <1>8

\* The ranks that answer make a list.
LEMMA CollectorsAre ==
  ASSUME cfg \in Configs, NEW ranks, ranks = Increasing(SetToSeq({r \in Ranks : Collects(r)}))
  PROVE  \E k \in Nat \ {0} : DOMAIN ranks = 1 .. k /\ \A i \in 1 .. k : ranks[i] \in Ranks
<1> DEFINE S == {r \in Ranks : Collects(r)}
           n == Cardinality(S)
           a == SetToSeq(S)
<1>1. S # {} /\ S \subseteq Ranks
  BY OneCollects
<1>2. IsFiniteSet(S)
  <2>1. IsFiniteSet(Ranks)
    BY FS_Interval, KnownConfig DEF Ranks
  <2> HIDE DEF S
  <2> QED BY <1>1, <2>1, FS_Subset
<1> HIDE DEF S
<1>3. n \in Nat \ {0}
  <2>1. n \in Nat /\ n # 0
    BY <1>1, <1>2, FS_CardinalityType, FS_EmptySet
  <2> QED BY <2>1
<1>4. a \in [1 .. n -> S] /\ IsInjective(a)
  <2>1. ExistsBijection(1 .. n, S)
    BY <1>2, FS_CardinalityType
  <2>2. PICK f : f \in Bijection(1 .. n, S)
    BY <2>1 DEF ExistsBijection
  <2>3. f \in [1 .. n -> S] /\ IsInjective(f)
    BY <2>2 DEF Bijection, Injection, IsInjective
  <2> QED BY <2>3 DEF SetToSeq
<1> HIDE DEF a
<1> HIDE DEF n
<1>5. a \in Seq(S) /\ Len(a) = n /\ Distinct(a) /\ S \in SUBSET Int
  <2>1. Ranks \subseteq Int
    BY DEF Ranks
  <2>2. a \in Seq(S) /\ Len(a) = n /\ DOMAIN a = 1 .. n
    BY <1>3, <1>4
  <2> QED BY <1>1, <1>4, <2>1, <2>2 DEF Distinct, IsInjective
<1> DEFINE b == Increasing(a)
<1>6. ranks = b
  BY DEF a, S
<1>7. b \in Seq(S) /\ Len(b) = n
  BY <1>5, IncreasingIs
<1> HIDE DEF b
<1>8. DOMAIN b = 1 .. n /\ \A i \in 1 .. n : b[i] \in S
  BY <1>3, <1>7
<1> QED BY <1>1, <1>3, <1>6, <1>8

-----------------------------------------------------------------------------
\* Dealing a batch to the ranks, and putting their results together.

\* A rank's share of m rows, each with its response.
Share(data, m) == Table(data, m) /\ "responses" \in DOMAIN data /\ Answered(data.responses, m)

\* What the ranks are given.
Given(c, g, m) == \A r \in 0 .. c.world - 1 : Share(g[r], m)

\* The data-parallel ranks are counted from zero.
LEMMA DpRankIs ==
  ASSUME cfg \in Configs, NEW r \in Ranks
  PROVE  Dp \in Nat \ {0} /\ DpRank(r) + 1 \in 1 .. Dp
<1> DEFINE q == cfg.tp * cfg.sp
           d == Dp
           x == r \div q
<1>1. q \in Nat \ {0} /\ d \in Nat \ {0} /\ r \in Nat
  BY MeshIs DEF Meshed, Ranks
<1>2. DpRank(r) = x % d
  BY DEF DpRank
<1> HIDE DEF q, d
<1>3. x \in Nat
  BY <1>1, Lines
<1> HIDE DEF x
<1>4. x % d \in 0 .. d - 1
  BY <1>1, <1>3, Lines
<1> QED BY <1>1, <1>2, <1>4 DEF d

\* What dispatch makes of a batch that divides evenly.
Dispatched(data, n, g) ==
  \A r \in Ranks :
    /\ DOMAIN g[r] = DOMAIN data /\ Table(g[r], n \div Dp)
    /\ \A c \in DOMAIN data : \A i \in 1 .. n \div Dp : \E j \in 1 .. n : g[r][c][i] = data[c][j]

\* Every rank is given as many rows, all of them rows of the batch.
LEMMA DispatchIs ==
  ASSUME cfg \in Configs, NEW n \in Nat, n % Dp = 0, NEW data, Table(data, n)
  PROVE  Dispatched(data, n, DispatchTo(data))
<1> DEFINE d == Dp
           m == n \div d
           x == Chunk(data, d)
           g == DispatchTo(data)
<1>1. g = [r \in Ranks |-> x[DpRank(r) + 1]]
  BY DEF DispatchTo
<1>2. d \in Nat \ {0}
  BY MeshIs DEF Meshed
<1>3. Chunked(data, d, m, x)
  BY <1>2, ChunkIs
<1>4. m \in Nat /\ d * m = n
  BY <1>2, Shares
<1>5. \A r \in Ranks : DpRank(r) + 1 \in 1 .. d
  BY DpRankIs
<1> HIDE DEF x, g, d, m
<1>6. ASSUME NEW r \in Ranks
      PROVE  /\ DOMAIN g[r] = DOMAIN data /\ Table(g[r], m)
             /\ \A c \in DOMAIN data : \A i \in 1 .. m : \E j \in 1 .. n : g[r][c][i] = data[c][j]
  <2> DEFINE w == DpRank(r) + 1
  <2>1. w \in 1 .. d /\ g[r] = x[w]
    BY <1>1, <1>5
  <2> HIDE DEF w
  <2>2. DOMAIN g[r] = DOMAIN data /\ Table(g[r], m)
    BY <1>3, <2>1 DEF Chunked
  <2>3. ASSUME NEW c \in DOMAIN data, NEW i \in 1 .. m PROVE \E j \in 1 .. n : g[r][c][i] = data[c][j]
    <3>1. g[r][c][i] = data[c][(w - 1) * m + i]
      BY <1>3, <2>1 DEF Chunked
    <3>2. m \in Nat \ {0} /\ w - 1 \in 0 .. d - 1 /\ d \in Nat
      BY <1>2, <1>4, <2>1
    <3>3. (w - 1) * m + i \in 1 .. d * m
      BY <3>2, LineAndPlace
    <3> QED BY <1>4, <3>1, <3>3
  <2> QED BY <2>2, <2>3
<1> QED BY <1>6 DEF Dispatched, g, m, d

\* Shares of a batch with responses are shares with responses.
LEMMA DispatchShares ==
  ASSUME cfg \in Configs, NEW n \in Nat, n % Dp = 0, NEW data, Share(data, n)
  PROVE  Given(cfg, DispatchTo(data), n \div Dp)
<1> DEFINE m == n \div Dp
           g == DispatchTo(data)
<1>1. Dispatched(data, n, g)
  BY DispatchIs DEF Share
<1> HIDE DEF g
<1>2. ASSUME NEW r \in Ranks PROVE Share(g[r], m)
  <2>1. /\ DOMAIN g[r] = DOMAIN data /\ Table(g[r], m) /\ "responses" \in DOMAIN data
        /\ \A i \in 1 .. m : \E j \in 1 .. n : g[r].responses[i] = data.responses[j]
    BY <1>1 DEF Dispatched, Share
  <2>2. Column(g[r].responses, m)
    BY <2>1 DEF Table
  <2>3. Answered(g[r].responses, m)
    BY <2>1, <2>2 DEF Answered, Share
  <2> QED BY <2>1, <2>3 DEF Share
<1> QED BY <1>2 DEF Given, Ranks, g, m

-----------------------------------------------------------------------------
\* Balanced shares.

\* The load of places on either side of a cut.
LEMMA LoadOfMore ==
  ASSUME NEW n \in Nat, NEW v \in [1 .. n -> Nat], NEW a \in Nat, NEW l \in Nat, NEW m \in Nat, a + l + m <= n
  PROVE  /\ Load(v, After(a, l + m)) = Load(v, After(a, l)) + Load(v, After(a + l, m))
         /\ Load(v, After(a, l)) \in Nat /\ Load(v, After(a + l, m)) \in Nat
<1> DEFINE R == 1 .. n
           p == After(a, l)
           q == After(a + l, m)
<1>1. p \in Seq(R) /\ q \in Seq(R) /\ Len(p) = l /\ Len(q) = m
  BY DEF After
<1>2. (\A i \in 1 .. l : p[i] = a + i) /\ \A i \in 1 .. m : q[i] = a + l + i
  BY DEF After
<1> HIDE DEF p, q, R
<1>3. After(a, l + m) = p \o q
  <2> DEFINE t == p \o q
  <2>1. Len(t) = l + m /\ t \in Seq(R) /\ \A i \in 1 .. l + m : t[i] = IF i <= l THEN p[i] ELSE q[i - l]
    BY <1>1, ConcatProperties
  <2>2. ASSUME NEW i \in 1 .. l + m PROVE t[i] = a + i
    <3> HIDE DEF t
    <3>1. CASE i <= l
      <4>1. t[i] = p[i] /\ i \in 1 .. l
        BY <2>1, <3>1
      <4> QED BY <1>2, <4>1
    <3>2. CASE ~(i <= l)
      <4> DEFINE j == i - l
      <4>1. t[i] = q[j] /\ j \in 1 .. m /\ i = l + j
        BY <2>1, <3>2
      <4> HIDE DEF j
      <4> QED BY <1>2, <4>1
    <3> QED BY <3>1, <3>2
  <2> HIDE DEF t
  <2>3. t = [i \in 1 .. l + m |-> t[i]]
    BY <2>1
  <2>4. t = [i \in 1 .. l + m |-> a + i]
    BY <2>2, <2>3
  <2> QED BY <2>4 DEF After, t
<1>4. v \in [R -> Nat]
  BY DEF R
<1>5. Load(v, p \o q) = Load(v, p) + Load(v, q)
  BY <1>1, <1>4, LoadConcat
<1>6. Load(v, p) \in Nat /\ Load(v, q) \in Nat
  BY <1>1, <1>4, LoadType
<1> QED BY <1>3, <1>5, <1>6 DEF p, q

\* Neighbouring shares, c at a time, differ by at most c times what two shares do.
LEMMA WiderEven ==
  ASSUME NEW n \in Nat, NEW v \in [1 .. n -> Nat], NEW m \in Nat, NEW k \in Nat, k * m = n, NEW d \in Nat, EvenLoads(v, m, k, d),
         NEW c \in Nat, NEW x \in Nat, x + c <= k, NEW y \in Nat, y + c <= k
  PROVE  Load(v, After(x * m, c * m)) - Load(v, After(y * m, c * m)) <= c * d
<1> DEFINE Good(b) == Load(v, After(x * m, b * m)) - Load(v, After(y * m, b * m)) <= b * d
           N == {b \in Nat : x + b <= k /\ y + b <= k => Good(b)}
\* One share more.
<1>1. ASSUME NEW z \in Nat, NEW b \in Nat, z + (b + 1) <= k
      PROVE  /\ Load(v, After(z * m, (b + 1) * m))
                  = Load(v, After(z * m, b * m)) + Load(v, After((z + b) * m, m))
             /\ Load(v, After(z * m, b * m)) \in Nat /\ Load(v, After((z + b) * m, m)) \in Nat
  <2> DEFINE a == z * m
             l == b * m
  <2>1. a \in Nat /\ l \in Nat /\ a + l = (z + b) * m /\ (b + 1) * m = l + m
    OBVIOUS
  <2>2. (z + b) * m + m <= k * m
    <3>1. CASE m = 0
      BY <3>1
    <3>2. CASE m # 0
      <4> DEFINE e == z + b
      <4>1. e \in Nat /\ e < k /\ m \in Nat \ {0}
        BY <1>1, <3>2
      <4> HIDE DEF e
      <4>2. e * m + m <= k * m
        BY <4>1, NextLine
      <4> QED BY <4>2 DEF e
    <3> QED BY <3>1, <3>2
  <2> DEFINE e == (z + b) * m
  <2>3. a + l = e /\ e + m <= n
    BY <2>1, <2>2
  <2> HIDE DEF a, l, e
  <2>4. a + l + m <= n
    BY <2>1, <2>3
  <2>5. /\ Load(v, After(a, l + m)) = Load(v, After(a, l)) + Load(v, After(a + l, m))
        /\ Load(v, After(a, l)) \in Nat /\ Load(v, After(a + l, m)) \in Nat
    BY <2>1, <2>4, LoadOfMore
  <2>6. (b + 1) * m = l + m
    BY <2>1
  <2> QED BY <2>3, <2>5, <2>6 DEF a, l, e
<1>2. 0 \in N
  <2>1. After(x * m, 0 * m) = <<>> /\ After(y * m, 0 * m) = <<>>
    BY DEF After
  <2>2. Load(v, <<>>) = 0
    BY LoadEmpty
  <2>3. 0 * d = 0
    OBVIOUS
  <2> QED BY <2>1, <2>2, <2>3
<1>3. ASSUME NEW b \in N PROVE b + 1 \in N
  <2> SUFFICES ASSUME x + (b + 1) <= k, y + (b + 1) <= k PROVE Good(b + 1)
    OBVIOUS
  <2>1. b \in Nat /\ Good(b)
    OBVIOUS
  <2>2. Load(v, After((x + b) * m, m)) - Load(v, After((y + b) * m, m)) <= d
    <3>1. x + b + 1 \in 1 .. k /\ (x + b + 1) - 1 = x + b /\ y + b + 1 \in 1 .. k /\ (y + b + 1) - 1 = y + b
      BY <2>1
    <3> QED BY <3>1 DEF EvenLoads
  <2> DEFINE X == Load(v, After(x * m, b * m))
             Y == Load(v, After(y * m, b * m))
             A == Load(v, After((x + b) * m, m))
             B == Load(v, After((y + b) * m, m))
  <2>3. Load(v, After(x * m, (b + 1) * m)) = X + A /\ X \in Nat /\ A \in Nat
    BY <1>1, <2>1
  <2>4. Load(v, After(y * m, (b + 1) * m)) = Y + B /\ Y \in Nat /\ B \in Nat
    BY <1>1, <2>1
  <2>5. b * d \in Nat /\ (b + 1) * d = b * d + d
    BY <2>1
  <2>6. X - Y <= b * d /\ A - B <= d
    BY <2>1, <2>2
  <2> DEFINE e == b * d
  <2>7. e \in Nat /\ (b + 1) * d = e + d /\ X - Y <= e
    BY <2>5, <2>6
  <2> HIDE DEF X, Y, A, B, e
  <2>8. (X + A) - (Y + B) <= e + d
    BY <2>3, <2>4, <2>6, <2>7
  <2> QED BY <2>3, <2>4, <2>7, <2>8
<1>4. N = Nat
  <2>1. N \in SUBSET Nat
    OBVIOUS
  <2> HIDE DEF N
  <2> QED BY <1>2, <1>3, <2>1, Upward
<1>5. c \in N
  BY <1>4
<1> QED BY <1>5

\* A rank is dealt the partitions of its group.
LEMMA DealtEvenly ==
  ASSUME BalanceInv, phase = "balanced", cfg.balance, NEW r \in Ranks, NEW q \in Ranks
  PROVE  LET w      == Workloads(Lengths(batch))
             shares == DispatchTo(batch)
         IN  WorkOf(shares[r]) - WorkOf(shares[q]) <= (cfg.world \div Dp) * (Max(Range(w)) - Min(Range(w)))
<1> DEFINE n == Samples(cfg)
           k == cfg.world
           g == Dp
           c == k \div g
           m == n \div k
           v == Workloads(Lengths(batch))
           d == Max(Range(v)) - Min(Range(v))
           x == Chunk(batch, g)
<1>1. cfg \in Configs /\ Held(cfg, batch) /\ Evened(cfg, batch)
  BY DEF BalanceInv
<1>2. n \in Nat \ {0} /\ k \in Nat \ {0} /\ Meshed(cfg, g)
  BY <1>1, KnownConfig, MeshIs
<1>3. Weighed(batch, n) /\ Table(batch, n) /\ Answered(batch.responses, n) /\ "responses" \in DOMAIN batch
  BY <1>1, <1>2, WorkloadsAre DEF Held
<1>4. v \in [1 .. n -> Nat]
  BY <1>3 DEF Weighed
<1>5. n % k = 0 /\ EvenLoads(v, m, k, d)
  BY <1>1 DEF Evened, EvenlyDealt
<1>6. m \in Nat /\ k * m = n
  BY <1>2, <1>5, Shares
\* Every data-parallel rank has c of the k shares.
<1>7. g \in Nat \ {0} /\ c \in Nat /\ c * g = k
  <2> DEFINE h == PerStage(cfg)
             s == cfg.tp * cfg.sp
             p == cfg.pp
  <2>1. /\ g \in Nat \ {0} /\ h \in Nat \ {0} /\ s \in Nat \ {0} /\ p \in Nat \ {0}
        /\ p * h = k /\ g * s = h
    BY <1>1, <1>2, KnownConfig DEF Meshed, Known
  <2> HIDE DEF g, h, s, p, k
  <2>2. (p * s) * g = k /\ p * s \in Nat
    <3>1. p * (g * s) = (p * s) * g
      BY <2>1
    <3> QED BY <2>1, <3>1
  <2> DEFINE t == p * s
  <2>3. t \in Nat /\ t * g = k
    BY <2>2
  <2> HIDE DEF t
  <2>4. t = k \div g
    BY <1>2, <2>1, <2>3, ShareOnly
  <2> QED BY <2>1, <2>3, <2>4
<1> HIDE DEF n, k, m, v, g, c
<1>8. d \in Nat
  <2>1. \A i \in 1 .. n : v[i] \in Int
    BY <1>4
  <2>2. Extremes(Numbers(v, n))
    BY <1>2, <2>1, ExtremesAre
  <2>3. Range(v) = Numbers(v, n) /\ \A y \in Range(v) : y \in Nat
    BY <1>4 DEF Range, Numbers
  <2> QED BY <2>2, <2>3 DEF Extremes
<1> HIDE DEF d, x
<1>9. (c * m) * g = n /\ c * m \in Nat
  <2>1. (c * g) * m = (c * m) * g /\ c * m \in Nat
    BY <1>6, <1>7
  <2> QED BY <1>6, <1>7, <2>1
<1>10. c * m = n \div g /\ n % g = 0
  <2> DEFINE l == c * m
  <2>1. l \in Nat /\ l * g = n
    BY <1>9
  <2> HIDE DEF l
  <2>2. l = n \div g /\ n % g = 0
    BY <1>2, <1>7, <2>1, ShareOnly
  <2> QED BY <2>2 DEF l
<1>11. Chunked(batch, g, c * m, x)
  <2>1. Chunked(batch, g, n \div g, x)
    BY <1>2, <1>3, <1>7, <1>10, ChunkIs DEF x
  <2> QED BY <1>10, <2>1
<1>12. ASSUME NEW o \in Ranks
       PROVE  \E y \in Nat : y + c <= k /\ WorkOf(DispatchTo(batch)[o]) = Load(v, After(y * m, c * m))
  <2> DEFINE p == DpRank(o)
             l == c * m
             b == x[p + 1]
             u == Workloads(Lengths(b))
             y == p * c
  <2>1. p + 1 \in 1 .. g /\ p \in Nat
    <3>1. p + 1 \in 1 .. g
      BY <1>1, DpRankIs DEF g
    <3>2. p \in Int
      BY <1>1, <1>2, MeshIs DEF DpRank, Ranks, Meshed, g
    <3> QED BY <1>7, <3>1, <3>2
  <2>2. DispatchTo(batch)[o] = b
    BY DEF DispatchTo, x, g
  <2> HIDE DEF p
  <2>3. /\ DOMAIN b = DOMAIN batch /\ Table(b, l)
        /\ \A i \in 1 .. l : b.responses[i] = batch.responses[p * l + i]
    <3>1. (p + 1) - 1 = p
      BY <2>1
    <3> QED BY <1>3, <1>11, <2>1, <3>1 DEF Chunked
  <2> HIDE DEF b, u
  <2>4. y \in Nat /\ y + c <= k /\ y * m = p * l
    <3>1. p * c + c <= g * c
      <4>1. CASE c = 0
        BY <1>7, <2>1, <4>1
      <4>2. CASE c # 0
        BY <1>7, <2>1, <4>2, NextLine
      <4> QED BY <4>1, <4>2
    <3>2. g * c = k
      BY <1>7
    <3>3. (p * c) * m = p * (c * m) /\ p * c \in Nat
      BY <1>6, <1>7, <2>1
    <3> QED BY <3>1, <3>2, <3>3
  <2>5. l \in Nat /\ p * l \in Nat /\ p * l + l <= n
    <3>1. l \in Nat /\ p < g /\ l * g = n
      <4>1. l \in Nat /\ l * g = n
        BY <1>9
      <4>2. p < g
        BY <1>7, <2>1
      <4> QED BY <4>1, <4>2
    <3> HIDE DEF l
    <3>2. p * l + l <= g * l
      <4>1. CASE l = 0
        BY <1>7, <2>1, <4>1
      <4>2. CASE l # 0
        BY <1>7, <2>1, <3>1, <4>2, NextLine
      <4> QED BY <4>1, <4>2
    <3>3. g * l = l * g /\ p * l \in Nat
      BY <1>7, <2>1, <3>1
    <3> QED BY <3>1, <3>2, <3>3
  <2> HIDE DEF l, y
  <2>6. Answered(b.responses, l)
    <3> DEFINE e == p * l
    <3>1. \A i \in 1 .. l : e + i \in 1 .. n
      <4>1. e \in Nat /\ e + l <= n /\ l \in Nat
        BY <2>5
      <4> HIDE DEF e
      <4> QED BY <1>2, <4>1
    <3>2. Column(b.responses, l)
      BY <1>3, <2>3 DEF Table
    <3> QED BY <1>3, <2>3, <3>1, <3>2 DEF Answered
  <2>7. Weighed(b, l)
    BY <2>3, <2>5, <2>6, WorkloadsAre
  <2>8. \A i \in 1 .. l : u[i] = v[p * l + i]
    <3> SUFFICES ASSUME NEW i \in 1 .. l PROVE u[i] = v[p * l + i]
      OBVIOUS
    <3>1. p * l + i \in 1 .. n
      <4> DEFINE e == p * l
      <4>1. e \in Nat /\ e + l <= n /\ l \in Nat
        BY <2>5
      <4> HIDE DEF e
      <4>2. e + i \in 1 .. n
        BY <1>2, <4>1
      <4> QED BY <4>2 DEF e
    <3>2. u[i] = Workload(Lengths(b)[i])
      BY <2>7 DEF Weighed, Workloads, u
    <3> DEFINE j == p * l + i
    <3>3. v[j] = Workload(Lengths(batch)[j])
      <4> HIDE DEF j
      <4> QED BY <1>3, <3>1 DEF Weighed, Workloads, v, j
    <3>4. Lengths(b)[i] = b.responses[i].prompt + b.responses[i].response
      BY <2>7 DEF Weighed, Lengths
    <3>5. Lengths(batch)[j] = batch.responses[j].prompt + batch.responses[j].response
      <4> HIDE DEF j
      <4> QED BY <1>3, <3>1 DEF Weighed, Lengths, j
    <3>6. b.responses[i] = batch.responses[j]
      BY <2>3
    <3> QED BY <3>2, <3>3, <3>4, <3>5, <3>6
  <2>9. DOMAIN u = 1 .. l
    BY <2>7 DEF Weighed, Workloads, u
  <2>10. Load(u, [i \in 1 .. l |-> i]) = Load(v, After(p * l, l))
    <3> DEFINE a == [i \in 1 .. l |-> i]
               z == After(p * l, l)
    <3>1. Len(a) = l /\ Len(z) = l /\ \A i \in 1 .. l : a[i] = i /\ z[i] = p * l + i
      BY <2>5 DEF After
    <3> HIDE DEF a, z, u
    <3>2. \A i \in 1 .. Len(a) : u[a[i]] = v[z[i]]
      BY <2>8, <3>1
    <3>3. Load(u, a) = Load(v, z)
      BY <2>5, <3>1, <3>2, LoadSame
    <3> QED BY <3>3 DEF a, z
  <2>11. WorkOf(b) = Load(v, After(y * m, l))
    BY <2>4, <2>9, <2>10 DEF WorkOf, u
  <2> QED BY <2>2, <2>4, <2>11 DEF l
<1>13. PICK y \in Nat : y + c <= k /\ WorkOf(DispatchTo(batch)[r]) = Load(v, After(y * m, c * m))
  BY <1>12
<1>14. PICK z \in Nat : z + c <= k /\ WorkOf(DispatchTo(batch)[q]) = Load(v, After(z * m, c * m))
  BY <1>12
<1>15. Load(v, After(y * m, c * m)) - Load(v, After(z * m, c * m)) <= c * d
  <2>1. n \in Nat /\ k \in Nat
    BY <1>2
  <2> QED BY <1>4, <1>5, <1>6, <1>7, <1>8, <1>13, <1>14, <2>1, WiderEven
<1>16. WorkOf(DispatchTo(batch)[r]) - WorkOf(DispatchTo(batch)[q]) <= c * d
  BY <1>13, <1>14, <1>15
<1> QED BY <1>16 DEF c, k, g, d, v

\* The first part of the property is what Evened makes of the ranks' shares, the second the
\* share of every prompt in a worker's rows.
LEMMA BalanceInvBalances ==
  ASSUME BalanceInv
  PROVE  SharesBalanced
<1>1. cfg \in Configs /\ Known(cfg) /\ Samples(cfg) \in Nat \ {0} /\ cfg.world \in Nat \ {0}
      /\ cfg.prompts \in Nat \ {0} /\ cfg.n \in Nat \ {0} /\ cfg.workers \in Nat \ {0}
  BY KnownConfig DEF BalanceInv
<1>2. DealtWithin(cfg.world \div Dp)
  BY DealtEvenly DEF DealtWithin
<1>3. ASSUME phase = "generating", DealsAlike(cfg), NEW w \in DOMAIN work, NEW p \in 1 .. cfg.prompts
      PROVE  Cardinality(Answering(work[w].data, Rows(work[w].data), p)) * cfg.workers = cfg.n
  <2> DEFINE q == ShareSize(cfg)
             P == cfg.prompts
             data == work[w].data
  <2>1. PICK m \in Nat : Working(cfg, work, m)
    BY <1>3 DEF BalanceInv, Generating
  <2>2. /\ Asked(data, m) /\ m = P * q
        /\ \A i \in 1 .. m : data.uid[i] = ((i - 1) \div q) + 1
    BY <1>3, <2>1 DEF Working, PromptOf
  <2>3. Rows(data) = m
    BY <2>2, TableRows DEF Asked
  <2>4. cfg.n % cfg.workers = 0
    BY <1>3 DEF DealsAlike
  <2>5. q \in Nat /\ cfg.workers * q = cfg.n
    BY <1>1, <2>4, Shares DEF ShareSize
  <2> HIDE DEF q, P, data
  <2>6. q \in Nat \ {0} /\ q * cfg.workers = cfg.n
    <3>1. q # 0
      BY <1>1, <2>5
    <3> QED BY <1>1, <2>5, <3>1
  <2>7. Cardinality(Answering(data, P * q, p)) = q
    BY <1>1, <1>3, <2>2, <2>6, ShareOfPrompt DEF P
  <2> QED BY <2>2, <2>3, <2>6, <2>7 DEF data
<1>4. ASSUME phase = "generating", cfg.validate, cfg.n % cfg.workers = 0
      PROVE  \A w \in DOMAIN work : \A p \in 1 .. cfg.prompts :
               Cardinality({i \in 1 .. Rows(work[w].data) : work[w].data.uid[i] = p}) * cfg.workers = cfg.n
  BY <1>3, <1>4 DEF Answering, DealsAlike
<1> QED BY <1>2, <1>4 DEF SharesBalanced

\* SharesBalanced, for every configuration, every number of prompts, samples, workers and
\* ranks, and every length of the responses: what dispatch deals two ranks of the batch
\* that _balance_batch has ordered differs in workload by at most as many times what two
\* responses may differ by as there are ranks with the same rows, and the order of
\* _build_per_prompt_balanced_indices gives every agent loop worker as many answers to a
\* prompt as every other.
THEOREM SharesBalancedHolds == Spec => []SharesBalanced
<1>1. Init => BalanceInv
  BY DEF Init, BalanceInv
<1>2. BalanceInv /\ [Next]_vars => BalanceInv'
  BY BalanceStep
<1>3. BalanceInv => SharesBalanced
  BY BalanceInvBalances
<1> QED BY <1>1, <1>2, <1>3, PTL DEF Spec

-----------------------------------------------------------------------------
\* What the ranks have to say, collected.

\* What the ranks have to say.
Says(outputs, C) == \A r \in Ranks : DOMAIN outputs[r] = C /\ Tabular(outputs[r])

\* Collected, it is a batch of the same columns.
LEMMA CollectTabular ==
  ASSUME cfg \in Configs, NEW C, C # {}, NEW outputs, Says(outputs, C)
  PROVE  DOMAIN CollectFrom(outputs) = C /\ Tabular(CollectFrom(outputs))
<1> DEFINE ranks == Increasing(SetToSeq({r \in Ranks : Collects(r)}))
           s == [i \in DOMAIN ranks |-> outputs[ranks[i]]]
<1>1. CollectFrom(outputs) = Concat(s)
  BY DEF CollectFrom
<1>2. \E k \in Nat \ {0} : DOMAIN ranks = 1 .. k /\ \A i \in 1 .. k : ranks[i] \in Ranks
  BY CollectorsAre
<1> HIDE DEF ranks
<1>3. PICK k \in Nat \ {0} : DOMAIN ranks = 1 .. k /\ \A i \in 1 .. k : ranks[i] \in Ranks
  BY <1>2
<1>4. Pieces(s, k, C)
  BY <1>3 DEF Pieces, Says
<1> HIDE DEF s
<1> QED BY <1>1, <1>3, <1>4, ConcatTabular

-----------------------------------------------------------------------------
\* The ranks in step.

\* A rank with p micro-batches, o of which have been run.
AtPart(x, p, o) ==
  /\ x = [data |-> x.data, parts |-> x.parts, out |-> x.out]
  /\ "responses" \in DOMAIN x.data
  /\ Parted(x.parts, p)
  /\ Column(x.out, o)

\* All ranks have as many micro-batches, at least one, and have run as many.
Lined(c, ws, p, o) == DOMAIN ws = 0 .. c.world - 1 /\ \A r \in 0 .. c.world - 1 : AtPart(ws[r], p, o)
InStep(c, ws) == \E p \in Nat \ {0}, o \in Nat : Lined(c, ws, p, o)

\* The results so far have these columns.
Yields(c, ws, C) ==
  \A r \in 0 .. c.world - 1 : \A k \in DOMAIN ws[r].out :
    DOMAIN ws[r].out[k] = C /\ Tabular(ws[r].out[k])

\* The lengths of a share, as MicroBatches takes them.
LEMMA ShareWeighed ==
  ASSUME NEW m \in Nat, NEW data, Share(data, m)
  PROVE  /\ Rows(data) = m /\ Len(Lengths(data)) = m /\ DOMAIN Lengths(data) = 1 .. m
         /\ \A i \in 1 .. m : Lengths(data)[i] \in Nat \ {0}
         /\ Workloads(Lengths(data)) \in [1 .. m -> Nat]
<1>1. Weighed(data, m)
  BY WorkloadsAre DEF Share
<1> DEFINE l == Lengths(data)
<1>2. /\ Rows(data) = m /\ DOMAIN l = 1 .. m /\ \A i \in 1 .. m : l[i] \in Nat \ {0}
      /\ Workloads(l) \in [1 .. m -> Nat]
  BY <1>1 DEF Weighed
<1>3. l = [i \in 1 .. m |-> data.responses[i].prompt + data.responses[i].response]
  BY <1>2 DEF Lengths
<1>4. Len(l) = m
  BY <1>3
<1> HIDE DEF l
<1> QED BY <1>2, <1>4 DEF l

\* The numbers the ranks ask for, and the one they agree on.
Agreed(g, m, n) ==
  /\ n \in 1 .. m
  /\ \A r \in Ranks : OwnNumber(g, r) <= n
  /\ \E r \in Ranks : OwnNumber(g, r) = n

\* The all_reduce leaves all ranks with the largest number.
LEMMA AgreedNumberIs ==
  ASSUME cfg \in Configs, NEW m \in Nat \ {0}, NEW g, Given(cfg, g, m), NEW r \in Ranks
  PROVE  Agreed(g, m, AgreedNumber(g, r))
<1> DEFINE W == cfg.world
           T == cfg.maxTokens * cfg.sp
           own == [i \in 1 .. W |-> OwnNumber(g, i - 1)]
           S == {OwnNumber(g, other) : other \in Ranks}
<1>1. W \in Nat \ {0} /\ T \in Nat \ {0} /\ T = MaxTokens
  <2>1. cfg.maxTokens \in Nat \ {0} /\ cfg.sp \in Nat \ {0}
    BY KnownConfig DEF Known
  <2> QED BY <2>1, KnownConfig, Factors DEF MaxTokens
<1> HIDE DEF W, T
<1>2. ASSUME NEW o \in Ranks PROVE OwnNumber(g, o) \in 1 .. m
  <2> DEFINE l == Lengths(g[o])
  <2>1. Share(g[o], m)
    BY DEF Given, Ranks
  <2>2. \A i \in 1 .. m : l[i] \in Nat \ {0}
    BY <2>1, ShareWeighed
  <2>3. Len(l) = m /\ DOMAIN l = 1 .. m
    BY <2>1, ShareWeighed
  <2>4. OwnNumber(g, o) = MicroBatchesWanted(l, T)
    BY <1>1 DEF OwnNumber
  <2> HIDE DEF l
  <2> QED BY <1>1, <2>2, <2>3, <2>4, WantedIs
<1>3. \A i \in 1 .. W : i - 1 \in Ranks
  BY <1>1 DEF Ranks, W
<1>4. \A o \in Ranks : o + 1 \in 1 .. W /\ (o + 1) - 1 = o
  BY <1>1 DEF Ranks, W
<1>5. \A i \in 1 .. W : own[i] = OwnNumber(g, i - 1)
  OBVIOUS
<1> HIDE DEF own
<1>6. \A i \in 1 .. W : own[i] \in Int
  BY <1>2, <1>3, <1>5
<1>7. Extremes(Numbers(own, W))
  BY <1>1, <1>6, ExtremesAre
<1>8. Numbers(own, W) = S
  <2>1. ASSUME NEW x \in S PROVE x \in Numbers(own, W)
    <3>1. PICK o \in Ranks : x = OwnNumber(g, o)
      OBVIOUS
    <3>2. own[o + 1] = x
      BY <1>4, <1>5, <3>1
    <3> QED BY <1>4, <3>2 DEF Numbers
  <2>2. ASSUME NEW x \in Numbers(own, W) PROVE x \in S
    <3>1. PICK i \in 1 .. W : x = own[i]
      BY DEF Numbers
    <3> QED BY <1>3, <1>5, <3>1
  <2> HIDE DEF S
  <2> QED BY <2>1, <2>2
<1>9. AgreedNumber(g, r) = Max(S)
  BY DEF AgreedNumber
<1> DEFINE n == Max(S)
<1>10. n \in S /\ \A y \in S : y <= n
  BY <1>7, <1>8 DEF Extremes
<1> HIDE DEF n
<1>11. Agreed(g, m, n)
  BY <1>2, <1>10 DEF Agreed
<1> QED BY <1>9, <1>11 DEF n

\* Put together, what a rank has to run.
LEMMA PartIs ==
  ASSUME NEW m \in Nat, NEW data, Share(data, m), NEW parts, NEW p, Parted(parts, p)
  PROVE  AtPart([data |-> data, parts |-> parts, out |-> <<>>], p, 0)
<1> DEFINE x == [data |-> data, parts |-> parts, out |-> <<>>]
<1>1. x.data = data /\ x.parts = parts /\ x.out = <<>>
  OBVIOUS
<1>2. x = [data |-> x.data, parts |-> x.parts, out |-> x.out]
  OBVIOUS
<1> HIDE DEF x
<1>3. Column(x.out, 0)
  <2>1. x.out = [i \in 1 .. 0 |-> x.out[i]]
    BY <1>1
  <2> QED BY <2>1 DEF Column
<1>4. AtPart(x, p, 0)
  BY <1>1, <1>2, <1>3 DEF AtPart, Share
<1> QED BY <1>4 DEF x

\* A fixed number of rows each: as many of them as it takes.
LEMMA ConsecutiveIs ==
  ASSUME NEW rows \in Nat \ {0}, NEW size \in Nat \ {0}
  PROVE  CeilDiv(rows, size) \in Nat \ {0} /\ Parted(Consecutive(rows, size), CeilDiv(rows, size))
<1> DEFINE p == CeilDiv(rows, size)
           x == Consecutive(rows, size)
           lines(k) == Min({size, rows - (k - 1) * size})
<1>1. Ceiling(rows, size, p)
  BY CeilDivIs
<1>2. p \in Nat \ {0}
  <2>1. rows \in Nat /\ rows <= rows /\ rows > 0
    OBVIOUS
  <2>2. p > 0
    BY <1>1, <2>1, CeilingGrows
  <2> QED BY <1>1, <2>2 DEF Ceiling
<1>3. x = [k \in 1 .. p |-> [i \in 1 .. lines(k) |-> (k - 1) * size + i]]
  BY DEF Consecutive
<1> HIDE DEF x, p
<1>4. ASSUME NEW k \in 1 .. p PROVE lines(k) \in Nat
  <2> DEFINE left == rows - (k - 1) * size
  <2>1. (k - 1) * size < rows
    <3>1. (p - 1) * size < rows /\ p # 0
      BY <1>1, <1>2 DEF Ceiling
    <3>2. k - 1 \in Nat /\ p - 1 \in Nat /\ k - 1 <= p - 1
      BY <1>2
    <3> DEFINE a == k - 1
               b == p - 1
    <3>3. a * size <= b * size
      <4>1. a \in Nat /\ b \in Nat /\ a <= b
        BY <3>2
      <4> HIDE DEF a, b
      <4>2. CASE a = b
        BY <4>1, <4>2
      <4>3. CASE a < b
        <5>1. a * size + size <= b * size
          BY <4>1, <4>3, NextLine
        <5>2. a * size \in Nat /\ b * size \in Nat
          BY <4>1
        <5> QED BY <5>1, <5>2
      <4> QED BY <4>1, <4>2, <4>3
    <3>4. a * size \in Nat /\ b * size \in Nat
      BY <3>2
    <3> QED BY <3>1, <3>3, <3>4
  <2>2. left \in Nat
    <3>1. (k - 1) * size \in Nat
      OBVIOUS
    <3> QED BY <2>1, <3>1
  <2> HIDE DEF left
  <2>3. Min({size, left}) \in {size, left}
    BY <2>2 DEF Min
  <2> QED BY <2>2, <2>3 DEF left
<1>5. Column(x, p)
  BY <1>3 DEF Column
<1>6. ASSUME NEW k \in 1 .. p PROVE \E n \in Nat : Column(x[k], n)
  <2> DEFINE n == lines(k)
             y == x[k]
  <2>1. n \in Nat /\ y = [i \in 1 .. n |-> (k - 1) * size + i]
    BY <1>3, <1>4
  <2> HIDE DEF n, y
  <2>2. Column(y, n)
    BY <2>1 DEF Column
  <2> QED BY <2>1, <2>2 DEF y
<1>7. Parted(x, p)
  BY <1>5, <1>6 DEF Parted
<1> QED BY <1>2, <1>7 DEF x, p

\* What the last stage was given, for every rank.
OfLastStage(g) == [r \in Ranks |-> g[LastStage(r)]]

\* Up to a multiple of v, a smaller number needs no more.
LEMMA RoundedUp ==
  ASSUME NEW a \in Nat \ {0}, NEW b \in Nat \ {0}, b <= a, NEW v \in Nat \ {0}, NEW m \in Nat,
         CeilDiv(a, v) * v <= m
  PROVE  CeilDiv(b, v) * v \in 1 .. m
<1> DEFINE c == CeilDiv(a, v)
           d == CeilDiv(b, v)
<1>1. Ceiling(a, v, c) /\ Ceiling(b, v, d)
  BY CeilDivIs
<1>2. c \in Nat /\ d \in Nat
  BY <1>1 DEF Ceiling
<1> HIDE DEF c, d
<1>3. d <= c /\ d > 0
  BY <1>1, CeilingGrows
<1>4. d * v <= c * v /\ c * v \in Nat /\ d * v \in Nat \ {0}
  <2>1. c * v \in Nat /\ d * v \in Nat \ {0}
    BY <1>2, <1>3
  <2>2. CASE c = d
    BY <2>1, <2>2
  <2>3. CASE c # d
    <3>1. d * v + v <= c * v
      BY <1>2, <1>3, <2>3, NextLine
    <3> QED BY <2>1, <3>1
  <2> QED BY <2>2, <2>3
<1> QED BY <1>4 DEF c, d

\* The number of micro-batches is the same on all ranks, and no share is too small for it.
LEMMA NumberOfMicroIs ==
  ASSUME cfg \in Configs, NEW m \in Nat \ {0}, NEW g, Given(cfg, g, m), Given(cfg, OfLastStage(g), m),
         \A r \in Ranks : NumberOfMicro(g, r) <= m
  PROVE  \E p \in 1 .. m : \A r \in Ranks : NumberOfMicro(OfLastStage(g), r) = p
<1> DEFINE h == OfLastStage(g)
           v == cfg.vppGroup
           a == AgreedNumber(g, 0)
           b == AgreedNumber(h, 0)
<1>1. v \in Nat \ {0} /\ 0 \in Ranks
  BY KnownConfig DEF Known, Ranks
<1>2. NumberOfMicro(g, 0) = CeilDiv(a, v) * v
  BY DEF NumberOfMicro
<1>3. \A r \in Ranks : NumberOfMicro(h, r) = CeilDiv(b, v) * v
  BY DEF NumberOfMicro, AgreedNumber
<1>4. Agreed(g, m, a) /\ Agreed(h, m, b)
  BY <1>1, AgreedNumberIs
<1>5. \A r \in Ranks : OwnNumber(h, r) = OwnNumber(g, LastStage(r))
  BY DEF OwnNumber, OfLastStage
<1> HIDE DEF a, b, h, v
<1>6. PICK r \in Ranks : OwnNumber(h, r) = b
  BY <1>4 DEF Agreed
<1>7. OwnNumber(g, LastStage(r)) = b /\ LastStage(r) \in Ranks
  BY <1>5, <1>6, LastStageIs
<1>8. a \in Nat \ {0} /\ b \in Nat \ {0} /\ b <= a
  BY <1>4, <1>7 DEF Agreed
<1>9. CeilDiv(a, v) * v <= m
  BY <1>1, <1>2
<1> DEFINE p == CeilDiv(b, v) * v
<1>10. p \in 1 .. m
  BY <1>1, <1>8, <1>9, RoundedUp
<1>11. \A r2 \in Ranks : NumberOfMicro(h, r2) = p
  BY <1>3
<1> HIDE DEF p
<1> QED BY <1>10, <1>11 DEF h

\* Started, the ranks are in step, and have no result yet.
Starts(c, ws) == InStep(c, ws) /\ \A r \in Ranks : DOMAIN ws[r].out = {}

\* A method that begins finds as many micro-batches on every rank.
LEMMA MicroBatchedIs ==
  ASSUME cfg \in Configs, NEW m \in Nat \ {0}, NEW g, Given(cfg, g, m), CanForward(g)
  PROVE  Starts(cfg, MicroBatched(g))
<1> DEFINE h == OfLastStage(g)
           ws == MicroBatched(g)
           Cut(r) == IF cfg.dynamic THEN MicroBatches(Lengths(h[r]), NumberOfMicro(h, r))
                                    ELSE Consecutive(Rows(h[r]), cfg.micro)
<1>1. ws = [r \in Ranks |-> [data |-> h[r], parts |-> Cut(r), out |-> <<>>]]
  BY DEF MicroBatched, OfLastStage
<1>2. \A r \in Ranks : Share(h[r], m)
  <2>1. ASSUME NEW r \in Ranks PROVE Share(h[r], m)
    <3>1. LastStage(r) \in Ranks /\ h[r] = g[LastStage(r)]
      BY LastStageIs DEF OfLastStage
    <3> QED BY <3>1 DEF Given, Ranks
  <2> QED BY <2>1
<1> HIDE DEF h
<1>3. \E p \in Nat \ {0} : \A r \in Ranks : Parted(Cut(r), p)
  <2>1. CASE cfg.dynamic
    <3>1. \A r \in Ranks : NumberOfMicro(g, r) <= m
      <4>1. ASSUME NEW r \in Ranks PROVE NumberOfMicro(g, r) <= m
        <5>1. NumberOfMicro(g, r) <= Rows(g[r])
          BY <2>1 DEF CanForward
        <5>2. Share(g[r], m)
          BY DEF Given, Ranks
        <5>3. Rows(g[r]) = m
          BY <5>2, ShareWeighed
        <5> QED BY <5>1, <5>3
      <4> QED BY <4>1
    <3>2. Given(cfg, OfLastStage(g), m)
      BY <1>2 DEF Given, Ranks, h
    <3>3. PICK p \in 1 .. m : \A r \in Ranks : NumberOfMicro(h, r) = p
      BY <3>1, <3>2, NumberOfMicroIs DEF h
    <3>4. ASSUME NEW r \in Ranks PROVE Parted(Cut(r), p)
      <4>1. Cut(r) = MicroBatches(Lengths(h[r]), p)
        BY <2>1, <3>3
      <4>2. Workloads(Lengths(h[r])) \in [1 .. m -> Nat]
        BY <1>2, ShareWeighed
      <4>3. p \in Nat \ {0} /\ p <= m /\ m \in Nat
        OBVIOUS
      <4> HIDE DEF Cut
      <4> QED BY <4>1, <4>2, <4>3, MicroBatchesAre
    <3>5. p \in Nat \ {0}
      OBVIOUS
    <3> HIDE DEF Cut
    <3> QED BY <3>4, <3>5
  <2>2. CASE ~cfg.dynamic
    <3> DEFINE size == cfg.micro
               p == CeilDiv(m, size)
    <3>1. size \in Nat \ {0}
      BY KnownConfig DEF Known
    <3>2. p \in Nat \ {0} /\ Parted(Consecutive(m, size), p)
      BY <3>1, ConsecutiveIs
    <3>3. ASSUME NEW r \in Ranks PROVE Cut(r) = Consecutive(m, size)
      <4>1. Rows(h[r]) = m
        BY <1>2, ShareWeighed
      <4> QED BY <2>2, <4>1
    <3> HIDE DEF Cut, p
    <3> QED BY <3>2, <3>3
  <2> QED BY <2>1, <2>2
<1> HIDE DEF Cut
<1>4. PICK p \in Nat \ {0} : \A r \in Ranks : Parted(Cut(r), p)
  BY <1>3
<1>5. \A r \in Ranks : ws[r] = [data |-> h[r], parts |-> Cut(r), out |-> <<>>]
  BY <1>1
<1>7. DOMAIN ws = Ranks
  BY <1>1
<1> HIDE DEF ws
<1>6. ASSUME NEW r \in Ranks PROVE AtPart(ws[r], p, 0) /\ DOMAIN ws[r].out = {}
  <2>1. Share(h[r], m) /\ Parted(Cut(r), p) /\ m \in Nat
    BY <1>2, <1>4
  <2>2. AtPart([data |-> h[r], parts |-> Cut(r), out |-> <<>>], p, 0)
    BY <2>1, PartIs
  <2>3. AtPart(ws[r], p, 0)
    BY <1>5, <2>2
  <2>4. ws[r].out = <<>>
    <3> DEFINE x == [data |-> h[r], parts |-> Cut(r), out |-> <<>>]
    <3>1. x.out = <<>> /\ ws[r] = x
      BY <1>5
    <3> HIDE DEF x
    <3> QED BY <3>1
  <2> QED BY <2>3, <2>4
<1>8. Lined(cfg, ws, p, 0)
  BY <1>6, <1>7 DEF Lined, Ranks
<1>9. InStep(cfg, ws)
  BY <1>8 DEF InStep
<1> QED BY <1>6, <1>9 DEF ws, Starts

\* A method begins in its phase, or raises.
LEMMA BeginIs ==
  ASSUME cfg \in Configs, NEW m \in Nat \ {0}, NEW g, Given(cfg, g, m), NEW next, Begin(g, next)
  PROVE  \/ phase' = "raised"
         \/ phase' = next /\ Starts(cfg, work')
<1>1. CASE CanForward(g)
  <2>1. work' = MicroBatched(g) /\ phase' = next
    BY <1>1 DEF Begin
  <2>2. Starts(cfg, MicroBatched(g))
    BY <1>1, MicroBatchedIs
  <2> QED BY <2>1, <2>2
<1>2. CASE ~CanForward(g)
  BY <1>2 DEF Begin
<1> QED BY <1>1, <1>2

\* A list with one more at its end.
LEMMA ColumnLonger ==
  ASSUME NEW o \in Nat, NEW u, Column(u, o), NEW z
  PROVE  Column(Append(u, z), o + 1)
<1> DEFINE S == {u[i] : i \in 1 .. o} \cup {z}
           v == Append(u, z)
           n == o + 1
<1>1. u \in Seq({u[i] : i \in 1 .. o}) /\ Len(u) = o
  BY ColumnIs
<1>2. u \in Seq(S) /\ z \in S
  BY <1>1
<1> HIDE DEF S
<1>3. n \in Nat /\ v \in Seq(S) /\ Len(v) = n
  BY <1>1, <1>2
<1> HIDE DEF v, n
<1>4. v \in [1 .. n -> S]
  BY <1>3
<1>5. Column(v, n)
  BY <1>3, <1>4, ColumnMade
<1> QED BY <1>5 DEF v, n

\* What a forward or backward leaves: all ranks have run one more.
LEMMA ForwardInStep ==
  ASSUME cfg \in Configs, InStep(cfg, work), NEW results, Forward(results)
  PROVE  InStep(cfg, work')
<1>1. PICK p \in Nat \ {0}, o \in Nat : Lined(cfg, work, p, o)
  BY DEF InStep
<1>2. work' = [r \in Ranks |-> [work[r] EXCEPT !.out = Append(@, results[LastStage(r)])]]
  BY DEF Forward
<1>3. ASSUME NEW r \in Ranks PROVE AtPart(work'[r], p, o + 1)
  <2> DEFINE x == work[r]
             z == results[LastStage(r)]
             y == [data |-> x.data, parts |-> x.parts, out |-> Append(x.out, z)]
  <2>1. AtPart(x, p, o)
    BY <1>1 DEF Lined, Ranks
  <2>2. work'[r] = [x EXCEPT !.out = Append(@, z)] /\ x = [data |-> x.data, parts |-> x.parts, out |-> x.out]
    BY <1>2, <2>1 DEF AtPart
  <2> HIDE DEF x, z
  <2>3. work'[r] = y
    BY <2>2
  <2>4. Column(Append(x.out, z), o + 1)
    BY <2>1, ColumnLonger DEF AtPart
  <2>5. y = [data |-> y.data, parts |-> y.parts, out |-> y.out] /\ y.data = x.data /\ y.parts = x.parts
        /\ y.out = Append(x.out, z)
    OBVIOUS
  <2> HIDE DEF y
  <2>6. AtPart(y, p, o + 1)
    BY <2>1, <2>4, <2>5 DEF AtPart
  <2> QED BY <2>3, <2>6
<1>4. DOMAIN work' = Ranks
  BY <1>2
<1>5. o + 1 \in Nat /\ Lined(cfg, work', p, o + 1)
  BY <1>3, <1>4 DEF Lined, Ranks
<1> QED BY <1>5 DEF InStep

\* What the results of a forward are, as columns of the micro-batch.
Results(results, C) == \A r \in Ranks : DOMAIN results[r] = C /\ Tabular(results[r])

\* The results keep their columns.
LEMMA ForwardYields ==
  ASSUME cfg \in Configs, InStep(cfg, work), NEW C, Yields(cfg, work, C),
         NEW results, Results(results, C), Forward(results)
  PROVE  Yields(cfg, work', C)
<1>1. PICK p \in Nat \ {0}, o \in Nat : Lined(cfg, work, p, o)
  BY DEF InStep
<1>2. work' = [r \in Ranks |-> [work[r] EXCEPT !.out = Append(@, results[LastStage(r)])]]
  BY DEF Forward
<1>3. ASSUME NEW r \in Ranks
      PROVE  \A k \in DOMAIN work'[r].out : DOMAIN work'[r].out[k] = C /\ Tabular(work'[r].out[k])
  <2> DEFINE x == work[r]
             z == results[LastStage(r)]
             u == x.out
             v == Append(u, z)
             S == {u[i] : i \in 1 .. o} \cup {z}
  <2>1. AtPart(x, p, o)
    BY <1>1 DEF Lined, Ranks
  <2>2. work'[r] = [x EXCEPT !.out = Append(@, z)] /\ x = [data |-> x.data, parts |-> x.parts, out |-> x.out]
    BY <1>2, <2>1 DEF AtPart
  <2>3. Column(u, o)
    BY <2>1 DEF AtPart
  <2>4. DOMAIN z = C /\ Tabular(z)
    BY LastStageIs DEF Results
  <2>5. u \in Seq({u[i] : i \in 1 .. o}) /\ Len(u) = o /\ DOMAIN u = 1 .. o
    BY <2>3, ColumnIs
  <2>6. \A k \in 1 .. o : DOMAIN u[k] = C /\ Tabular(u[k])
    BY <2>5 DEF Yields, Ranks
  <2> HIDE DEF x, z
  <2>7. work'[r].out = v
    BY <2>2
  <2> HIDE DEF u
  <2>8. u \in Seq(S) /\ z \in S
    BY <2>5
  <2> HIDE DEF S
  <2>9. DOMAIN v = 1 .. o + 1 /\ \A k \in 1 .. o + 1 : v[k] = IF k <= o THEN u[k] ELSE z
    BY <2>5, <2>8
  <2> HIDE DEF v
  <2>10. ASSUME NEW k \in DOMAIN v PROVE DOMAIN v[k] = C /\ Tabular(v[k])
    <3>1. CASE k <= o
      <4>1. k \in 1 .. o /\ v[k] = u[k]
        BY <2>9, <3>1
      <4> QED BY <2>6, <4>1
    <3>2. CASE ~(k <= o)
      <4>1. v[k] = z
        BY <2>9, <3>2
      <4> QED BY <2>4, <4>1
    <3> QED BY <3>1, <3>2
  <2> QED BY <2>7, <2>10
<1> QED BY <1>3 DEF Yields, Ranks

\* The rows of the micro-batch a rank is at.
LEMMA MicroIs ==
  ASSUME cfg \in Configs, InStep(cfg, work), NEW results, Forward(results), NEW r \in Ranks
  PROVE  \E m \in Nat : DOMAIN CurrentMicro(r).responses = 1 .. m
<1>1. PICK p \in Nat \ {0}, o \in Nat : Lined(cfg, work, p, o)
  BY DEF InStep
<1> DEFINE x == work[r]
           parts == x.parts
           out == x.out
           k == Len(out) + 1
           q == parts[k]
           data == x.data
<1>2. AtPart(x, p, o)
  BY <1>1 DEF Lined, Ranks
<1>3. Len(out) < Len(parts)
  BY DEF Forward
<1>4. Column(out, o) /\ Column(parts, p) /\ "responses" \in DOMAIN data
      /\ \A i \in 1 .. p : \E m \in Nat : Column(parts[i], m)
  BY <1>2 DEF AtPart, Parted
<1>5. CurrentMicro(r) = SelectIdxs(data, q)
  BY DEF CurrentMicro
<1> HIDE DEF x, data, parts, out
<1>6. Len(out) = o /\ Len(parts) = p
  BY <1>4, ColumnIs
<1>7. k \in 1 .. p
  BY <1>3, <1>6
<1> HIDE DEF k
<1>8. PICK m \in Nat : Column(q, m)
  BY <1>4, <1>7
<1> HIDE DEF q
<1>9. DOMAIN q = 1 .. m
  BY <1>8, ColumnIs
<1>10. SelectIdxs(data, q).responses = [i \in 1 .. m |-> data.responses[q[i]]]
  BY <1>4, <1>9 DEF SelectIdxs
<1>11. DOMAIN SelectIdxs(data, q).responses = 1 .. m
  BY <1>10
<1> QED BY <1>5, <1>11

\* What a group has of its micro-batch has its rows.
InRows(r, m) == \A shares : Column(InGroup(r, shares), m)

\* A group's results, whatever the shares hold, have a row for each of the micro-batch's.
LEMMA InGroupIs ==
  ASSUME cfg \in Configs, InStep(cfg, work), NEW results, Forward(results), NEW r \in Ranks
  PROVE  \E m \in Nat : InRows(r, m)
<1>1. PICK m \in Nat : DOMAIN CurrentMicro(r).responses = 1 .. m
  BY MicroIs
<1>2. ASSUME NEW shares PROVE Column(InGroup(r, shares), m)
  <2> DEFINE rows == CurrentMicro(r).responses
             x == InGroup(r, shares)
  <2>1. DOMAIN rows = 1 .. m
    BY <1>1
  <2>2. ASSUME NEW packed PROVE Column(ResponsePart(rows, packed), m)
    <3> HIDE DEF rows
    <3> QED BY <2>1 DEF ResponsePart, Column
  <2> QED BY <2>2 DEF InGroup
<1> QED BY <1>2 DEF InRows

\* One column of such results is a batch.
LEMMA OneColumn ==
  ASSUME NEW m \in Nat, NEW b, DOMAIN b # {}, \A c \in DOMAIN b : Column(b[c], m)
  PROVE  Tabular(b)
BY DEF Tabular, Table

ScoredColumns(c) ==
  {"old_log_probs"} \cup (IF c.topk THEN {"student_top_k_ids", "student_top_k_log_probs"} ELSE {})

\* A scored micro-batch.
LEMMA ScoredMicroIs ==
  ASSUME cfg \in Configs, InStep(cfg, work), NEW results, Forward(results), NEW r \in Ranks
  PROVE  DOMAIN ScoredMicro(r) = ScoredColumns(cfg) /\ Tabular(ScoredMicro(r))
<1>1. PICK m \in Nat : InRows(r, m)
  BY InGroupIs
<1> DEFINE a == InGroup(r, [s \in 1 .. cfg.sp |-> LogProbsOf(r, s)])
           b == InGroup(r, [s \in 1 .. cfg.sp |-> TopIds(LogitsOf(r, s))])
           c == InGroup(r, [s \in 1 .. cfg.sp |-> LogProbs(LogitsOf(r, s), TopIds(LogitsOf(r, s)))])
           x == ScoredMicro(r)
           y == [old_log_probs |-> a]
           z == IF cfg.topk THEN [student_top_k_ids |-> b, student_top_k_log_probs |-> c] ELSE <<>>
<1>2. x = Union(y, z)
  BY DEF ScoredMicro
<1>3. Column(a, m) /\ Column(b, m) /\ Column(c, m)
  BY <1>1 DEF InRows
<1> HIDE DEF a, b, c
<1>4. DOMAIN y = {"old_log_probs"} /\ y.old_log_probs = a
  OBVIOUS
<1>5. DOMAIN z = ScoredColumns(cfg) \ {"old_log_probs"}
  BY DEF ScoredColumns
<1>6. \A k \in DOMAIN z : Column(z[k], m)
  BY <1>3
<1> HIDE DEF y, z
<1>7. DOMAIN x = ScoredColumns(cfg) /\ \A k \in DOMAIN x : x[k] = IF k \in DOMAIN z THEN z[k] ELSE y[k]
  BY <1>2, <1>4, <1>5 DEF Union, ScoredColumns
<1> HIDE DEF x
<1>8. ASSUME NEW k \in DOMAIN x PROVE Column(x[k], m)
  <2>1. CASE k \in DOMAIN z
    BY <1>6, <1>7, <2>1
  <2>2. CASE k \notin DOMAIN z
    <3>1. k = "old_log_probs"
      BY <1>5, <1>7, <2>2
    <3> QED BY <1>3, <1>4, <1>7, <2>2, <3>1
  <2> QED BY <2>1, <2>2
<1>9. DOMAIN x # {}
  BY <1>7 DEF ScoredColumns
<1>10. Tabular(x)
  BY <1>8, <1>9, OneColumn
<1> QED BY <1>7, <1>10 DEF x

\* When no rank has a micro-batch left, each has a result of the columns of its micro-batches.
LEMMA RankResultIs ==
  ASSUME cfg \in Configs, InStep(cfg, work), NEW C, C # {}, Yields(cfg, work, C), ~Running
  PROVE  \A r \in Ranks : DOMAIN RankResult(r) = C /\ Tabular(RankResult(r))
<1>1. PICK p \in Nat \ {0}, o \in Nat : Lined(cfg, work, p, o)
  BY DEF InStep
<1> SUFFICES ASSUME NEW r \in Ranks PROVE DOMAIN RankResult(r) = C /\ Tabular(RankResult(r))
  OBVIOUS
<1> DEFINE out == work[r].out
           parts == work[r].parts
           all == Concat(out)
<1>2. AtPart(work[r], p, o)
  BY <1>1 DEF Lined, Ranks
<1>3. Column(out, o) /\ Column(parts, p)
  BY <1>2 DEF AtPart, Parted
<1>4. ~(Len(out) < Len(parts))
  BY DEF Running
<1>5. \A k \in DOMAIN out : DOMAIN out[k] = C /\ Tabular(out[k])
  BY DEF Yields, Ranks
<1>6. RankResult(r) = IF cfg.dynamic THEN [c \in DOMAIN all |-> Restored(all[c], parts)] ELSE all
  BY DEF RankResult
<1> HIDE DEF out, parts
<1>7. Len(out) = o /\ Len(parts) = p /\ DOMAIN out = 1 .. o
  BY <1>3, ColumnIs
<1>8. o \in Nat \ {0}
  BY <1>4, <1>7
<1>9. Pieces(out, o, C)
  BY <1>5, <1>7 DEF Pieces
<1>10. DOMAIN all = C /\ Tabular(all)
  BY <1>8, <1>9, ConcatTabular
<1> HIDE DEF all
<1>11. Tabular([c \in DOMAIN all |-> Restored(all[c], parts)])
  BY <1>10, RestoredTabular
<1> QED BY <1>6, <1>10, <1>11

-----------------------------------------------------------------------------
\* Advantages, row by row.

\* The rows that an estimator's data has.
Credits(data, n) == RowsOf(data) = 1 .. n

\* A number for each token of each row.
LEMMA BroadcastIs ==
  ASSUME NEW n \in Nat, NEW data, Credits(data, n), NEW scalars
  PROVE  Column(Broadcast(data, scalars), n)
BY DEF Credits, Broadcast, Column

\* As they are.
LEMMA DirectIs ==
  ASSUME NEW n \in Nat, NEW data, Credits(data, n)
  PROVE  Column(Direct(data), n)
BY DEF Credits, Direct, Column

\* Without those that are masked.
LEMMA MaskedIs ==
  ASSUME NEW n \in Nat, NEW data, Credits(data, n), NEW table
  PROVE  Column(Masked(data, table), n)
BY DEF Credits, Masked, Column

\* Less their mean.
LEMMA WhitenIs ==
  ASSUME NEW n \in Nat, NEW data, Credits(data, n), NEW table
  PROVE  Column(Whiten(data, table), n)
BY DEF Credits, Whiten, Column

\* Summed up from the end.
LEMMA SuffixSumsIs ==
  ASSUME NEW n \in Nat, NEW rows, Column(rows, n)
  PROVE  Column(SuffixSums(rows), n)
<1>1. DOMAIN rows = 1 .. n
  BY ColumnIs
<1> QED BY <1>1 DEF SuffixSums, Column

\* Less those of the group.
LEMMA TokenGrpoIs ==
  ASSUME NEW n \in Nat, NEW data, Credits(data, n)
  PROVE  Column(TokenGrpo(data), n)
BY DEF Credits, TokenGrpo, Column

\* Both columns have a row for each of the batch's.
Credited(x, n) == DOMAIN x = {"advantages", "returns"} /\ Table(x, n)

\* Two tables make such a result.
LEMMA CreditedBy ==
  ASSUME NEW n \in Nat, NEW a, NEW b, Column(a, n), Column(b, n)
  PROVE  Credited([advantages |-> a, returns |-> b], n)
<1> DEFINE x == [advantages |-> a, returns |-> b]
<1>1. DOMAIN x = {"advantages", "returns"} /\ x.advantages = a /\ x.returns = b
  OBVIOUS
<1> HIDE DEF x
<1>2. Credited(x, n)
  BY <1>1 DEF Credited, Table
<1> QED BY <1>2 DEF x

\* Every estimator credits every row.
LEMMA EstimateIs ==
  ASSUME NEW n \in Nat, NEW data, Credits(data, n), NEW e \in Estimators
  PROVE  Credited(Estimate(e, data), n)
<1>1. CASE e \in OutcomeEstimators
  <2>1. Column(Broadcast(data, OfResponses(e, data)), n)
    BY BroadcastIs
  <2>2. Estimate(e, data) = Twice(Broadcast(data, OfResponses(e, data)))
    BY <1>1 DEF Estimate, OutcomeEstimators
  <2> QED BY <2>1, <2>2, CreditedBy DEF Twice
<1>2. CASE e = "reinforce_plus_plus_baseline"
  <2>1. Column(ReinforcePlusPlusBaseline(data), n)
    BY MaskedIs DEF ReinforcePlusPlusBaseline
  <2>2. Estimate(e, data) = Twice(ReinforcePlusPlusBaseline(data))
    BY <1>2 DEF Estimate, OutcomeEstimators
  <2> QED BY <2>1, <2>2, CreditedBy DEF Twice
<1>3. CASE e = "reinforce_plus_plus"
  <2>1. ReinforcePlusPlus(data) = [advantages |-> ReinforcePlusPlus(data).advantages,
                                   returns |-> ReinforcePlusPlus(data).returns]
    BY DEF ReinforcePlusPlus
  <2>2. Column(ReinforcePlusPlus(data).advantages, n)
    BY MaskedIs DEF ReinforcePlusPlus
  <2>3. Column(ReinforcePlusPlus(data).returns, n)
    BY DEF ReinforcePlusPlus, Credits, Column
  <2>4. Estimate(e, data) = ReinforcePlusPlus(data)
    BY <1>3 DEF Estimate, OutcomeEstimators
  <2>5. Credited([advantages |-> ReinforcePlusPlus(data).advantages,
                  returns |-> ReinforcePlusPlus(data).returns], n)
    BY <2>2, <2>3, CreditedBy
  <2> QED BY <2>1, <2>4, <2>5
<1>4. CASE e = "remax"
  <2> DEFINE returns == SuffixSums(Direct(data))
  <2>1. Column(returns, n)
    BY DirectIs, SuffixSumsIs
  <2>2. Remax(data) = [advantages |-> Remax(data).advantages, returns |-> returns]
    BY DEF Remax
  <2>3. Column(Remax(data).advantages, n)
    BY DEF Remax, Credits, Column
  <2>4. Estimate(e, data) = Remax(data)
    BY <1>4 DEF Estimate, OutcomeEstimators
  <2> HIDE DEF returns
  <2>5. Credited([advantages |-> Remax(data).advantages, returns |-> returns], n)
    BY <2>1, <2>3, CreditedBy
  <2> QED BY <2>2, <2>4, <2>5
<1>5. CASE e = "token_grpo"
  <2>1. Estimate(e, data) = Twice(TokenGrpo(data))
    BY <1>5 DEF Estimate, OutcomeEstimators
  <2> QED BY <2>1, TokenGrpoIs, CreditedBy DEF Twice
<1>6. CASE e = "token_reward_direct"
  <2>1. Estimate(e, data) = Twice(Direct(data))
    BY <1>6 DEF Estimate, OutcomeEstimators
  <2> QED BY <2>1, DirectIs, CreditedBy DEF Twice
<1>7. CASE e = "gae"
  <2>1. Gae(data) = [advantages |-> Gae(data).advantages, returns |-> Gae(data).returns]
    BY DEF Gae
  <2>2. Column(Gae(data).advantages, n)
    BY WhitenIs DEF Gae
  <2>3. Column(Gae(data).returns, n)
    BY DEF Gae, Credits, Column
  <2>4. Estimate(e, data) = Gae(data)
    BY <1>7 DEF Estimate, OutcomeEstimators
  <2>5. Credited([advantages |-> Gae(data).advantages, returns |-> Gae(data).returns], n)
    BY <2>2, <2>3, CreditedBy
  <2> QED BY <2>1, <2>4, <2>5
<1> QED BY <1>1, <1>2, <1>3, <1>4, <1>5, <1>6, <1>7 DEF Estimators

-----------------------------------------------------------------------------
\* Mini-batches.

\* The rows of mini-batch k of a share of n rows.
PieceRows(n, size, k) == Min({k * size, n}) - (k - 1) * size

\* Every mini-batch has rows, and ends with a row of the share.
LEMMA PieceRowsAre ==
  ASSUME NEW n \in Nat \ {0}, NEW size \in Nat \ {0}, NEW k \in 1 .. CeilDiv(n, size)
  PROVE  /\ k \in 1 .. (n + size - 1) \div size
         /\ PieceRows(n, size, k) \in Nat \ {0} /\ (k - 1) * size \in Nat
         /\ Min({k * size, n}) = (k - 1) * size + PieceRows(n, size, k)
         /\ (k - 1) * size + PieceRows(n, size, k) <= n
<1> DEFINE c == CeilDiv(n, size)
           a == (k - 1) * size
           z == k * size
           e == Min({z, n})
<1>1. Ceiling(n, size, c)
  BY CeilDivIs
<1>2. c \in Nat /\ k \in 1 .. c
  BY <1>1 DEF Ceiling
<1> HIDE DEF c
<1>3. c # 0 /\ (c - 1) * size < n
  BY <1>1, <1>2 DEF Ceiling
<1>4. a \in Nat /\ z = a + size /\ z \in Nat
  BY <1>2
<1>5. a <= (c - 1) * size
  <2> DEFINE d == k - 1
             f == c - 1
  <2>1. d \in Nat /\ f \in Nat /\ d <= f
    BY <1>2
  <2> HIDE DEF d, f
  <2>2. CASE d = f
    <3>1. d * size \in Nat /\ d * size = f * size
      BY <2>1, <2>2
    <3> QED BY <3>1 DEF d, f
  <2>3. CASE d < f
    <3>1. d * size + size <= f * size
      BY <2>1, <2>3, NextLine
    <3>2. d * size \in Nat /\ f * size \in Nat
      BY <2>1
    <3>3. d * size <= f * size
      BY <3>1, <3>2
    <3> QED BY <3>3 DEF d, f
  <2> QED BY <2>1, <2>2, <2>3
<1>6. a < n
  <2>1. (c - 1) * size \in Nat
    BY <1>2, <1>3
  <2> QED BY <1>3, <1>4, <1>5, <2>1
<1>7. k <= (n + size - 1) \div size
  <2> DEFINE x == n + size - 1
             q == x \div size
             r == x % size
  <2>1. x \in Nat /\ z <= x
    BY <1>4, <1>6
  <2> HIDE DEF x
  <2>2. q \in Nat /\ r \in 0 .. size - 1 /\ x = (q * size) + r
    BY <2>1, Lines
  <2> HIDE DEF q, r
  <2>3. ~(q < k)
    <3> SUFFICES ASSUME q < k PROVE FALSE
      OBVIOUS
    <3>1. q * size + size <= k * size
      BY <1>2, <2>2, NextLine
    <3>2. q * size \in Nat
      BY <2>2
    <3> QED BY <1>4, <2>1, <2>2, <3>1, <3>2
  <2>4. k <= q
    BY <1>2, <2>2, <2>3
  <2> QED BY <2>4 DEF q, x
<1>8. e \in {z, n} /\ e <= z /\ e <= n
  <2>1. \E y \in {z, n} : \A t \in {z, n} : y <= t
    BY <1>4
  <2> QED BY <2>1 DEF Min
<1>9. PieceRows(n, size, k) = e - a
  BY DEF PieceRows
<1> HIDE DEF a, z, e
<1>10. a < e /\ e \in Nat
  BY <1>4, <1>6, <1>8
<1>11. (n + size - 1) \div size \in Nat
  <2> DEFINE x == n + size - 1
  <2>1. x \in Nat
    OBVIOUS
  <2> HIDE DEF x
  <2>2. x \div size \in Nat
    BY <2>1, Lines
  <2> QED BY <2>2 DEF x
<1> DEFINE most == (n + size - 1) \div size
<1>12. k \in 1 .. most
  <2>1. k <= most /\ most \in Nat
    BY <1>7, <1>11
  <2> HIDE DEF most
  <2> QED BY <1>2, <2>1
<1>13. PieceRows(n, size, k) \in Nat \ {0} /\ e = a + PieceRows(n, size, k) /\ a + PieceRows(n, size, k) <= n
  BY <1>4, <1>8, <1>9, <1>10
<1> QED BY <1>4, <1>12, <1>13 DEF a, z, e

\* split makes a smaller share of a share, of rows next to each other.
LEMMA PieceIs ==
  ASSUME NEW n \in Nat \ {0}, NEW size \in Nat \ {0}, NEW k \in 1 .. CeilDiv(n, size), NEW b, Share(b, n)
  PROVE  /\ Share(Split(b, size)[k], PieceRows(n, size, k))
         /\ \A i \in 1 .. PieceRows(n, size, k) :
              Split(b, size)[k].responses[i] = b.responses[(k - 1) * size + i]
<1> DEFINE a == (k - 1) * size
           m == PieceRows(n, size, k)
           e == Min({k * size, n})
           x == Split(b, size)[k]
<1>1. /\ k \in 1 .. (n + size - 1) \div size
      /\ m \in Nat \ {0} /\ a \in Nat /\ e = a + m /\ a + m <= n
  BY PieceRowsAre
<1>2. Rows(b) = n
  BY TableRows DEF Share
<1>3. x = Slice(b, a + 1, e)
  BY <1>1, <1>2 DEF Split
<1> HIDE DEF a, m, e, x
<1>4. DOMAIN x = DOMAIN b /\ \A c \in DOMAIN b : x[c] = SubSeq(b[c], a + 1, a + m)
  BY <1>1, <1>3 DEF Slice
<1>5. ASSUME NEW c \in DOMAIN b PROVE Column(x[c], m) /\ \A i \in 1 .. m : x[c][i] = b[c][a + i]
  <2> DEFINE y == x[c]
             z == b[c]
  <2>1. Column(z, n)
    BY DEF Share, Table
  <2>2. y = SubSeq(z, a + 1, a + m)
    BY <1>4
  <2> HIDE DEF y, z
  <2>3. y = [i \in 1 .. m |-> z[a + i]]
    BY <1>1, <2>1, <2>2, SubSeqIs
  <2>4. Column(y, m) /\ \A i \in 1 .. m : y[i] = z[a + i]
    BY <2>3 DEF Column
  <2> QED BY <2>4 DEF y, z
<1>6. "responses" \in DOMAIN b /\ Table(x, m)
  BY <1>4, <1>5 DEF Share, Table
<1>7. Answered(x.responses, m)
  <2>1. Column(x.responses, m) /\ \A i \in 1 .. m : x.responses[i] = b.responses[a + i]
    BY <1>5, <1>6
  <2>2. \A i \in 1 .. m : a + i \in 1 .. n
    BY <1>1
  <2>3. \A j \in 1 .. n : b.responses[j].prompt \in Nat \ {0} /\ b.responses[j].response \in Nat \ {0}
    BY DEF Share, Answered
  <2> QED BY <2>1, <2>2, <2>3 DEF Answered
<1>8. Share(x, m)
  BY <1>4, <1>6, <1>7 DEF Share
<1>9. \A i \in 1 .. m : x.responses[i] = b.responses[a + i]
  BY <1>5, <1>6
<1> QED BY <1>8, <1>9 DEF x, m, a

\* A share in the order its rows are drawn in.
LEMMA DrawnIs ==
  ASSUME NEW n \in Nat \ {0}, NEW b, Share(b, n), NEW epoch \in Int
  PROVE  /\ Share(Reorder(b, EpochOrder(n, epoch)), n)
         /\ \A i \in 1 .. n :
              Reorder(b, EpochOrder(n, epoch)).responses[i] = b.responses[EpochOrder(n, epoch)[i]]
<1> DEFINE q == EpochOrder(n, epoch)
           x == SelectIdxs(b, q)
<1>1. q = [i \in 1 .. n |-> IF cfg.shuffle THEN ((i + epoch) % n) + 1 ELSE i]
  BY DEF EpochOrder
<1>2. ASSUME NEW i \in 1 .. n PROVE q[i] \in 1 .. n
  <2> DEFINE y == i + epoch
             z == y % n
  <2>1. y \in Int
    OBVIOUS
  <2> HIDE DEF y
  <2>2. z \in 0 .. n - 1
    BY <2>1
  <2>3. q[i] = IF cfg.shuffle THEN z + 1 ELSE i
    BY <1>1 DEF y
  <2> HIDE DEF z, q
  <2> QED BY <2>2, <2>3
<1>3. DOMAIN q = 1 .. n
  BY <1>1
<1> HIDE DEF q
<1>4. DOMAIN b # {} /\ "responses" \in DOMAIN b
  BY DEF Share, Table
<1>5. Picked(b, q, n, x)
  BY <1>3, <1>4, SelectIdxsIs
<1> HIDE DEF x
<1>6. DOMAIN x = DOMAIN b /\ Table(x, n) /\ \A i \in 1 .. n : x.responses[i] = b.responses[q[i]]
  BY <1>4, <1>5 DEF Picked
<1>7. Answered(x.responses, n)
  <2>1. Column(x.responses, n)
    BY <1>4, <1>6 DEF Table
  <2>2. \A j \in 1 .. n : b.responses[j].prompt \in Nat \ {0} /\ b.responses[j].response \in Nat \ {0}
    BY DEF Share, Answered
  <2> QED BY <1>2, <1>6, <2>1, <2>2 DEF Answered
<1>8. Share(x, n)
  BY <1>4, <1>6, <1>7 DEF Share
<1> QED BY <1>6, <1>8 DEF x, q, Reorder

\* The driver's batch, with as many rows for every data-parallel rank.
Dealable == Held(cfg, batch) /\ "uid" \in DOMAIN batch /\ Samples(cfg) % Dp = 0

\* How many that is.
OfRank == Samples(cfg) \div Dp

\* Every rank has a row, and a row in every mini-batch.
LEMMA NumbersAre ==
  ASSUME cfg \in Configs, Dealable
  PROVE  /\ Dp \in Nat \ {0} /\ Samples(cfg) \in Nat /\ OfRank \in Nat \ {0} /\ LocalMini \in Nat \ {0}
         /\ MiniBatches = CeilDiv(OfRank, LocalMini) /\ MiniBatches \in Nat \ {0}
<1> DEFINE n == Samples(cfg)
           d == Dp
           m == n \div d
           a == cfg.mini * cfg.n
           l == a \div d
<1>1. n \in Nat \ {0} /\ d \in Nat \ {0} /\ n % d = 0 /\ a >= d
  BY MeshIs, KnownConfig DEF Dealable, Meshed
<1>2. a \in Nat
  <2>1. cfg.mini \in Nat /\ cfg.n \in Nat
    BY KnownConfig DEF Known
  <2> QED BY <2>1
<1>3. Rows(batch) = n
  BY <1>1, TableRows DEF Dealable, Held
<1>4. OfRank = m /\ LocalMini = l /\ MiniBatches = CeilDiv(m, l)
  BY <1>3 DEF OfRank, LocalMini, MiniBatches
<1> HIDE DEF n, d, a
<1>5. m \in Nat /\ d * m = n
  BY <1>1, Shares
<1> HIDE DEF m
<1>6. m # 0
  BY <1>1, <1>5
<1>7. l \in Nat \ {0}
  <2> DEFINE r == a % d
  <2>1. l \in Nat /\ r \in 0 .. d - 1 /\ a = (l * d) + r
    BY <1>1, <1>2, Lines
  <2> HIDE DEF l, r
  <2>2. l # 0
    BY <1>1, <2>1
  <2> QED BY <2>1, <2>2
<1> HIDE DEF l
<1> DEFINE c == CeilDiv(m, l)
<1>8. Ceiling(m, l, c)
  BY <1>5, <1>7, CeilDivIs
<1> HIDE DEF c
<1>9. c \in Nat \ {0}
  <2>1. m \in Nat /\ m <= m /\ m > 0
    BY <1>5, <1>6
  <2>2. c > 0
    BY <1>7, <1>8, <2>1, CeilingGrows
  <2> QED BY <1>8, <2>2 DEF Ceiling
<1> QED BY <1>1, <1>4, <1>5, <1>6, <1>7, <1>9 DEF n, d, c

\* Some of the columns of a share.
LEMMA SelectShare ==
  ASSUME NEW n \in Nat, NEW b, Share(b, n), NEW columns, "responses" \in columns
  PROVE  Share(Select(b, columns), n)
<1> DEFINE x == Select(b, columns)
<1>1. DOMAIN x = DOMAIN b \cap columns /\ \A c \in DOMAIN x : x[c] = b[c]
  BY DEF Select
<1> HIDE DEF x
<1>2. "responses" \in DOMAIN x /\ x.responses = b.responses
  BY <1>1 DEF Share
<1>3. Share(x, n)
  BY <1>1, <1>2 DEF Share, Table
<1> QED BY <1>3 DEF x

\* One column more.
LEMMA WiderShare ==
  ASSUME NEW n \in Nat, NEW b, Share(b, n), NEW o, Table(o, n), "responses" \notin DOMAIN o
  PROVE  Share(Union(b, o), n)
<1> DEFINE x == Union(b, o)
<1>1. Table(x, n) /\ DOMAIN x = DOMAIN b \cup DOMAIN o
  BY UnionIs DEF Share
<1>2. "responses" \in DOMAIN x /\ x.responses = b.responses
  BY DEF Union, Share
<1> HIDE DEF x
<1>3. Share(x, n)
  BY <1>1, <1>2 DEF Share
<1> QED BY <1>3 DEF x

\* What critic and actor are trained on, on every rank.
LEMMA UpdateShares ==
  ASSUME cfg \in Configs, Dealable, NEW r \in Ranks
  PROVE  Share(CriticShare(r), OfRank) /\ Share(UpdateShare(r), OfRank)
<1> DEFINE n == Samples(cfg)
           m == OfRank
           data == DispatchTo(batch)[r]
           mask == MaskColumn(data, OwnSelection(r, data))
           o == [js_token_selection_mask |-> mask]
<1>1. n \in Nat /\ n % Dp = 0 /\ m = n \div Dp /\ m \in Nat
  BY NumbersAre DEF Dealable, OfRank
<1>2. Share(batch, n)
  BY DEF Dealable, Held, Share
<1>3. UpdateShare(r) = IF "js_token_selection_mask" \in DOMAIN data THEN data ELSE Union(data, o)
  BY DEF UpdateShare
<1>4. Share(data, m)
  <2>1. Given(cfg, DispatchTo(batch), n \div Dp)
    BY <1>1, <1>2, DispatchShares
  <2> QED BY <1>1, <2>1 DEF Given, Ranks
<1>5. Share(CriticShare(r), m)
  <2> DEFINE b == Select(batch, {"responses", "values", "returns"})
  <2>1. Share(b, n)
    BY <1>1, <1>2, SelectShare
  <2>2. CriticShare(r) = DispatchTo(b)[r]
    BY DEF CriticShare
  <2> HIDE DEF b
  <2>3. Given(cfg, DispatchTo(b), n \div Dp)
    BY <1>1, <2>1, DispatchShares
  <2> QED BY <1>1, <2>2, <2>3 DEF Given, Ranks
<1> HIDE DEF data, m, n
<1>6. Column(mask, m)
  <2>1. Rows(data) = m
    BY <1>1, <1>4, TableRows DEF Share
  <2> QED BY <2>1 DEF MaskColumn, Column
<1> HIDE DEF mask
<1>7. DOMAIN o = {"js_token_selection_mask"} /\ o.js_token_selection_mask = mask
  OBVIOUS
<1> HIDE DEF o
<1>8. Table(o, m)
  BY <1>6, <1>7 DEF Table
<1>9. Share(Union(data, o), m)
  BY <1>1, <1>4, <1>7, <1>8, WiderShare
<1> QED BY <1>3, <1>4, <1>5, <1>9 DEF m

\* Every mini-batch has as many rows on one rank as on another.
LEMMA MiniBatchIs ==
  ASSUME cfg \in Configs, Dealable, NEW k \in 1 .. MiniBatches, NEW epoch \in Int, NEW model
  PROVE  \E m \in Nat \ {0} : Given(cfg, MiniBatch(k, epoch, model), m)
<1> DEFINE n == OfRank
           l == LocalMini
           m == PieceRows(n, l, k)
           share(r) == IF model = "critic" THEN CriticShare(r) ELSE UpdateShare(r)
           drawn(r) == IF Megatron THEN Reorder(share(r), EpochOrder(Rows(share(r)), epoch)) ELSE share(r)
           g == MiniBatch(k, epoch, model)
<1>1. n \in Nat \ {0} /\ l \in Nat \ {0} /\ k \in 1 .. CeilDiv(n, l)
  BY NumbersAre
<1>2. m \in Nat \ {0}
  BY <1>1, PieceRowsAre
<1>3. g = [r \in Ranks |-> Split(drawn(r), l)[k]]
  BY DEF MiniBatch
<1>4. ASSUME NEW r \in Ranks PROVE Share(share(r), n)
  BY UpdateShares
<1> HIDE DEF n, l, g, share
<1>5. ASSUME NEW r \in Ranks PROVE Share(drawn(r), n)
  <2>1. CASE Megatron
    <3>1. Rows(share(r)) = n
      BY <1>1, <1>4, TableRows DEF Share
    <3>2. Share(Reorder(share(r), EpochOrder(n, epoch)), n)
      BY <1>1, <1>4, DrawnIs
    <3> QED BY <2>1, <3>1, <3>2
  <2>2. CASE ~Megatron
    BY <1>4, <2>2
  <2> QED BY <2>1, <2>2
<1> HIDE DEF drawn
<1>6. ASSUME NEW r \in Ranks PROVE Share(g[r], m)
  <2>1. Share(Split(drawn(r), l)[k], m)
    BY <1>1, <1>5, PieceIs
  <2> QED BY <1>3, <2>1
<1> HIDE DEF m
<1>7. Given(cfg, g, m)
  BY <1>6 DEF Given, Ranks
<1> QED BY <1>2, <1>7 DEF g

-----------------------------------------------------------------------------
\* The state of a training step, as far as the ranks depend on each other.

\* The ranks run micro-batches.
Forwards == {"log_prob", "values", "update_critic", "update"}

\* All phases between the balanced batch and the end of the step.
AfterBalance == Forwards \cup {"scored", "valued", "credited", "criticized", "ranked"}

\* The steps of the optimizers so far make two lists.
Counted(s) ==
  /\ DOMAIN s = {"critic", "actor"}
  /\ \A model \in {"critic", "actor"} : \E n \in Nat : Column(s[model], n)

WaitRest ==
  /\ phase \in {"generating", "generated", "balanced"} => "uid" \in DOMAIN batch
  /\ phase \in AfterBalance => Dealable
  /\ phase \in Forwards => InStep(cfg, work)
  /\ phase = "log_prob" => Yields(cfg, work, ScoredColumns(cfg))
  /\ phase = "values" => Yields(cfg, work, {"values"})
  /\ mini \in Nat
  /\ Counted(steps)

WaitInv == BalanceInv /\ WaitRest

\* Nothing is asked of the end of a step.
LEMMA EndsRest ==
  ASSUME phase' \in {"raised", "failed", "done"}, mini' \in Nat, Counted(steps')
  PROVE  WaitRest'
<1>1. phase' \notin AfterBalance /\ phase' \notin Forwards /\ phase' \notin {"generating", "generated", "balanced"}
  BY DEF AfterBalance, Forwards
<1>2. phase' # "log_prob" /\ phase' # "values"
  OBVIOUS
<1> QED BY <1>1, <1>2 DEF WaitRest

\* Nor of the ranks while the driver works alone.
LEMMA DrivesRest ==
  ASSUME phase' \in {"scored", "valued", "credited", "criticized", "ranked"}, Dealable',
         mini' \in Nat, Counted(steps')
  PROVE  WaitRest'
<1>1. phase' \notin Forwards /\ phase' \notin {"generating", "generated", "balanced"}
  BY DEF Forwards
<1>2. phase' # "log_prob" /\ phase' # "values"
  OBVIOUS
<1> QED BY <1>1, <1>2 DEF WaitRest

\* A method of the worker group has begun.
LEMMA BeginsRest ==
  ASSUME phase' \in Forwards, cfg' = cfg, Starts(cfg, work'), Dealable', mini' \in Nat, Counted(steps')
  PROVE  WaitRest'
<1>1. phase' \notin {"generating", "generated", "balanced"}
  BY DEF Forwards
<1>2. InStep(cfg', work')
  BY DEF Starts
<1>3. ASSUME NEW C PROVE Yields(cfg', work', C)
  BY DEF Starts, Yields, Ranks
<1> QED BY <1>1, <1>2, <1>3 DEF WaitRest

\* The rows and the answers a batch has to keep.
LEMMA StaysDealable ==
  ASSUME Dealable, cfg' = cfg, Share(batch', Samples(cfg)), "uid" \in DOMAIN batch'
  PROVE  Dealable'
<1>1. Held(cfg, batch')
  BY DEF Held, Share
<1>2. Held(cfg', batch')
  BY <1>1
<1>3. Samples(cfg') % Dp' = 0
  BY DEF Dealable, Dp
<1> QED BY <1>2, <1>3 DEF Dealable

\* A batch is as before.
LEMMA SameDealable ==
  ASSUME Dealable, cfg' = cfg, batch' = batch
  PROVE  Dealable'
<1>1. Share(batch', Samples(cfg)) /\ "uid" \in DOMAIN batch'
  BY DEF Dealable, Held, Share
<1> QED BY <1>1, StaysDealable

\* Columns are added to a batch.
LEMMA WiderDealable ==
  ASSUME cfg \in Configs, Dealable, cfg' = cfg, NEW o, Table(o, Samples(cfg)), "responses" \notin DOMAIN o,
         batch' = Union(batch, o)
  PROVE  Dealable'
<1>1. Samples(cfg) \in Nat
  BY KnownConfig
<1>2. Share(batch, Samples(cfg))
  BY DEF Dealable, Held, Share
<1>3. Share(batch', Samples(cfg))
  BY <1>1, <1>2, WiderShare
<1>4. "uid" \in DOMAIN batch'
  BY DEF Dealable, Union
<1> QED BY <1>3, <1>4, StaysDealable

\* Columns that the ranks have computed are.
LEMMA CollectedDealable ==
  ASSUME cfg \in Configs, Dealable, cfg' = cfg, NEW C, C # {}, "responses" \notin C,
         NEW outputs, Says(outputs, C), CanUnion(batch, CollectFrom(outputs)),
         batch' = Union(batch, CollectFrom(outputs))
  PROVE  Dealable'
<1> DEFINE n == Samples(cfg)
           o == CollectFrom(outputs)
<1>1. DOMAIN o = C /\ Tabular(o)
  BY CollectTabular
<1>2. n \in Nat /\ Table(batch, n)
  BY KnownConfig DEF Dealable, Held
<1>3. PICK m \in Nat : Table(o, m)
  BY <1>1 DEF Tabular
<1>4. CanUnion(batch, o) /\ batch' = Union(batch, o)
  OBVIOUS
<1> HIDE DEF o
<1>5. Rows(batch) = n /\ Rows(o) = m
  BY <1>2, <1>3, TableRows
<1>6. m = n
  BY <1>4, <1>5 DEF CanUnion
<1>7. Table(o, n) /\ "responses" \notin DOMAIN o
  BY <1>1, <1>3, <1>6
<1> QED BY <1>4, <1>7, WiderDealable DEF n

-----------------------------------------------------------------------------
\* Its steps.

\* What the invariant says of the driver's batch in these phases.
LEMMA InTraining ==
  ASSUME WaitInv, phase \in AfterBalance
  PROVE  cfg \in Configs /\ Dealable /\ mini \in Nat /\ Counted(steps)
BY DEF WaitInv, BalanceInv, WaitRest

\* And of the ranks.
LEMMA InForward ==
  ASSUME WaitInv, phase \in Forwards
  PROVE  /\ cfg \in Configs /\ Dealable /\ InStep(cfg, work) /\ mini \in Nat /\ Counted(steps)
         /\ phase = "log_prob" => Yields(cfg, work, ScoredColumns(cfg))
         /\ phase = "values" => Yields(cfg, work, {"values"})
BY DEF WaitInv, BalanceInv, WaitRest, AfterBalance

\* A forward of every rank, and what comes of it.
LEMMA ForwardRest ==
  ASSUME WaitInv, phase \in Forwards, NEW results, Forward(results), NEW C, Results(results, C),
         phase = "log_prob" => C = ScoredColumns(cfg), phase = "values" => C = {"values"},
         UNCHANGED <<cfg, phase, batch, mini, steps>>
  PROVE  WaitRest'
<1>1. /\ cfg \in Configs /\ Dealable /\ InStep(cfg, work) /\ mini \in Nat /\ Counted(steps)
      /\ phase = "log_prob" => Yields(cfg, work, ScoredColumns(cfg))
      /\ phase = "values" => Yields(cfg, work, {"values"})
  BY InForward
<1>2. cfg' = cfg /\ phase' = phase /\ batch' = batch /\ mini' = mini /\ steps' = steps
  OBVIOUS
<1>3. InStep(cfg, work')
  BY <1>1, ForwardInStep
<1>4. phase = "log_prob" => Yields(cfg, work', ScoredColumns(cfg))
  BY <1>1, ForwardYields
<1>5. phase = "values" => Yields(cfg, work', {"values"})
  BY <1>1, ForwardYields
<1>6. Dealable'
  BY <1>1, <1>2, SameDealable
<1>7. phase' \notin {"generating", "generated", "balanced"}
  BY <1>2 DEF Forwards
<1> QED BY <1>1, <1>2, <1>3, <1>4, <1>5, <1>6, <1>7 DEF WaitRest

\* compute_log_prob begins with the responses of the batch, and so do the values.
LEMMA CallRest ==
  ASSUME cfg \in Configs, Dealable, mini \in Nat, Counted(steps), NEW next \in Forwards,
         Begin(DispatchTo(Select(batch, {"responses"})), next),
         UNCHANGED <<cfg, batch, mini, steps>>
  PROVE  WaitRest'
<1> DEFINE n == Samples(cfg)
           m == OfRank
           b == Select(batch, {"responses"})
           g == DispatchTo(b)
<1>1. n \in Nat /\ n % Dp = 0 /\ m = n \div Dp /\ m \in Nat \ {0}
  BY NumbersAre DEF Dealable, OfRank
<1>2. Share(batch, n)
  BY DEF Dealable, Held, Share
<1>3. Begin(g, next)
  OBVIOUS
<1> HIDE DEF n, m
<1>4. Share(b, n)
  BY <1>1, <1>2, SelectShare
<1> HIDE DEF b
<1>5. Given(cfg, g, n \div Dp)
  BY <1>1, <1>4, DispatchShares
<1>6. Given(cfg, g, m)
  BY <1>1, <1>5
<1> HIDE DEF g
<1>7. phase' = "raised" \/ (phase' = next /\ Starts(cfg, work'))
  BY <1>1, <1>3, <1>6, BeginIs
<1>8. cfg' = cfg /\ batch' = batch /\ mini' \in Nat /\ Counted(steps')
  OBVIOUS
<1>9. Dealable'
  BY <1>8, SameDealable
<1>10. CASE phase' = "raised"
  BY <1>8, <1>10, EndsRest
<1>11. CASE phase' = next /\ Starts(cfg, work')
  BY <1>8, <1>9, <1>11, BeginsRest
<1> QED BY <1>7, <1>10, <1>11

\* A mini-batch of critic or actor begins.
LEMMA MiniBatchRest ==
  ASSUME cfg \in Configs, Dealable, NEW k \in 1 .. MiniBatches, NEW epoch \in Int, NEW model,
         NEW next \in Forwards, Begin(MiniBatch(k, epoch, model), next),
         cfg' = cfg, batch' = batch, mini' \in Nat, Counted(steps')
  PROVE  WaitRest'
<1> DEFINE g == MiniBatch(k, epoch, model)
<1>1. PICK m \in Nat \ {0} : Given(cfg, g, m)
  BY MiniBatchIs
<1>2. Begin(g, next)
  OBVIOUS
<1> HIDE DEF g
<1>3. phase' = "raised" \/ (phase' = next /\ Starts(cfg, work'))
  BY <1>1, <1>2, BeginIs
<1>4. Dealable'
  BY SameDealable
<1>5. CASE phase' = "raised"
  BY <1>5, EndsRest
<1>6. CASE phase' = next /\ Starts(cfg, work')
  BY <1>4, <1>6, BeginsRest
<1> QED BY <1>3, <1>5, <1>6

\* update_critic and update_policy begin with the first mini-batch.
LEMMA CallUpdateRest ==
  ASSUME cfg \in Configs, Dealable, Counted(steps), NEW model, NEW share, NEW next \in Forwards,
         CallUpdateOf(model, share, next)
  PROVE  WaitRest'
<1>1. mini' = 1 /\ cfg' = cfg /\ batch' = batch /\ steps' = steps
  BY DEF CallUpdateOf
<1>2. mini' \in Nat /\ Counted(steps')
  BY <1>1
<1>3. CASE CanIterate(share)
  <2>1. Begin(MiniBatch(1, 0, model), next)
    BY <1>3 DEF CallUpdateOf
  <2>2. 1 \in 1 .. MiniBatches /\ 0 \in Int
    <3>1. MiniBatches \in Nat \ {0}
      BY NumbersAre
    <3> QED BY <3>1
  <2> QED BY <1>1, <1>2, <2>1, <2>2, MiniBatchRest
<1>4. CASE ~CanIterate(share)
  <2>1. phase' = "raised"
    BY <1>4 DEF CallUpdateOf
  <2> QED BY <1>2, <2>1, EndsRest
<1> QED BY <1>3, <1>4

\* A step of an optimizer begins the next mini-batch, or is the last.
LEMMA StepRest ==
  ASSUME WaitInv, phase \in Forwards, NEW model \in {"critic", "actor"}, NEW more,
         NEW next \in {"criticized", "done"}, StepThen(model, more, next)
  PROVE  WaitRest'
<1>1. cfg \in Configs /\ Dealable /\ mini \in Nat /\ Counted(steps)
  BY InForward
<1> DEFINE z == [r \in Ranks |-> TrainedBy(r)]
<1>2. cfg' = cfg /\ batch' = batch /\ steps' = [steps EXCEPT ![model] = Append(steps[model], z)]
  BY DEF StepThen
<1> HIDE DEF z
<1>3. DOMAIN steps = {"critic", "actor"} /\ \A x \in {"critic", "actor"} : \E n \in Nat : Column(steps[x], n)
  BY <1>1 DEF Counted
<1>4. PICK n \in Nat : Column(steps[model], n)
  BY <1>3
<1>5. Counted(steps')
  <2>1. DOMAIN steps' = {"critic", "actor"}
    BY <1>2, <1>3
  <2>2. ASSUME NEW x \in {"critic", "actor"} PROVE \E m \in Nat : Column(steps'[x], m)
    <3>1. CASE x = model
      <4>1. steps'[x] = Append(steps[model], z)
        BY <1>2, <1>3, <3>1
      <4>2. Column(Append(steps[model], z), n + 1)
        BY <1>4, ColumnLonger
      <4>3. n + 1 \in Nat
        OBVIOUS
      <4> QED BY <4>1, <4>2, <4>3
    <3>2. CASE x # model
      <4>1. steps'[x] = steps[x]
        BY <1>2, <1>3, <3>2
      <4> QED BY <1>3, <4>1
    <3> QED BY <3>1, <3>2
  <2> QED BY <2>1, <2>2 DEF Counted
<1>6. MiniBatches \in Nat \ {0}
  BY <1>1, NumbersAre
<1>7. CASE more
  <2> DEFINE k == (mini % MiniBatches) + 1
             l == Len(steps[model])
             epoch == (l + 1) \div MiniBatches
  <2>1. mini' = k /\ Begin(MiniBatch(mini', epoch, model), phase)
    BY <1>7 DEF StepThen
  <2>2. l \in Nat
    BY <1>4, ColumnIs
  <2> HIDE DEF l
  <2>3. epoch \in Int
    <3> DEFINE x == l + 1
               y == MiniBatches
    <3>1. x \in Nat /\ y \in Nat \ {0}
      BY <1>6, <2>2
    <3> HIDE DEF x, y
    <3>2. x \div y \in Nat
      BY <3>1, Lines
    <3> QED BY <3>2 DEF x, y
  <2>4. k \in 1 .. MiniBatches
    <3> DEFINE x == mini
               y == MiniBatches
    <3>1. x \in Nat /\ y \in Nat \ {0}
      BY <1>1, <1>6
    <3> HIDE DEF x, y
    <3>2. x % y \in 0 .. y - 1
      BY <3>1, Lines
    <3>3. (x % y) + 1 \in 1 .. y
      BY <3>1, <3>2
    <3> QED BY <3>3 DEF x, y
  <2>5. Begin(MiniBatch(k, epoch, model), phase) /\ mini' \in Nat
    BY <1>6, <2>1, <2>4
  <2> HIDE DEF k, epoch
  <2> QED BY <1>1, <1>2, <1>5, <2>3, <2>4, <2>5, MiniBatchRest
<1>8. CASE ~more
  <2>1. mini' = 0 /\ phase' = next
    BY <1>8 DEF StepThen
  <2>2. mini' \in Nat
    BY <2>1
  <2>3. Dealable'
    BY <1>1, <1>2, SameDealable
  <2>4. CASE next = "criticized"
    BY <1>5, <2>1, <2>2, <2>3, <2>4, DrivesRest
  <2>5. CASE next = "done"
    BY <1>5, <2>1, <2>2, <2>5, EndsRest
  <2> QED BY <2>4, <2>5
<1> QED BY <1>7, <1>8

\* Nothing that the invariant speaks of has changed.
LEMMA SameRest ==
  ASSUME WaitInv, UNCHANGED vars
  PROVE  WaitRest'
<1>1. cfg' = cfg /\ phase' = phase /\ batch' = batch /\ work' = work /\ mini' = mini /\ steps' = steps
  BY DEF vars
<1>2. phase \in AfterBalance => Dealable'
  BY <1>1, SameDealable DEF WaitInv, WaitRest
<1> QED BY <1>1, <1>2 DEF WaitInv, WaitRest

\* While the batch is generated and balanced all it has to keep are its prompts.
LEMMA PromptsRest ==
  ASSUME phase' \in {"generating", "generated", "balanced"}, "uid" \in DOMAIN batch',
         mini' \in Nat, Counted(steps')
  PROVE  WaitRest'
<1>1. phase' \notin AfterBalance /\ phase' \notin Forwards
  BY DEF AfterBalance, Forwards
<1>2. phase' # "log_prob" /\ phase' # "values"
  OBVIOUS
<1> QED BY <1>1, <1>2 DEF WaitRest

\* Up to the balanced batch.
LEMMA GenerationRest ==
  ASSUME WaitInv,
         CallGenerate \/ (\E w \in DOMAIN work : phase = "generating" /\ Generate(w))
                      \/ CollectGenerate \/ Balance \/ CannotDivide
  PROVE  WaitRest'
<1>1. mini \in Nat /\ Counted(steps) /\ cfg \in Configs
  BY DEF WaitInv, WaitRest, BalanceInv
<1>2. CASE CallGenerate
  <2>1. phase' = "generating" /\ batch' = GenerationBatch /\ mini' = mini /\ steps' = steps
    BY <1>2 DEF CallGenerate
  <2>2. "uid" \in DOMAIN GenerationBatch
    BY <1>1, GenerationBatchIs
  <2> QED BY <1>1, <2>1, <2>2, PromptsRest
<1>3. CASE \E w \in DOMAIN work : phase = "generating" /\ Generate(w)
  <2>1. phase = "generating" /\ phase' = phase /\ batch' = batch /\ mini' = mini /\ steps' = steps
    BY <1>3 DEF Generate
  <2>2. "uid" \in DOMAIN batch
    BY <2>1 DEF WaitInv, WaitRest
  <2> QED BY <1>1, <2>1, <2>2, PromptsRest
<1>4. CASE CollectGenerate
  <2>1. /\ phase = "generating" /\ phase' \in {"done", "generated"} /\ mini' = mini /\ steps' = steps
        /\ \E o : batch' = Union(batch, o)
    BY <1>4 DEF CollectGenerate
  <2>2. "uid" \in DOMAIN batch
    BY <2>1 DEF WaitInv, WaitRest
  <2>3. "uid" \in DOMAIN batch'
    BY <2>1, <2>2 DEF Union
  <2>4. CASE phase' = "done"
    BY <1>1, <2>1, <2>4, EndsRest
  <2>5. CASE phase' = "generated"
    BY <1>1, <2>1, <2>3, <2>5, PromptsRest
  <2> QED BY <2>1, <2>4, <2>5
<1>5. CASE Balance
  <2>1. /\ phase = "generated" /\ phase' = "balanced" /\ mini' = mini /\ steps' = steps
        /\ batch' = batch \/ \E q : batch' = SelectIdxs(batch, q)
    BY <1>5 DEF Balance, Reorder
  <2>2. "uid" \in DOMAIN batch
    BY <2>1 DEF WaitInv, WaitRest
  <2>3. "uid" \in DOMAIN batch'
    BY <2>1, <2>2 DEF SelectIdxs
  <2> QED BY <1>1, <2>1, <2>3, PromptsRest
<1>6. CASE CannotDivide
  <2>1. phase' = "raised" /\ mini' = mini /\ steps' = steps
    BY <1>6 DEF CannotDivide
  <2> QED BY <1>1, <2>1, EndsRest
<1> QED BY <1>2, <1>3, <1>4, <1>5, <1>6

\* The log-probabilities are asked for only of a batch that divides evenly.
LEMMA CallLogProbRest ==
  ASSUME WaitInv, CallLogProb
  PROVE  WaitRest'
<1>1. /\ phase = "balanced" /\ CanChunk(batch, Dp)
      /\ Begin(DispatchTo(Select(batch, {"responses"})), "log_prob")
      /\ UNCHANGED <<cfg, batch, mini, steps>>
  BY DEF CallLogProb
<1>2. cfg \in Configs /\ Held(cfg, batch) /\ "uid" \in DOMAIN batch /\ mini \in Nat /\ Counted(steps)
  BY <1>1 DEF WaitInv, WaitRest, BalanceInv
<1>3. Rows(batch) = Samples(cfg)
  BY <1>2, KnownConfig, TableRows DEF Held
<1>4. Dealable
  BY <1>1, <1>2, <1>3 DEF Dealable, CanChunk
<1>5. "log_prob" \in Forwards
  BY DEF Forwards
<1> QED BY <1>1, <1>2, <1>4, <1>5, CallRest

\* A micro-batch is scored.
LEMMA ComputeLogProbRest ==
  ASSUME WaitInv, ComputeLogProb
  PROVE  WaitRest'
<1> DEFINE results == [r \in Ranks |-> ScoredMicro(r)]
           C == ScoredColumns(cfg)
<1>1. phase = "log_prob" /\ Forward(results) /\ UNCHANGED <<cfg, phase, batch, mini, steps>>
  BY DEF ComputeLogProb
<1>2. phase \in Forwards
  BY <1>1 DEF Forwards
<1>3. cfg \in Configs /\ InStep(cfg, work)
  BY <1>2, InForward
<1>4. \A r \in Ranks : results[r] = ScoredMicro(r)
  OBVIOUS
<1> HIDE DEF results
<1>5. ASSUME NEW r \in Ranks PROVE DOMAIN ScoredMicro(r) = C /\ Tabular(ScoredMicro(r))
  BY <1>1, <1>3, ScoredMicroIs
<1>6. Results(results, C)
  BY <1>4, <1>5 DEF Results
<1>7. (phase = "log_prob" => C = ScoredColumns(cfg)) /\ (phase = "values" => C = {"values"})
  BY <1>1
<1> HIDE DEF C
<1> QED BY <1>1, <1>2, <1>6, <1>7, ForwardRest

\* One column computed by the ranks.
LEMMA OneResult ==
  ASSUME cfg \in Configs, InStep(cfg, work), NEW results, Forward(results), NEW r \in Ranks, NEW shares
  PROVE  \E m \in Nat : Column(InGroup(r, shares), m)
<1>1. PICK m \in Nat : InRows(r, m)
  BY InGroupIs
<1> QED BY <1>1 DEF InRows

\* A micro-batch is valued.
LEMMA ComputeValuesRest ==
  ASSUME WaitInv, ComputeValues
  PROVE  WaitRest'
<1> DEFINE results == [r \in Ranks |-> [values |-> ValuesOf(r)]]
           C == {"values"}
<1>1. phase = "values" /\ Forward(results) /\ UNCHANGED <<cfg, phase, batch, mini, steps>>
  BY DEF ComputeValues
<1>2. phase \in Forwards
  BY <1>1 DEF Forwards
<1>3. cfg \in Configs /\ InStep(cfg, work)
  BY <1>2, InForward
<1>4. \A r \in Ranks : DOMAIN results[r] = C /\ results[r].values = ValuesOf(r)
  OBVIOUS
<1> HIDE DEF results
<1>5. ASSUME NEW r \in Ranks PROVE \E m \in Nat : Column(ValuesOf(r), m)
  BY <1>1, <1>3, OneResult DEF ValuesOf
<1>6. ASSUME NEW r \in Ranks PROVE DOMAIN results[r] = C /\ Tabular(results[r])
  <2>1. PICK m \in Nat : Column(ValuesOf(r), m)
    BY <1>5
  <2>2. Tabular(results[r])
    BY <1>4, <2>1, OneColumn
  <2> QED BY <1>4, <2>2
<1>7. Results(results, C)
  BY <1>6 DEF Results
<1>8. (phase = "log_prob" => C = ScoredColumns(cfg)) /\ (phase = "values" => C = {"values"})
  BY <1>1
<1> HIDE DEF C
<1> QED BY <1>1, <1>2, <1>7, <1>8, ForwardRest

\* A backward of the critic.
LEMMA BackwardCriticRest ==
  ASSUME WaitInv, BackwardCritic
  PROVE  WaitRest'
<1> DEFINE results == [r \in Ranks |-> [vpreds |-> ValuesOf(r)]]
           C == {"vpreds"}
<1>1. phase = "update_critic" /\ Forward(results) /\ UNCHANGED <<cfg, phase, batch, mini, steps>>
  BY DEF BackwardCritic
<1>2. phase \in Forwards /\ phase # "log_prob" /\ phase # "values"
  BY <1>1 DEF Forwards
<1>3. cfg \in Configs /\ InStep(cfg, work)
  BY <1>2, InForward
<1>4. \A r \in Ranks : DOMAIN results[r] = C /\ results[r].vpreds = ValuesOf(r)
  OBVIOUS
<1> HIDE DEF results
<1>5. ASSUME NEW r \in Ranks PROVE DOMAIN results[r] = C /\ Tabular(results[r])
  <2>1. PICK m \in Nat : Column(ValuesOf(r), m)
    BY <1>1, <1>3, OneResult DEF ValuesOf
  <2>2. Tabular(results[r])
    BY <1>4, <2>1, OneColumn
  <2> QED BY <1>4, <2>2
<1>6. Results(results, C)
  BY <1>5 DEF Results
<1> HIDE DEF C
<1> QED BY <1>1, <1>2, <1>6, ForwardRest

\* A backward of the actor.
LEMMA BackwardRest ==
  ASSUME WaitInv, Backward
  PROVE  WaitRest'
<1> DEFINE results == [r \in Ranks |-> LossLogProbs(r)]
           C == {"log_probs"}
<1>1. phase = "update" /\ Forward(results) /\ UNCHANGED <<cfg, phase, batch, mini, steps>>
  BY DEF Backward
<1>2. phase \in Forwards /\ phase # "log_prob" /\ phase # "values"
  BY <1>1 DEF Forwards
<1>3. cfg \in Configs /\ InStep(cfg, work)
  BY <1>2, InForward
<1>4. \A r \in Ranks : results[r] = LossLogProbs(r)
  OBVIOUS
<1> HIDE DEF results
<1>5. ASSUME NEW r \in Ranks PROVE DOMAIN results[r] = C /\ Tabular(results[r])
  <2> DEFINE Of(s) == IF cfg.topk THEN LogProbs(LogitsOf(r, s), GivenTo(r)) ELSE LogProbsOf(r, s)
             x == InGroup(r, [s \in 1 .. cfg.sp |-> Of(s)])
             y == results[r]
  <2>1. PICK m \in Nat : Column(x, m)
    BY <1>1, <1>3, OneResult
  <2>2. y = [log_probs |-> x]
    BY <1>4 DEF LossLogProbs
  <2> HIDE DEF x, y
  <2>3. DOMAIN y = C /\ y.log_probs = x
    BY <2>2
  <2>4. Tabular(y)
    BY <2>1, <2>3, OneColumn
  <2> QED BY <2>3, <2>4 DEF y
<1>6. Results(results, C)
  BY <1>5 DEF Results
<1> HIDE DEF C
<1> QED BY <1>1, <1>2, <1>6, ForwardRest

\* The scored rows are joined to the batch.
LEMMA CollectLogProbRest ==
  ASSUME WaitInv, CollectLogProb
  PROVE  WaitRest'
<1> DEFINE outputs == [r \in Ranks |-> RankResult(r)]
           C == ScoredColumns(cfg)
<1>1. /\ phase = "log_prob" /\ ~Running /\ CanUnion(batch, CollectFrom(outputs))
      /\ batch' = Union(batch, CollectFrom(outputs))
      /\ phase' = "scored" /\ cfg' = cfg /\ mini' = mini /\ steps' = steps
  BY DEF CollectLogProb
<1>2. phase \in Forwards
  BY <1>1 DEF Forwards
<1>3. /\ cfg \in Configs /\ Dealable /\ InStep(cfg, work) /\ mini \in Nat /\ Counted(steps)
      /\ Yields(cfg, work, C)
  BY <1>1, <1>2, InForward
<1>4. \A r \in Ranks : outputs[r] = RankResult(r)
  OBVIOUS
<1> HIDE DEF outputs
<1>5. C # {} /\ "responses" \notin C
  BY DEF ScoredColumns
<1> HIDE DEF C
<1>6. \A r \in Ranks : DOMAIN RankResult(r) = C /\ Tabular(RankResult(r))
  BY <1>1, <1>3, <1>5, RankResultIs
<1>7. Says(outputs, C)
  BY <1>4, <1>6 DEF Says
<1>8. Dealable'
  BY <1>1, <1>3, <1>5, <1>7, CollectedDealable
<1> QED BY <1>1, <1>3, <1>8, DrivesRest

\* The valued rows are.
LEMMA CollectValuesRest ==
  ASSUME WaitInv, CollectValues
  PROVE  WaitRest'
<1> DEFINE Masks(r) == [values |-> ActionValues(work[r].data, RankResult(r).values)]
           outputs == [r \in Ranks |-> Masks(r)]
           C == {"values"}
<1>1. /\ phase = "values" /\ ~Running /\ CanUnion(batch, CollectFrom(outputs))
      /\ batch' = Union(batch, CollectFrom(outputs))
      /\ phase' = "valued" /\ cfg' = cfg /\ mini' = mini /\ steps' = steps
  BY DEF CollectValues
<1>2. phase \in Forwards
  BY <1>1 DEF Forwards
<1>3. /\ cfg \in Configs /\ Dealable /\ InStep(cfg, work) /\ mini \in Nat /\ Counted(steps)
      /\ Yields(cfg, work, C)
  BY <1>1, <1>2, InForward
<1>4. \A r \in Ranks : outputs[r] = Masks(r)
  OBVIOUS
<1> HIDE DEF outputs
<1>5. C # {} /\ "responses" \notin C
  OBVIOUS
<1>6. \A r \in Ranks : DOMAIN RankResult(r) = C /\ Tabular(RankResult(r))
  <2> HIDE DEF C
  <2> QED BY <1>1, <1>3, <1>5, RankResultIs
<1>7. ASSUME NEW r \in Ranks PROVE DOMAIN Masks(r) = C /\ Tabular(Masks(r))
  <2> DEFINE tokens == RankResult(r).values
             x == ActionValues(work[r].data, tokens)
             y == Masks(r)
  <2>1. PICK m \in Nat : Column(tokens, m)
    BY <1>6 DEF Tabular, Table
  <2>2. DOMAIN y = C /\ y.values = x
    OBVIOUS
  <2> HIDE DEF y, tokens
  <2>3. DOMAIN tokens = 1 .. m
    BY <2>1, ColumnIs
  <2>4. Column(x, m)
    BY <2>3 DEF ActionValues, Column
  <2> HIDE DEF x
  <2>5. Tabular(y)
    BY <2>2, <2>4, OneColumn
  <2> QED BY <2>2, <2>5 DEF y
<1> HIDE DEF Masks, C
<1>8. Says(outputs, C)
  BY <1>4, <1>7 DEF Says
<1>9. Dealable'
  BY <1>1, <1>3, <1>5, <1>8, CollectedDealable
<1> QED BY <1>1, <1>3, <1>9, DrivesRest

\* An estimator credits every row of the batch.
LEMMA AdvantageIs ==
  ASSUME cfg \in Configs, Dealable
  PROVE  Credited(Estimate(cfg.estimator, EstimatorData), Samples(cfg))
<1> DEFINE n == Samples(cfg)
           data == EstimatorData
           other == Select(batch, {"reward_baselines", "values"})
           own == [uid                 |-> batch.uid,
                   response_mask       |-> [i \in 1 .. Rows(batch) |-> batch.responses[i].valid],
                   token_level_rewards |-> [i \in 1 .. Rows(batch) |-> Rewards(batch.responses[i])]]
<1>1. n \in Nat /\ Column(batch.uid, n)
  BY KnownConfig DEF Dealable, Held, Table
<1>2. Credits(data, n)
  <2>1. DOMAIN batch.uid = 1 .. n
    BY <1>1, ColumnIs
  <2>2. data = Union(own, other)
    BY DEF EstimatorData
  <2>3. "uid" \in DOMAIN own /\ own.uid = batch.uid
    OBVIOUS
  <2>4. "uid" \notin DOMAIN other
    BY DEF Select
  <2> HIDE DEF own, other, data
  <2>5. data.uid = batch.uid
    BY <2>2, <2>3, <2>4 DEF Union
  <2> QED BY <2>1, <2>5 DEF Credits, RowsOf
<1>3. cfg.estimator \in Estimators
  BY ConfigsAssumption
<1> HIDE DEF n, data
<1>4. Credited(Estimate(cfg.estimator, data), n)
  BY <1>1, <1>2, <1>3, EstimateIs
<1> QED BY <1>4 DEF data, n

\* So the batch keeps its rows.
LEMMA ComputeAdvantageRest ==
  ASSUME WaitInv, ComputeAdvantage
  PROVE  WaitRest'
<1> DEFINE o == Estimate(cfg.estimator, EstimatorData)
<1>1. /\ phase \in {"scored", "valued"} /\ phase' = "credited" /\ cfg' = cfg /\ mini' = mini /\ steps' = steps
      /\ batch' = Union(batch, o)
  BY DEF ComputeAdvantage
<1>2. phase \in AfterBalance
  BY <1>1 DEF AfterBalance
<1>3. cfg \in Configs /\ Dealable /\ mini \in Nat /\ Counted(steps)
  BY <1>2, InTraining
<1>4. Credited(o, Samples(cfg))
  BY <1>3, AdvantageIs
<1> HIDE DEF o
<1>5. Table(o, Samples(cfg)) /\ "responses" \notin DOMAIN o
  BY <1>4 DEF Credited
<1>6. Dealable'
  BY <1>1, <1>3, <1>5, WiderDealable
<1> QED BY <1>1, <1>3, <1>6, DrivesRest

\* Every row of the batch is ranked.
LEMMA RankRest ==
  ASSUME WaitInv, Rank
  PROVE  WaitRest'
<1> DEFINE n == Samples(cfg)
           x == [i \in 1 .. Rows(batch) |->
                   [t \in 1 .. ResponseLength |-> Divergence(batch.responses[i].id, t)]]
           js == [js_divergence |-> x]
           data == Union(batch, js)
           y == MaskColumn(data, BatchAggregated(data))
           mask == [js_token_selection_mask |-> y]
<1>1. /\ phase \in {"criticized", "credited"} /\ phase' = "ranked" /\ cfg' = cfg /\ mini' = mini /\ steps' = steps
      /\ batch' = IF cfg.batchAgg THEN Union(data, mask) ELSE data
  BY DEF Rank
<1>2. phase \in AfterBalance
  BY <1>1 DEF AfterBalance
<1>3. cfg \in Configs /\ Dealable /\ mini \in Nat /\ Counted(steps)
  BY <1>2, InTraining
<1>4. n \in Nat /\ Share(batch, n) /\ "uid" \in DOMAIN batch
  BY <1>3, KnownConfig DEF Dealable, Held, Share
<1>5. Column(x, n)
  <2>1. Rows(batch) = n
    BY <1>4, TableRows DEF Share
  <2> QED BY <2>1 DEF Column
<1>6. DOMAIN js = {"js_divergence"} /\ js.js_divergence = x
  OBVIOUS
<1>7. DOMAIN mask = {"js_token_selection_mask"} /\ mask.js_token_selection_mask = y
  OBVIOUS
<1> HIDE DEF x, js, mask, n
<1>8. Table(js, n)
  BY <1>5, <1>6 DEF Table
<1>9. Share(data, n) /\ "uid" \in DOMAIN data
  <2>1. Share(Union(batch, js), n)
    BY <1>4, <1>6, <1>8, WiderShare
  <2>2. "uid" \in DOMAIN Union(batch, js)
    BY <1>4 DEF Union
  <2> QED BY <2>1, <2>2
<1> HIDE DEF data
<1>10. Column(y, n)
  <2>1. Rows(data) = n
    BY <1>4, <1>9, TableRows DEF Share
  <2> QED BY <2>1 DEF MaskColumn, Column
<1> HIDE DEF y
<1>11. Table(mask, n)
  BY <1>7, <1>10 DEF Table
<1>12. Share(Union(data, mask), n) /\ "uid" \in DOMAIN Union(data, mask)
  <2>1. Share(Union(data, mask), n)
    BY <1>4, <1>7, <1>9, <1>11, WiderShare
  <2> QED BY <1>9, <2>1 DEF Union
<1>13. Share(batch', n) /\ "uid" \in DOMAIN batch'
  BY <1>1, <1>9, <1>12
<1>14. Dealable'
  BY <1>1, <1>3, <1>13, StaysDealable DEF n
<1> QED BY <1>1, <1>3, <1>14, DrivesRest

\* The later calls of the driver, and the steps of the optimizers.
LEMMA TrainingRest ==
  ASSUME WaitInv,
         \/ CallValues \/ CallCritic \/ CallUpdate \/ CriticStep \/ OptimizerStep
         \/ EstimatorFails \/ GatherFails
  PROVE  WaitRest'
<1>1. mini \in Nat /\ Counted(steps)
  BY DEF WaitInv, WaitRest
<1>2. CASE CallValues
  <2>1. /\ phase = "scored" /\ Begin(DispatchTo(Select(batch, {"responses"})), "values")
        /\ UNCHANGED <<cfg, batch, mini, steps>>
    BY <1>2 DEF CallValues
  <2>2. phase \in AfterBalance /\ "values" \in Forwards
    BY <2>1 DEF AfterBalance, Forwards
  <2>3. cfg \in Configs /\ Dealable
    BY <2>2, InTraining
  <2> QED BY <1>1, <2>1, <2>2, <2>3, CallRest
<1>3. CASE CallCritic
  <2>1. phase = "credited" /\ CallUpdateOf("critic", CriticShare(0), "update_critic")
    BY <1>3 DEF CallCritic
  <2>2. phase \in AfterBalance /\ "update_critic" \in Forwards
    BY <2>1 DEF AfterBalance, Forwards
  <2>3. cfg \in Configs /\ Dealable
    BY <2>2, InTraining
  <2> QED BY <1>1, <2>1, <2>2, <2>3, CallUpdateRest
<1>4. CASE CallUpdate
  <2>1. phase = "ranked" /\ CallUpdateOf("actor", UpdateShare(0), "update")
    BY <1>4 DEF CallUpdate
  <2>2. phase \in AfterBalance /\ "update" \in Forwards
    BY <2>1 DEF AfterBalance, Forwards
  <2>3. cfg \in Configs /\ Dealable
    BY <2>2, InTraining
  <2> QED BY <1>1, <2>1, <2>2, <2>3, CallUpdateRest
<1>5. CASE CriticStep
  <2>1. phase = "update_critic" /\ StepThen("critic", MoreSteps("critic"), "criticized")
    BY <1>5 DEF CriticStep
  <2>2. phase \in Forwards
    BY <2>1 DEF Forwards
  <2> QED BY <2>1, <2>2, StepRest
<1>6. CASE OptimizerStep
  <2>1. phase = "update" /\ StepThen("actor", MoreSteps("actor"), "done")
    BY <1>6 DEF OptimizerStep
  <2>2. phase \in Forwards
    BY <2>1 DEF Forwards
  <2> QED BY <2>1, <2>2, StepRest
<1>7. CASE EstimatorFails
  <2>1. phase' = "raised" /\ mini' = mini /\ steps' = steps
    BY <1>7 DEF EstimatorFails
  <2> QED BY <1>1, <2>1, EndsRest
<1>8. CASE GatherFails
  <2>1. phase' = "failed" /\ mini' = mini /\ steps' = steps
    BY <1>8 DEF GatherFails
  <2> QED BY <1>1, <2>1, EndsRest
<1> QED BY <1>2, <1>3, <1>4, <1>5, <1>6, <1>7, <1>8

\* Every step keeps the ranks in step.
LEMMA WaitStep ==
  ASSUME WaitInv, [Next]_vars
  PROVE  WaitInv'
<1>1. BalanceInv'
  BY BalanceStep DEF WaitInv
<1>2. WaitRest'
  <2>1. CASE \/ CallGenerate \/ (\E w \in DOMAIN work : phase = "generating" /\ Generate(w))
             \/ CollectGenerate \/ Balance \/ CannotDivide
    BY <2>1, GenerationRest
  <2>2. CASE CallLogProb
    BY <2>2, CallLogProbRest
  <2>3. CASE ComputeLogProb
    BY <2>3, ComputeLogProbRest
  <2>4. CASE CollectLogProb
    BY <2>4, CollectLogProbRest
  <2>5. CASE ComputeValues
    BY <2>5, ComputeValuesRest
  <2>6. CASE CollectValues
    BY <2>6, CollectValuesRest
  <2>7. CASE ComputeAdvantage
    BY <2>7, ComputeAdvantageRest
  <2>8. CASE BackwardCritic
    BY <2>8, BackwardCriticRest
  <2>9. CASE Rank
    BY <2>9, RankRest
  <2>10. CASE Backward
    BY <2>10, BackwardRest
  <2>11. CASE \/ CallValues \/ CallCritic \/ CallUpdate \/ CriticStep \/ OptimizerStep
              \/ EstimatorFails \/ GatherFails
    BY <2>11, TrainingRest
  <2>12. CASE Finished \/ UNCHANGED vars
    BY <2>12, SameRest DEF Finished
  <2> QED BY <2>1, <2>2, <2>3, <2>4, <2>5, <2>6, <2>7, <2>8, <2>9, <2>10, <2>11, <2>12 DEF Next
<1> QED BY <1>1, <1>2 DEF WaitInv

\* Ranks in step all have a micro-batch left, or none has.
LEMMA InStepTogether ==
  ASSUME InStep(cfg, work), Running
  PROVE  \A r \in Ranks : Len(work[r].out) < Len(work[r].parts)
<1>1. PICK p \in Nat \ {0}, o \in Nat : Lined(cfg, work, p, o)
  BY DEF InStep
<1>2. ASSUME NEW r \in Ranks PROVE Len(work[r].out) = o /\ Len(work[r].parts) = p
  <2>1. AtPart(work[r], p, o)
    BY <1>1 DEF Lined, Ranks
  <2>2. Column(work[r].out, o) /\ Column(work[r].parts, p)
    BY <2>1 DEF AtPart, Parted
  <2> QED BY <2>2, ColumnIs
<1>3. o < p
  BY <1>2 DEF Running
<1> QED BY <1>2, <1>3

\* A step begins with none made and no rank at work.
LEMMA WaitStarts ==
  ASSUME Init
  PROVE  WaitInv
<1>1. cfg \in Configs /\ phase = "start" /\ mini = 0 /\ steps = [critic |-> <<>>, actor |-> <<>>]
  BY DEF Init
<1>2. BalanceInv
  BY <1>1 DEF BalanceInv
<1>3. Counted(steps)
  <2>1. DOMAIN steps = {"critic", "actor"} /\ \A model \in {"critic", "actor"} : steps[model] = <<>>
    BY <1>1
  <2>2. Column(<<>>, 0)
    BY DEF Column
  <2>3. ASSUME NEW model \in {"critic", "actor"} PROVE \E n \in Nat : Column(steps[model], n)
    BY <2>1, <2>2
  <2> QED BY <2>1, <2>3 DEF Counted
<1>4. phase \notin AfterBalance /\ phase \notin Forwards
  BY <1>1 DEF AfterBalance, Forwards
<1>5. mini \in Nat
  BY <1>1
<1> QED BY <1>1, <1>2, <1>3, <1>4, <1>5 DEF WaitInv, WaitRest

\* NoRankWaitsAlone, for every number and mesh of ranks, every length of the responses and
\* both ways of cutting micro-batches: every forward and every backward, of the actor and of
\* the critic, finds a micro-batch on each rank or on none, because all shares that dispatch
\* and split make have as many rows, and the ranks agree on the number of micro-batches
\* that rearrange_micro_batches makes of them.
THEOREM NoRankWaitsAloneHolds == Spec => []NoRankWaitsAlone
<1>1. Init => WaitInv
  BY WaitStarts
<1>2. WaitInv /\ [Next]_vars => WaitInv'
  BY WaitStep
<1>3. WaitInv => NoRankWaitsAlone
  <2> SUFFICES ASSUME WaitInv, phase \in {"log_prob", "values", "update_critic", "update"}, Running
               PROVE  \A r \in Ranks : Len(work[r].out) < Len(work[r].parts)
    BY DEF NoRankWaitsAlone
  <2>1. InStep(cfg, work)
    BY DEF WaitInv, WaitRest, Forwards
  <2> QED BY <2>1, InStepTogether
<1> QED BY <1>1, <1>2, <1>3, PTL DEF Spec

-----------------------------------------------------------------------------
\* Which rows a step of an optimizer takes.  The definitions of DataParallel again, of a
\* configuration rather than of the state.

DpOf(c)       == c.world \div (c.tp * c.sp * c.pp)
DealtTo(c, r) == (r \div (c.tp * c.sp)) % DpOf(c)
PerRank(c)    == Samples(c) \div DpOf(c)
PerMini(c)    == (c.mini * c.n) \div DpOf(c)
Minis(c)      == CeilDiv(PerRank(c), PerMini(c))

\* The order of a rank's rows in an epoch.
Turned(n, epoch) == [i \in 1 .. n |-> ((i + epoch) % n) + 1]
OrderIn(c, epoch) ==
  IF c.backend = "megatron" /\ c.shuffle THEN Turned(PerRank(c), epoch)
                                         ELSE [i \in 1 .. PerRank(c) |-> i]

\* Step k of an optimizer: the mini-batch it takes, the epoch that is in, and its rows.
MiniOf(c, k)  == ((k - 1) % Minis(c)) + 1
EpochOf(c, k) == (k - 1) \div Minis(c)
RowsOfStep(c, k)  == PieceRows(PerRank(c), PerMini(c), MiniOf(c, k))

\* The row of the driver's batch that is row i of rank r in it.
RowAt(c, r, k, i) ==
  DealtTo(c, r) * PerRank(c) + OrderIn(c, EpochOf(c, k))[(MiniOf(c, k) - 1) * PerMini(c) + i]

\* The first n steps of an optimizer trained the rows that are due, B being those of the batch.
History(c, B, s, n) ==
  /\ Column(s, n)
  /\ \A k \in 1 .. n : \A r \in 0 .. c.world - 1 :
       s[k][r].rows = [i \in 1 .. RowsOfStep(c, k) |-> B[RowAt(c, r, k, i)].id]

\* The ranks hold the rows of step k.
Holds(c, B, ws, k) ==
  \A r \in 0 .. c.world - 1 :
    /\ Table(ws[r].data, RowsOfStep(c, k))
    /\ ws[r].data.responses = [i \in 1 .. RowsOfStep(c, k) |-> B[RowAt(c, r, k, i)]]

\* An optimizer in the middle of its steps, and one that has made them all.
Amid(c, B, s, ws, m) ==
  \E n \in Nat : /\ n < Minis(c) * c.epochs /\ History(c, B, s, n)
                 /\ m = MiniOf(c, n + 1) /\ Holds(c, B, ws, n + 1)
Through(c, B, s) == History(c, B, s, Minis(c) * c.epochs)

\* The responses of a batch are numbered through, and none stands twice in what a rank trains
\* on in a step.
OwnIds(B, n) ==
  /\ \A i \in 1 .. n : B[i].id \in 1 .. n
  /\ \A i, j \in 1 .. n : B[i].id = B[j].id => i = j
NoneTwice(c, s) ==
  \A model \in {"critic", "actor"} : \A k \in DOMAIN s[model] : \A r \in 0 .. c.world - 1 :
    IsInjective(s[model][k][r].rows)
NoSteps(s) == s = [critic |-> <<>>, actor |-> <<>>]

\* In training the workers number the responses through.
Counting(c, ws) ==
  ~c.validate => \A w \in 1 .. c.workers :
    /\ ws[w].first = (w - 1) * Rows(ws[w].data)
    /\ "responses" \in DOMAIN ws[w].data =>
         \A i \in 1 .. Rows(ws[w].data) : ws[w].data.responses[i].id = ws[w].first + i

\* The phases before critic and actor are trained, and those in which the batch is whole.
BeforeSteps == {"start", "generating", "generated", "balanced", "log_prob", "scored", "values",
                "valued", "credited"}
Complete == {"generated", "balanced"} \cup AfterBalance

TrainRest ==
  /\ phase = "generating" => Counting(cfg, work)
  /\ phase \in Complete => OwnIds(batch.responses, Samples(cfg))
  /\ phase \in BeforeSteps => NoSteps(steps)
  /\ NoneTwice(cfg, steps)
  /\ phase \in {"update_critic", "criticized", "ranked"} => steps.actor = <<>>
  /\ phase = "update_critic" => Amid(cfg, batch.responses, steps.critic, work, mini)
  /\ phase \in {"criticized", "ranked", "update"} /\ UsesCritic =>
       Through(cfg, batch.responses, steps.critic)
  /\ phase = "update" => Amid(cfg, batch.responses, steps.actor, work, mini)
  /\ phase = "done" /\ ~cfg.validate =>
       /\ Dealable /\ OwnIds(batch.responses, Samples(cfg))
       /\ UsesCritic => Through(cfg, batch.responses, steps.critic)
       /\ Through(cfg, batch.responses, steps.actor)

\* a times k, and r more.
LeavesOver(x, a, k, r) == x = a * k + r

\* What \div and % find of it.
LEMMA Divided ==
  ASSUME NEW k \in Nat \ {0}, NEW a \in Nat, NEW r \in 0 .. k - 1, NEW x, LeavesOver(x, a, k, r)
  PROVE  x \in Nat /\ x \div k = a /\ x % k = r
<1> DEFINE y == x + 1
           i == r + 1
<1>1. a * k \in Nat /\ x = a * k + r /\ x \in Nat /\ i \in 1 .. k
  BY DEF LeavesOver
<1>2. At(y, a, k, i)
  BY <1>1 DEF At
<1>3. y - 1 = x /\ i - 1 = r
  BY <1>1
<1> HIDE DEF y, i
<1>4. (y - 1) \div k = a /\ (y - 1) % k = i - 1
  BY <1>1, <1>2, LineOf DEF FoundAt
<1> QED BY <1>1, <1>3, <1>4

\* Turned by some rows, every row is still there, once.
LEMMA TurnedIs ==
  ASSUME NEW n \in Nat \ {0}, NEW epoch \in Nat
  PROVE  Turned(n, epoch) \in Orders(n)
<1> DEFINE q == epoch \div n
           t == epoch % n
           o == Turned(n, epoch)
<1>1. q \in Nat /\ t \in 0 .. n - 1 /\ epoch = (q * n) + t
  BY Lines
<1>2. o = [i \in 1 .. n |-> ((i + epoch) % n) + 1]
  BY DEF Turned
<1> HIDE DEF q, t, o
<1>3. q * n \in Nat /\ (q + 1) * n = q * n + n
  BY <1>1
<1>4. ASSUME NEW i \in 1 .. n
      PROVE  o[i] = IF i + t < n THEN i + t + 1 ELSE i + t + 1 - n
  <2> DEFINE x == i + epoch
             f == q + 1
  <2>1. o[i] = (x % n) + 1
    BY <1>2
  <2>2. x = q * n + (i + t) /\ x = f * n + (i + t - n)
    BY <1>1, <1>3
  <2>3. q \in Nat /\ f \in Nat
    BY <1>1
  <2> HIDE DEF x, f
  <2>4. CASE i + t < n
    <3> DEFINE r == i + t
    <3>1. r \in 0 .. n - 1 /\ LeavesOver(x, q, n, r)
      BY <1>1, <2>2, <2>4 DEF LeavesOver
    <3> HIDE DEF r
    <3>2. x % n = r
      BY <2>3, <3>1, Divided
    <3> QED BY <2>1, <2>4, <3>2 DEF r
  <2>5. CASE ~(i + t < n)
    <3> DEFINE r == i + t - n
    <3>1. r \in 0 .. n - 1 /\ LeavesOver(x, f, n, r)
      BY <1>1, <2>2, <2>5 DEF LeavesOver
    <3> HIDE DEF r
    <3>2. x % n = r
      BY <2>3, <3>1, Divided
    <3>3. o[i] = i + t + 1 - n
      BY <1>1, <2>1, <3>2 DEF r
    <3> QED BY <2>5, <3>3
  <2> QED BY <2>4, <2>5
<1>5. o \in [1 .. n -> 1 .. n]
  <2>1. \A i \in 1 .. n : o[i] \in 1 .. n
    BY <1>1, <1>4
  <2>2. o = [i \in 1 .. n |-> o[i]]
    BY <1>2
  <2> QED BY <2>1, <2>2
<1>6. ASSUME NEW i \in 1 .. n, NEW j \in 1 .. n, o[i] = o[j] PROVE i = j
  BY <1>1, <1>4, <1>6
<1>7. ASSUME NEW j \in 1 .. n PROVE \E i \in 1 .. n : o[i] = j
  <2>1. CASE j > t + 1
    <3>1. j - t - 1 \in 1 .. n /\ (j - t - 1) + t < n
      BY <1>1, <2>1
    <3>2. o[j - t - 1] = j
      BY <1>1, <1>4, <3>1
    <3> QED BY <3>1, <3>2
  <2>2. CASE ~(j > t + 1)
    <3>1. j - t - 1 + n \in 1 .. n /\ ~((j - t - 1 + n) + t < n)
      BY <1>1, <2>2
    <3>2. o[j - t - 1 + n] = j
      BY <1>1, <1>4, <3>1
    <3> QED BY <3>1, <3>2
  <2> QED BY <2>1, <2>2
<1> QED BY <1>5, <1>6, <1>7 DEF Orders, o

\* So an epoch has every row of a rank, in some order.
LEMMA OrderInIs ==
  ASSUME NEW c, PerRank(c) \in Nat \ {0}, NEW epoch \in Nat
  PROVE  OrderIn(c, epoch) \in Orders(PerRank(c))
<1> DEFINE n == PerRank(c)
<1>1. Turned(n, epoch) \in Orders(n)
  BY TurnedIs
<1>2. [i \in 1 .. n |-> i] \in Orders(n)
  BY DEF Orders
<1> QED BY <1>1, <1>2 DEF OrderIn

\* Row x of a share is row i of its mini-batch k.
InPiece(n, size, x, k, i) ==
  k \in 1 .. CeilDiv(n, size) /\ i \in 1 .. PieceRows(n, size, k) /\ At(x, k - 1, size, i)

\* Every row of a share is in one mini-batch.
LEMMA PiecesAre ==
  ASSUME NEW n \in Nat \ {0}, NEW size \in Nat \ {0}
  PROVE  /\ \A k \in 1 .. CeilDiv(n, size) : \A i \in 1 .. PieceRows(n, size, k) :
              (k - 1) * size + i \in 1 .. n /\ i \in 1 .. size
         /\ \A x \in 1 .. n : \E k, i : InPiece(n, size, x, k, i)
         /\ \A x, k, l, i, j : InPiece(n, size, x, k, i) /\ InPiece(n, size, x, l, j) => k = l /\ i = j
<1> DEFINE c == CeilDiv(n, size)
<1>1. Ceiling(n, size, c)
  BY CeilDivIs
<1>2. c \in Nat /\ n <= c * size
  BY <1>1 DEF Ceiling
<1>3. ASSUME NEW k \in 1 .. c
      PROVE  /\ PieceRows(n, size, k) \in 1 .. size /\ (k - 1) * size \in Nat
             /\ (k - 1) * size + PieceRows(n, size, k) <= n
             /\ k * size <= n => PieceRows(n, size, k) = size
             /\ n <= k * size => (k - 1) * size + PieceRows(n, size, k) = n
  <2> DEFINE a == (k - 1) * size
             z == k * size
             m == PieceRows(n, size, k)
             e == Min({z, n})
  <2>1. m \in Nat \ {0} /\ a \in Nat /\ e = a + m /\ a + m <= n
    BY PieceRowsAre
  <2>2. z = a + size /\ z \in Nat
    BY <1>2
  <2>3. e \in {z, n} /\ e <= z /\ e <= n
    <3> HIDE DEF z
    <3>1. \E y \in {z, n} : \A t \in {z, n} : y <= t
      BY <2>2
    <3> QED BY <3>1 DEF Min
  <2> HIDE DEF a, z, m, e
  <2>4. m \in 1 .. size /\ (z <= n => m = size) /\ (n <= z => a + m = n)
    BY <2>1, <2>2, <2>3
  <2> QED BY <2>1, <2>4 DEF a, z, m
<1> HIDE DEF c
<1>4. ASSUME NEW k \in 1 .. c, NEW i \in 1 .. PieceRows(n, size, k)
      PROVE  (k - 1) * size + i \in 1 .. n /\ i \in 1 .. size
  <2> DEFINE a == (k - 1) * size
             m == PieceRows(n, size, k)
  <2>1. m \in 1 .. size /\ a \in Nat /\ a + m <= n
    BY <1>3
  <2> HIDE DEF a, m
  <2>2. i \in 1 .. m
    BY DEF m
  <2>3. a + i \in 1 .. n /\ i \in 1 .. size
    BY <2>1, <2>2
  <2> QED BY <2>3 DEF a
<1>5. ASSUME NEW x \in 1 .. n PROVE \E k, i : InPiece(n, size, x, k, i)
  <2>1. x \in 1 .. c * size
    BY <1>2
  <2>2. PICK o \in 0 .. c - 1, i \in 1 .. size : x = o * size + i
    <3>1. \A y \in 1 .. c * size : \E o \in 0 .. c - 1 : \E i \in 1 .. size : y = o * size + i
      BY <1>2, LineAndPlace
    <3> QED BY <2>1, <3>1
  <2> DEFINE k == o + 1
             m == PieceRows(n, size, k)
  <2>3. k \in 1 .. c /\ k - 1 = o
    BY <1>2
  <2> HIDE DEF k
  <2>4. /\ m \in 1 .. size /\ o * size \in Nat /\ (k * size <= n => m = size)
        /\ (n <= k * size => o * size + m = n) /\ k * size \in Nat
    BY <1>3, <2>3
  <2> HIDE DEF m
  <2>5. i \in 1 .. m
    BY <2>2, <2>4
  <2>6. At(x, k - 1, size, i)
    BY <2>2, <2>3 DEF At
  <2> QED BY <2>3, <2>5, <2>6 DEF InPiece, m, c
<1>6. ASSUME NEW x, NEW k, NEW l, NEW i, NEW j, InPiece(n, size, x, k, i), InPiece(n, size, x, l, j)
      PROVE  k = l /\ i = j
  <2>1. /\ k \in 1 .. c /\ i \in 1 .. PieceRows(n, size, k) /\ x = (k - 1) * size + i
        /\ l \in 1 .. c /\ j \in 1 .. PieceRows(n, size, l) /\ x = (l - 1) * size + j
    BY <1>6 DEF InPiece, At, c
  <2>2. i \in 1 .. size /\ j \in 1 .. size
    BY <1>4, <2>1
  <2> DEFINE a == k - 1
             b == l - 1
  <2>3. a \in Nat /\ b \in Nat /\ a * size + i = b * size + j /\ k = a + 1 /\ l = b + 1
    BY <1>2, <2>1
  <2> HIDE DEF a, b
  <2>4. a = b /\ i = j
    BY <1>2, <2>2, <2>3, LineAndPlace
  <2> QED BY <2>3, <2>4
<1> QED BY <1>4, <1>5, <1>6 DEF c

\* Lines of k numbers, all counted from zero.
LEMMA FromZero ==
  ASSUME NEW k \in Nat \ {0}, NEW q \in Nat
  PROVE  /\ \A o \in 0 .. q - 1 : \A i \in 0 .. k - 1 : o * k + i \in 0 .. q * k - 1
         /\ \A x \in 0 .. q * k - 1 : /\ x \div k \in 0 .. q - 1 /\ x % k \in 0 .. k - 1
                                      /\ x = (x \div k) * k + (x % k)
<1>1. q * k \in Nat
  OBVIOUS
<1>2. ASSUME NEW o \in 0 .. q - 1, NEW i \in 0 .. k - 1 PROVE o * k + i \in 0 .. q * k - 1
  <2>1. o * k + k <= q * k
    BY NextLine
  <2>2. o * k \in Nat
    OBVIOUS
  <2> QED BY <1>1, <2>1, <2>2
<1>3. ASSUME NEW x \in 0 .. q * k - 1
      PROVE  /\ x \div k \in 0 .. q - 1 /\ x % k \in 0 .. k - 1
             /\ x = (x \div k) * k + (x % k)
  <2> DEFINE o == x \div k
             i == x % k
  <2>1. x \in Nat /\ x < q * k
    BY <1>1
  <2>2. o \in Nat /\ i \in 0 .. k - 1 /\ x = o * k + i
    BY <2>1, Lines
  <2> HIDE DEF o, i
  <2>3. o < q
    <3> SUFFICES ASSUME ~(o < q) PROVE FALSE
      OBVIOUS
    <3>1. CASE o = q
      <4>1. o * k = q * k
        BY <3>1
      <4> QED BY <1>1, <2>1, <2>2, <4>1
    <3>2. CASE q < o
      <4>1. q * k + k <= o * k
        BY <2>2, <3>2, NextLine
      <4>2. o * k \in Nat
        BY <2>2
      <4> QED BY <1>1, <2>1, <2>2, <4>1, <4>2
    <3> QED BY <2>2, <3>1, <3>2
  <2>4. o \in 0 .. q - 1
    BY <2>2, <2>3
  <2> QED BY <2>2, <2>4 DEF o, i
<1> QED BY <1>2, <1>3

\* Number j of line u of the d lines of block s: where it is, and how it is found again.
Place(d, a, s, u, j) == (s * d + u) * a + j
Placing(p, d, a, s, u, j, x) ==
  /\ x \in 0 .. p * (d * a) - 1
  /\ x \div a = s * d + u /\ x % a = j /\ (x \div a) % d = u /\ (x \div a) \div d = s

\* p blocks of d lines of a numbers.
LEMMA Blocks ==
  ASSUME NEW p \in Nat \ {0}, NEW d \in Nat \ {0}, NEW a \in Nat \ {0}
  PROVE  /\ \A s \in 0 .. p - 1 : \A u \in 0 .. d - 1 : \A j \in 0 .. a - 1 :
              Placing(p, d, a, s, u, j, Place(d, a, s, u, j))
         /\ \A x \in 0 .. p * (d * a) - 1 : \E s \in 0 .. p - 1 : \E u \in 0 .. d - 1 : \E j \in 0 .. a - 1 :
              x = Place(d, a, s, u, j)
<1> DEFINE q == p * d
           n == q * a
<1>1. q \in Nat \ {0} /\ n = p * (d * a) /\ n \in Nat
  <2>1. p * d \in Nat /\ p * d # 0
    OBVIOUS
  <2>2. (p * d) * a = p * (d * a) /\ (p * d) * a \in Nat
    OBVIOUS
  <2> QED BY <2>1, <2>2
<1> HIDE DEF n
<1>2. ASSUME NEW s \in 0 .. p - 1, NEW u \in 0 .. d - 1, NEW j \in 0 .. a - 1
      PROVE  Placing(p, d, a, s, u, j, Place(d, a, s, u, j))
  <2> DEFINE l == s * d + u
             x == l * a + j
  <2>1. l \in 0 .. q - 1
    BY FromZero
  <2>2. s \in Nat /\ LeavesOver(l, s, d, u)
    BY DEF LeavesOver
  <2>3. l \div d = s /\ l % d = u
    BY <2>2, Divided
  <2> HIDE DEF l, q
  <2>4. x \in 0 .. q * a - 1
    BY <1>1, <2>1, FromZero
  <2>5. l \in Nat /\ LeavesOver(x, l, a, j)
    BY <1>1, <2>1 DEF LeavesOver
  <2> HIDE DEF x
  <2>6. x \div a = l /\ x % a = j
    BY <2>5, Divided
  <2>7. x = Place(d, a, s, u, j) /\ l = s * d + u
    BY DEF x, l, Place
  <2>8. x \in 0 .. p * (d * a) - 1
    BY <1>1, <2>4 DEF n
  <2> QED BY <2>3, <2>6, <2>7, <2>8 DEF Placing
<1>3. ASSUME NEW x \in 0 .. p * (d * a) - 1
      PROVE  \E s \in 0 .. p - 1 : \E u \in 0 .. d - 1 : \E j \in 0 .. a - 1 : x = Place(d, a, s, u, j)
  <2> DEFINE l == x \div a
             j == x % a
  <2>1. l \in 0 .. q - 1 /\ j \in 0 .. a - 1 /\ x = l * a + j
    <3> HIDE DEF q
    <3>1. x \in 0 .. q * a - 1
      BY <1>1 DEF n
    <3> QED BY <1>1, <3>1, FromZero
  <2> HIDE DEF l, j
  <2> DEFINE s == l \div d
             u == l % d
  <2>2. s \in 0 .. p - 1 /\ u \in 0 .. d - 1 /\ l = s * d + u
    BY <2>1, FromZero
  <2> HIDE DEF s, u
  <2>3. x = Place(d, a, s, u, j)
    BY <2>1, <2>2 DEF Place
  <2> QED BY <2>1, <2>2, <2>3
<1> QED BY <1>2, <1>3

\* The u-th line of every block.
LinesAt(p, d, a, u) == {x \in 0 .. p * (d * a) - 1 : (x \div a) % d = u}

\* As many numbers as the blocks have lines' lengths.
LEMMA LinesOfBlocks ==
  ASSUME NEW p \in Nat \ {0}, NEW d \in Nat \ {0}, NEW a \in Nat \ {0}, NEW u \in 0 .. d - 1
  PROVE  Cardinality(LinesAt(p, d, a, u)) = p * a
<1> DEFINE S == LinesAt(p, d, a, u)
           n == p * a
           T == 0 .. n - 1
           f == [y \in T |-> Place(d, a, y \div a, u, y % a)]
<1>0. \A x : x \in S <=> x \in 0 .. p * (d * a) - 1 /\ (x \div a) % d = u
  BY DEF LinesAt
<1> HIDE DEF S
<1>1. n \in Nat
  OBVIOUS
<1>2. \A y \in T : y \div a \in 0 .. p - 1 /\ y % a \in 0 .. a - 1 /\ y = (y \div a) * a + (y % a)
  BY FromZero
<1>3. \A s \in 0 .. p - 1 : \A j \in 0 .. a - 1 : s * a + j \in T
  BY FromZero
<1> HIDE DEF n
<1>4. \A s \in 0 .. p - 1 : \A j \in 0 .. a - 1 : Placing(p, d, a, s, u, j, Place(d, a, s, u, j))
  BY Blocks
<1>5. f \in [T -> S]
  <2>1. ASSUME NEW y \in T PROVE f[y] \in S
    <3>1. f[y] = Place(d, a, y \div a, u, y % a)
      OBVIOUS
    <3> HIDE DEF f, T
    <3>2. Placing(p, d, a, y \div a, u, y % a, f[y])
      BY <1>2, <1>4, <3>1
    <3> QED BY <1>0, <3>2 DEF Placing
  <2> HIDE DEF T
  <2> QED BY <2>1
<1>6. ASSUME NEW y \in T, NEW z \in T, f[y] = f[z] PROVE y = z
  <2>1. f[y] = Place(d, a, y \div a, u, y % a) /\ f[z] = Place(d, a, z \div a, u, z % a)
    OBVIOUS
  <2> HIDE DEF f, T
  <2>2. Placing(p, d, a, y \div a, u, y % a, f[y]) /\ Placing(p, d, a, z \div a, u, z % a, f[z])
    BY <1>2, <1>4, <2>1
  <2>3. y \div a = z \div a /\ y % a = z % a
    BY <1>6, <2>2 DEF Placing
  <2> QED BY <1>2, <2>3
<1>7. ASSUME NEW x \in S PROVE \E y \in T : f[y] = x
  <2>1. x \in 0 .. p * (d * a) - 1 /\ (x \div a) % d = u
    BY <1>0
  <2>2. PICK s \in 0 .. p - 1, v \in 0 .. d - 1, j \in 0 .. a - 1 : x = Place(d, a, s, v, j)
    <3>1. \A y \in 0 .. p * (d * a) - 1 :
            \E s \in 0 .. p - 1 : \E v \in 0 .. d - 1 : \E j \in 0 .. a - 1 : y = Place(d, a, s, v, j)
      BY Blocks
    <3> QED BY <2>1, <3>1
  <2>3. Placing(p, d, a, s, v, j, x)
    BY <2>2, Blocks
  <2>4. v = u
    BY <2>1, <2>3 DEF Placing
  <2> DEFINE y == s * a + j
  <2>5. y \in T /\ s \in Nat /\ LeavesOver(y, s, a, j)
    BY <1>3 DEF LeavesOver
  <2> HIDE DEF y
  <2>6. y \div a = s /\ y % a = j
    BY <2>5, Divided
  <2>7. f[y] = x
    BY <2>2, <2>4, <2>5, <2>6
  <2> QED BY <2>5, <2>7
<1>8. ExistsBijection(T, S)
  <2> HIDE DEF f, T
  <2>1. f \in Bijection(T, S)
    <3>1. DOMAIN f = T
      BY <1>5
    <3>2. IsInjective(f)
      BY <1>6, <3>1 DEF IsInjective
    <3> QED BY <1>5, <1>7, <3>2 DEF Bijection, Injection, Surjection
  <2> QED BY <2>1 DEF ExistsBijection
<1>9. IsFiniteSet(T) /\ Cardinality(T) = n
  <2>1. n - 1 \in Int /\ 0 \in Int /\ (IF 0 > n - 1 THEN 0 ELSE (n - 1) - 0 + 1) = n
    BY <1>1
  <2> QED BY <2>1, FS_Interval
<1> HIDE DEF T
<1>10. Cardinality(S) = n
  BY <1>8, <1>9, FS_Bijection
<1> QED BY <1>10 DEF n, S

\* The numbers of a batch that divides evenly.
Sized(c) == /\ {DpOf(c), PerRank(c), PerMini(c), Minis(c), c.epochs} \subseteq Nat \ {0}
            /\ DpOf(c) * PerRank(c) = Samples(c)

\* They are the ones DataParallel computes from its state.
SameSizes(c) ==
  /\ DpOf(c) = Dp /\ PerRank(c) = OfRank /\ PerMini(c) = LocalMini /\ Minis(c) = MiniBatches
  /\ \A r : DealtTo(c, r) = DpRank(r)

\* As long as the batch divides evenly.
LEMMA SizedIs ==
  ASSUME cfg \in Configs, Dealable
  PROVE  Sized(cfg) /\ SameSizes(cfg)
<1>1. DpOf(cfg) = Dp /\ PerRank(cfg) = OfRank /\ PerMini(cfg) = LocalMini
  BY DEF DpOf, Dp, PerRank, OfRank, PerMini, LocalMini
<1>2. /\ Dp \in Nat \ {0} /\ Samples(cfg) \in Nat /\ OfRank \in Nat \ {0} /\ LocalMini \in Nat \ {0}
      /\ MiniBatches = CeilDiv(OfRank, LocalMini) /\ MiniBatches \in Nat \ {0}
  BY NumbersAre
<1>3. Minis(cfg) = MiniBatches
  BY <1>1, <1>2 DEF Minis
<1>4. cfg.epochs \in Nat \ {0}
  BY KnownConfig DEF Known
<1>5. Dp * OfRank = Samples(cfg)
  <2> DEFINE n == Samples(cfg)
             d == Dp
  <2>1. n % d = 0 /\ OfRank = n \div d
    BY DEF Dealable, OfRank
  <2> HIDE DEF n, d
  <2>2. d * (n \div d) = n
    BY <1>2, <2>1, Shares DEF n, d
  <2> QED BY <2>1, <2>2 DEF n, d
<1>6. \A r : DealtTo(cfg, r) = DpRank(r)
  BY <1>1 DEF DealtTo, DpRank
<1> QED BY <1>1, <1>2, <1>3, <1>4, <1>5, <1>6 DEF Sized, SameSizes

\* A pipeline's last stage has the data-parallel rank of the others.
LEMMA DealtToIs ==
  ASSUME cfg \in Configs, NEW r \in Ranks
  PROVE  DpRank(r) \in 0 .. Dp - 1 /\ DpRank(LastStage(r)) = DpRank(r)
<1> DEFINE a == cfg.tp * cfg.sp
           d == Dp
           p == cfg.pp
           q == PerStage(cfg)
           x == r \div q
           t == (p - 1) - x
<1>1. /\ a \in Nat \ {0} /\ d \in Nat \ {0} /\ p \in Nat \ {0} /\ q \in Nat \ {0}
      /\ d * a = q /\ p * q = cfg.world /\ r \in 0 .. p * q - 1
  BY MeshIs, KnownConfig DEF Meshed, Known, Ranks
<1>2. LastStage(r) = r + t * q
  BY DEF LastStage, Stage, PerStage
<1>3. \A y : DpRank(y) = (y \div a) % d
  BY DEF DpRank
<1> HIDE DEF a, d, p, q
<1>4. x \in 0 .. p - 1
  BY <1>1, FromZero
<1> HIDE DEF x
<1>5. t \in Nat
  BY <1>1, <1>4
<1> HIDE DEF t
<1> DEFINE u == r \div a
           v == r % a
<1>6. r \in Nat
  BY <1>1
<1>7. u \in Nat /\ v \in 0 .. a - 1 /\ r = u * a + v
  BY <1>1, <1>6, Lines
<1> HIDE DEF u, v
<1> DEFINE f == u \div d
           g == u % d
<1>8. f \in Nat /\ g \in 0 .. d - 1 /\ u = f * d + g
  BY <1>1, <1>7, Lines
<1> HIDE DEF f, g
<1> DEFINE h == f + t
           w == u + t * d
           z == r + t * q
<1>9. h \in Nat /\ LeavesOver(w, h, d, g)
  <2>1. h * d = f * d + t * d /\ t * d \in Nat /\ f * d \in Nat
    BY <1>1, <1>5, <1>8
  <2> QED BY <1>5, <1>8, <2>1 DEF LeavesOver
<1>10. w \in Nat /\ LeavesOver(z, w, a, v)
  <2>1. w * a = u * a + (t * d) * a /\ (t * d) * a = t * (d * a) /\ t * d \in Nat /\ u * a \in Nat
    BY <1>1, <1>5, <1>7
  <2>2. t * (d * a) = t * q /\ t * q \in Nat
    BY <1>1, <1>5
  <2> QED BY <1>5, <1>7, <2>1, <2>2 DEF LeavesOver
<1>11. z = LastStage(r)
  BY <1>2
<1> HIDE DEF h, w, z
<1>12. w % d = g
  BY <1>1, <1>8, <1>9, Divided
<1>13. z \div a = w
  BY <1>1, <1>7, <1>10, Divided
<1>14. DpRank(LastStage(r)) = g
  BY <1>3, <1>11, <1>12, <1>13
<1>15. DpRank(r) = g
  BY <1>3 DEF g, u
<1> QED BY <1>8, <1>14, <1>15 DEF d

\* The ranks that were dealt the same rows are a Dp-th of all.
LEMMA OwnersAre ==
  ASSUME cfg \in Configs, NEW u \in 0 .. Dp - 1, NEW S, S = {r \in Ranks : DpRank(r) = u}
  PROVE  Cardinality(S) * Dp = cfg.world
<1> DEFINE a == cfg.tp * cfg.sp
           d == Dp
           p == cfg.pp
<1>1. a \in Nat \ {0} /\ d \in Nat \ {0} /\ p \in Nat \ {0} /\ p * (d * a) = cfg.world
  BY MeshIs, KnownConfig DEF Meshed, Known
<1>2. S = LinesAt(p, d, a, u)
  <2>1. S = {x \in 0 .. cfg.world - 1 : (x \div a) % d = u}
    BY DEF Ranks, DpRank
  <2>2. LinesAt(p, d, a, u) = {x \in 0 .. p * (d * a) - 1 : (x \div a) % d = u}
    BY DEF LinesAt
  <2> QED BY <1>1, <2>1, <2>2
<1>3. u \in 0 .. d - 1
  OBVIOUS
<1> HIDE DEF a, d, p
<1>4. Cardinality(S) = p * a
  <2>1. Cardinality(LinesAt(p, d, a, u)) = p * a
    BY <1>1, <1>3, LinesOfBlocks
  <2> QED BY <1>2, <2>1
<1>5. (p * a) * d = p * (d * a)
  BY <1>1
<1> QED BY <1>1, <1>4, <1>5 DEF d

\* Step k is the one of mini-batch j in this epoch.
StepIs(c, k, epoch, j) ==
  /\ k \in 1 .. Minis(c) * c.epochs /\ epoch \in 0 .. c.epochs - 1 /\ j \in 1 .. Minis(c)
  /\ EpochOf(c, k) = epoch /\ MiniOf(c, k) = j /\ CeilDiv(k, Minis(c)) = epoch + 1

\* Every mini-batch of every epoch has its step.
LEMMA StepsAre ==
  ASSUME NEW c, Sized(c)
  PROVE  /\ \A k \in 1 .. Minis(c) * c.epochs : StepIs(c, k, EpochOf(c, k), MiniOf(c, k))
         /\ \A epoch \in 0 .. c.epochs - 1 : \A j \in 1 .. Minis(c) :
              \E k : StepIs(c, k, epoch, j)
         /\ \A k, l, epoch, j : StepIs(c, k, epoch, j) /\ StepIs(c, l, epoch, j) => k = l
<1> DEFINE m == Minis(c)
           E == c.epochs
<1>1. m \in Nat \ {0} /\ E \in Nat \ {0} /\ m * E = E * m /\ E * m \in Nat
  <2>1. m \in Nat \ {0} /\ E \in Nat \ {0}
    BY DEF Sized
  <2> HIDE DEF m, E
  <2> QED BY <2>1
<1>2. \A k : EpochOf(c, k) = (k - 1) \div m /\ MiniOf(c, k) = ((k - 1) % m) + 1
  BY DEF EpochOf, MiniOf
<1> HIDE DEF m, E
<1>3. ASSUME NEW epoch \in 0 .. E - 1, NEW j \in 1 .. m, NEW k, At(k, epoch, m, j)
      PROVE  /\ k \in 1 .. E * m /\ EpochOf(c, k) = epoch /\ MiniOf(c, k) = j
             /\ CeilDiv(k, m) = epoch + 1
  <2>1. k = epoch * m + j /\ epoch * m \in Nat /\ epoch \in Nat
    BY <1>1, <1>3 DEF At
  <2>2. k \in 1 .. E * m
    <3>1. epoch * m + j \in 1 .. E * m
      BY <1>1, LineAndPlace
    <3> QED BY <2>1, <3>1
  <2>3. EpochOf(c, k) = epoch /\ MiniOf(c, k) = j
    <3>1. (k - 1) \div m = epoch /\ (k - 1) % m = j - 1
      BY <1>1, <1>3, <2>1, LineOf DEF FoundAt
    <3> QED BY <1>1, <1>2, <3>1
  <2> DEFINE z == CeilDiv(k, m)
             y == epoch + 1
  <2>4. Ceiling(k, m, z)
    BY <1>1, <2>2, CeilDivIs
  <2>5. y \in Nat /\ y * m = epoch * m + m /\ y - 1 = epoch
    BY <1>1, <2>1
  <2> HIDE DEF z, y
  <2>6. z \in Nat /\ k <= z * m /\ (z = 0 \/ (z - 1) * m < k)
    BY <2>4 DEF Ceiling
  <2>7. ~(z < y)
    <3> SUFFICES ASSUME z < y PROVE FALSE
      OBVIOUS
    <3>1. z * m + m <= y * m
      BY <1>1, <2>5, <2>6, NextLine
    <3>2. z * m \in Nat
      BY <1>1, <2>6
    <3> QED BY <1>1, <2>1, <2>5, <2>6, <3>1, <3>2
  <2>8. ~(y < z)
    <3> SUFFICES ASSUME y < z PROVE FALSE
      OBVIOUS
    <3>1. y * m + m <= z * m
      BY <1>1, <2>5, <2>6, NextLine
    <3>2. (z - 1) * m = z * m - m /\ z * m \in Nat /\ y * m \in Nat
      BY <1>1, <2>5, <2>6
    <3>3. (z - 1) * m < k
      BY <2>5, <2>6
    <3>4. k <= y * m /\ k \in Nat
      BY <1>1, <2>1, <2>5
    <3> DEFINE f == z * m
               g == y * m
               h == (z - 1) * m
    <3>5. f \in Nat /\ g \in Nat /\ h = f - m /\ g + m <= f /\ h < k /\ k <= g
      BY <3>1, <3>2, <3>3, <3>4
    <3> HIDE DEF f, g, h
    <3> QED BY <1>1, <3>4, <3>5
  <2>9. z = epoch + 1
    BY <2>5, <2>6, <2>7, <2>8 DEF y
  <2> QED BY <2>2, <2>3, <2>9 DEF z
<1>4. ASSUME NEW k \in 1 .. E * m
      PROVE  EpochOf(c, k) \in 0 .. E - 1 /\ MiniOf(c, k) \in 1 .. m /\ At(k, EpochOf(c, k), m, MiniOf(c, k))
  <2>1. PICK epoch \in 0 .. E - 1, j \in 1 .. m : k = epoch * m + j
    <3>1. \A y \in 1 .. E * m : \E o \in 0 .. E - 1 : \E j \in 1 .. m : y = o * m + j
      BY <1>1, LineAndPlace
    <3> QED BY <3>1
  <2>2. At(k, epoch, m, j)
    BY <2>1 DEF At
  <2>3. EpochOf(c, k) = epoch /\ MiniOf(c, k) = j
    BY <1>3, <2>2
  <2> QED BY <2>2, <2>3
<1>5. ASSUME NEW k, NEW epoch, NEW j
      PROVE  StepIs(c, k, epoch, j) <=> epoch \in 0 .. E - 1 /\ j \in 1 .. m /\ At(k, epoch, m, j)
  <2>1. ASSUME StepIs(c, k, epoch, j) PROVE epoch \in 0 .. E - 1 /\ j \in 1 .. m /\ At(k, epoch, m, j)
    <3>1. k \in 1 .. E * m /\ EpochOf(c, k) = epoch /\ MiniOf(c, k) = j
      BY <1>1, <2>1 DEF StepIs, m, E
    <3> QED BY <1>4, <3>1
  <2>2. ASSUME epoch \in 0 .. E - 1, j \in 1 .. m, At(k, epoch, m, j) PROVE StepIs(c, k, epoch, j)
    <3>1. /\ k \in 1 .. E * m /\ EpochOf(c, k) = epoch /\ MiniOf(c, k) = j
          /\ CeilDiv(k, m) = epoch + 1
      BY <1>3, <2>2
    <3>2. k \in 1 .. m * E
      BY <1>1, <3>1
    <3> QED BY <2>2, <3>1, <3>2 DEF StepIs, m, E
  <2> QED BY <2>1, <2>2
<1>6. \A k \in 1 .. m * E : StepIs(c, k, EpochOf(c, k), MiniOf(c, k))
  BY <1>1, <1>4, <1>5
<1>7. ASSUME NEW epoch \in 0 .. E - 1, NEW j \in 1 .. m PROVE \E k : StepIs(c, k, epoch, j)
  <2>1. At(epoch * m + j, epoch, m, j)
    BY DEF At
  <2> QED BY <1>5, <2>1
<1>8. ASSUME NEW k, NEW l, NEW epoch, NEW j, StepIs(c, k, epoch, j), StepIs(c, l, epoch, j) PROVE k = l
  BY <1>5, <1>8 DEF At
<1> QED BY <1>6, <1>7, <1>8 DEF m, E

\* A mini-batch is followed by the next one, and the last by the first.
LEMMA NextMini ==
  ASSUME NEW c, Sized(c), NEW n \in Nat
  PROVE  MiniOf(c, n + 2) = (MiniOf(c, n + 1) % Minis(c)) + 1 /\ MiniOf(c, 1) = 1 /\ EpochOf(c, 1) = 0
<1> DEFINE m == Minis(c)
           q == n \div m
           t == n % m
           f == q + 1
<1>1. m \in Nat \ {0}
  BY DEF Sized
<1>2. \A k : MiniOf(c, k) = ((k - 1) % m) + 1 /\ EpochOf(c, k) = (k - 1) \div m
  BY DEF MiniOf, EpochOf
<1> HIDE DEF m
<1>3. q \in Nat /\ t \in 0 .. m - 1 /\ n = q * m + t
  BY <1>1, Lines
<1>4. (n + 1) - 1 = n /\ (n + 2) - 1 = n + 1
  OBVIOUS
<1>5. MiniOf(c, n + 1) = t + 1 /\ MiniOf(c, n + 2) = ((n + 1) % m) + 1
  BY <1>2, <1>4
<1>6. f \in Nat /\ f * m = q * m + m
  <2> HIDE DEF q
  <2> QED BY <1>1, <1>3
<1> HIDE DEF q, t, f
<1>7. (n + 1) % m = (t + 1) % m
  <2> DEFINE x == n + 1
             y == t + 1
  <2>1. x = q * m + y /\ q * m \in Nat /\ x = f * m + (y - m) /\ y \in Nat
    BY <1>1, <1>3, <1>6
  <2> HIDE DEF x, y
  <2>2. CASE y < m
    <3>1. y \in 0 .. m - 1 /\ LeavesOver(x, q, m, y) /\ LeavesOver(y, 0, m, y)
      BY <1>1, <2>1, <2>2 DEF LeavesOver
    <3>2. x % m = y /\ y % m = y
      BY <1>1, <1>3, <3>1, Divided
    <3> QED BY <3>2 DEF x, y
  <2>3. CASE ~(y < m)
    <3>1. y = m
      BY <1>1, <1>3, <2>1, <2>3 DEF y
    <3>2. 0 \in 0 .. m - 1 /\ LeavesOver(x, f, m, 0) /\ LeavesOver(y, 1, m, 0)
      BY <1>1, <1>6, <2>1, <3>1 DEF LeavesOver
    <3>3. x % m = 0 /\ y % m = 0
      BY <1>1, <1>6, <3>2, Divided
    <3> QED BY <3>3 DEF x, y
  <2> QED BY <2>2, <2>3
<1>8. MiniOf(c, 1) = 1 /\ EpochOf(c, 1) = 0
  <2>1. 1 - 1 = 0 /\ 0 \in 0 .. m - 1 /\ LeavesOver(0, 0, m, 0)
    BY <1>1 DEF LeavesOver
  <2>2. 0 % m = 0 /\ 0 \div m = 0
    BY <1>1, <2>1, Divided
  <2> QED BY <1>2, <2>1, <2>2
<1> QED BY <1>5, <1>7, <1>8 DEF m

\* Rank r takes row x of the batch in step k.
Takes(c, r, k, x) == \E i \in 1 .. RowsOfStep(c, k) : RowAt(c, r, k, i) = x

\* A rank there is.
OfMesh(c, r) == DealtTo(c, r) \in 0 .. DpOf(c) - 1

\* The rows of a step are rows of the batch, and no row stands twice among them.
LEMMA StepRowsAre ==
  ASSUME NEW c, Sized(c), NEW k \in 1 .. Minis(c) * c.epochs, NEW r, OfMesh(c, r)
  PROVE  /\ RowsOfStep(c, k) \in Nat
         /\ \A i \in 1 .. RowsOfStep(c, k) : RowAt(c, r, k, i) \in 1 .. Samples(c)
         /\ \A i, j \in 1 .. RowsOfStep(c, k) : RowAt(c, r, k, i) = RowAt(c, r, k, j) => i = j
<1> DEFINE d == DpOf(c)
           m == PerRank(c)
           l == PerMini(c)
           u == DealtTo(c, r)
           j == MiniOf(c, k)
           p == OrderIn(c, EpochOf(c, k))
           n == RowsOfStep(c, k)
           z(i) == (j - 1) * l + i
<1>1. /\ d \in Nat \ {0} /\ m \in Nat \ {0} /\ l \in Nat \ {0} /\ d * m = Samples(c)
      /\ u \in 0 .. d - 1 /\ n = PieceRows(m, l, j)
  BY DEF Sized, OfMesh, RowsOfStep
<1>2. StepIs(c, k, EpochOf(c, k), MiniOf(c, k))
  BY StepsAre
<1>3. j \in 1 .. CeilDiv(m, l) /\ EpochOf(c, k) \in Nat
  BY <1>2 DEF StepIs, Minis, Sized
<1>4. p \in Orders(m)
  BY <1>1, <1>3, OrderInIs
<1>5. \A i : RowAt(c, r, k, i) = u * m + p[z(i)]
  BY DEF RowAt
<1> HIDE DEF d, m, l, u, j, p, n
<1>6. n \in Nat
  BY <1>1, <1>3, PieceRowsAre
<1>7. ASSUME NEW i \in 1 .. n PROVE z(i) \in 1 .. m
  BY <1>1, <1>3, PiecesAre
<1>8. ASSUME NEW i \in 1 .. n, NEW h \in 1 .. n, z(i) = z(h) PROVE i = h
  <2> DEFINE a == (j - 1) * l
  <2>1. a \in Nat
    BY <1>1, <1>3, PieceRowsAre
  <2>2. a + i = a + h
    BY <1>8
  <2> HIDE DEF a
  <2> QED BY <1>6, <2>1, <2>2
<1> HIDE DEF z
<1>9. \A i \in 1 .. n : p[z(i)] \in 1 .. m
  BY <1>4, <1>7 DEF Orders
<1>10. ASSUME NEW i \in 1 .. n PROVE RowAt(c, r, k, i) \in 1 .. d * m
  BY <1>1, <1>5, <1>9, LineAndPlace
<1>11. ASSUME NEW i \in 1 .. n, NEW h \in 1 .. n, RowAt(c, r, k, i) = RowAt(c, r, k, h) PROVE i = h
  <2>1. u * m + p[z(i)] = u * m + p[z(h)]
    BY <1>5, <1>11
  <2>2. p[z(i)] = p[z(h)]
    <3> DEFINE a == p[z(i)]
               b == p[z(h)]
               e == u * m
    <3>1. a \in Int /\ b \in Int /\ e \in Int /\ e + a = e + b
      BY <1>1, <1>9, <2>1
    <3> HIDE DEF a, b, e
    <3>2. a = b
      BY <3>1
    <3> QED BY <3>2 DEF a, b
  <2>3. z(i) = z(h)
    BY <1>4, <1>7, <2>2 DEF Orders
  <2> QED BY <1>8, <2>3
<1> QED BY <1>1, <1>6, <1>10, <1>11 DEF n, d, m

\* The only one of some steps.
TheOnly(c, r, x, epoch, k0) ==
  {k \in 1 .. Minis(c) * c.epochs : Takes(c, r, k, x) /\ CeilDiv(k, Minis(c)) = epoch + 1} = {k0}

\* In every epoch one step takes a row, on the ranks it was dealt to and on no other.
LEMMA TakenOnce ==
  ASSUME NEW c, Sized(c), NEW u \in 0 .. DpOf(c) - 1, NEW y \in 1 .. PerRank(c),
         NEW x, At(x, u, PerRank(c), y), NEW r, OfMesh(c, r)
  PROVE  /\ \A k \in 1 .. Minis(c) * c.epochs : Takes(c, r, k, x) => DealtTo(c, r) = u
         /\ DealtTo(c, r) = u =>
              \A epoch \in 0 .. c.epochs - 1 : \E k0 : TheOnly(c, r, x, epoch, k0)
<1> DEFINE m == PerRank(c)
           l == PerMini(c)
           v == DealtTo(c, r)
           M == Minis(c)
           N == Minis(c) * c.epochs
           p(k) == OrderIn(c, EpochOf(c, k))
           z(k, i) == (MiniOf(c, k) - 1) * l + i
<1>1. /\ m \in Nat \ {0} /\ l \in Nat \ {0} /\ v \in Nat /\ u \in Nat /\ y \in 1 .. m
      /\ x = u * m + y /\ M = CeilDiv(m, l)
  BY DEF Sized, OfMesh, At, Minis
<1>2. \A k, i : RowAt(c, r, k, i) = v * m + p(k)[z(k, i)]
  BY DEF RowAt
<1>3. ASSUME NEW k \in 1 .. N
      PROVE  /\ StepIs(c, k, EpochOf(c, k), MiniOf(c, k)) /\ p(k) \in Orders(m)
             /\ MiniOf(c, k) \in 1 .. M
             /\ \A i \in 1 .. RowsOfStep(c, k) : z(k, i) \in 1 .. m
  <2>1. StepIs(c, k, EpochOf(c, k), MiniOf(c, k))
    BY StepsAre
  <2>2. EpochOf(c, k) \in Nat /\ MiniOf(c, k) \in 1 .. M
    BY <2>1 DEF StepIs, Sized
  <2>3. p(k) \in Orders(m)
    BY <1>1, <2>2, OrderInIs
  <2>4. \A i \in 1 .. RowsOfStep(c, k) : z(k, i) \in 1 .. m
    <3> DEFINE j == MiniOf(c, k)
    <3>1. j \in 1 .. CeilDiv(m, l) /\ RowsOfStep(c, k) = PieceRows(m, l, j)
      BY <1>1, <2>2 DEF RowsOfStep
    <3> HIDE DEF j, m, l
    <3>2. \A i \in 1 .. PieceRows(m, l, j) : (j - 1) * l + i \in 1 .. m
      BY <1>1, <3>1, PiecesAre
    <3> QED BY <3>1, <3>2 DEF j
  <2> QED BY <2>1, <2>2, <2>3, <2>4
<1> HIDE DEF m, l, v, N, M, p, z
<1>4. ASSUME NEW k \in 1 .. N, NEW i \in 1 .. RowsOfStep(c, k), RowAt(c, r, k, i) = x
      PROVE  v = u /\ p(k)[z(k, i)] = y
  <2> DEFINE a == p(k)[z(k, i)]
  <2>1. a \in 1 .. m
    BY <1>3 DEF Orders
  <2>2. v * m + a = u * m + y
    BY <1>1, <1>2, <1>4
  <2> HIDE DEF a
  <2>3. v = u /\ a = y
    BY <1>1, <2>1, <2>2, LineAndPlace
  <2> QED BY <2>3 DEF a
<1>5. ASSUME NEW k \in 1 .. N, Takes(c, r, k, x) PROVE v = u
  BY <1>4, <1>5 DEF Takes
<1>6. ASSUME v = u, NEW epoch \in 0 .. c.epochs - 1 PROVE \E k0 : TheOnly(c, r, x, epoch, k0)
  <2> DEFINE o == OrderIn(c, epoch)
  <2>1. epoch \in Nat
    BY DEF Sized
  <2>2. o \in Orders(m)
    BY <1>1, <2>1, OrderInIs DEF m
  <2>3. PICK w \in 1 .. m : o[w] = y
    BY <1>1, <2>2 DEF Orders
  <2>4. \A a \in 1 .. m : o[a] = y => a = w
    BY <2>2, <2>3 DEF Orders
  <2>5. PICK j, i : InPiece(m, l, w, j, i)
    BY <1>1, PiecesAre
  <2>6. j \in 1 .. M
    BY <1>1, <2>5 DEF InPiece
  <2>7. PICK k0 : StepIs(c, k0, epoch, j)
    BY <2>6, StepsAre DEF M
  <2>8. k0 \in 1 .. N /\ EpochOf(c, k0) = epoch /\ MiniOf(c, k0) = j /\ CeilDiv(k0, M) = epoch + 1
    BY <2>7 DEF StepIs, N, M
  <2>9. Takes(c, r, k0, x)
    <3>1. i \in 1 .. RowsOfStep(c, k0)
      BY <2>5, <2>8 DEF RowsOfStep, InPiece, m, l
    <3>2. z(k0, i) = w /\ p(k0) = o
      BY <2>5, <2>8 DEF InPiece, At, z, p
    <3>3. RowAt(c, r, k0, i) = u * m + y
      BY <1>2, <1>6, <2>3, <3>2
    <3> QED BY <1>1, <3>1, <3>3 DEF Takes
  <2>10. ASSUME NEW k \in 1 .. N, Takes(c, r, k, x), CeilDiv(k, M) = epoch + 1 PROVE k = k0
    <3>1. StepIs(c, k, EpochOf(c, k), MiniOf(c, k)) /\ MiniOf(c, k) \in 1 .. M
      BY <1>3
    <3>2. EpochOf(c, k) = epoch
      <4> DEFINE e == EpochOf(c, k)
      <4>1. e \in Int /\ CeilDiv(k, M) = e + 1
        BY <3>1 DEF StepIs, M
      <4> HIDE DEF e
      <4>2. e = epoch
        BY <2>1, <2>10, <4>1
      <4> QED BY <4>2 DEF e
    <3>3. PICK h \in 1 .. RowsOfStep(c, k) : RowAt(c, r, k, h) = x
      BY <2>10 DEF Takes
    <3>4. p(k)[z(k, h)] = y /\ z(k, h) \in 1 .. m /\ p(k) = o
      BY <1>3, <1>4, <3>2, <3>3 DEF p
    <3>5. z(k, h) = w
      BY <2>4, <3>4
    <3>6. InPiece(m, l, w, MiniOf(c, k), h)
      <4>1. MiniOf(c, k) \in 1 .. CeilDiv(m, l) /\ h \in 1 .. PieceRows(m, l, MiniOf(c, k))
        BY <1>1, <3>1 DEF RowsOfStep, m, l
      <4>2. At(w, MiniOf(c, k) - 1, l, h)
        BY <3>5 DEF At, z
      <4> QED BY <4>1, <4>2 DEF InPiece
    <3>7. MiniOf(c, k) = j
      BY <1>1, <2>5, <3>6, PiecesAre
    <3> QED BY <2>7, <3>1, <3>2, <3>7, StepsAre
  <2>11. {k \in 1 .. N : Takes(c, r, k, x) /\ CeilDiv(k, M) = epoch + 1} = {k0}
    BY <2>8, <2>9, <2>10
  <2> QED BY <2>11 DEF TheOnly, N, M
<1> QED BY <1>5, <1>6 DEF v, N

-----------------------------------------------------------------------------
\* The rows a mini-batch brings to the ranks.

\* Rank r is dealt rows next to each other.
LEMMA DealtRows ==
  ASSUME cfg \in Configs, NEW n \in Nat, n % Dp = 0, NEW data, Share(data, n), NEW r \in Ranks
  PROVE  \A i \in 1 .. n \div Dp :
           DispatchTo(data)[r].responses[i] = data.responses[DpRank(r) * (n \div Dp) + i]
<1> DEFINE d == Dp
           m == n \div d
           x == Chunk(data, d)
           u == DpRank(r)
           w == u + 1
<1>1. DispatchTo(data)[r] = x[w]
  BY DEF DispatchTo
<1>2. d \in Nat \ {0} /\ u \in 0 .. d - 1
  BY MeshIs, DealtToIs DEF Meshed
<1>3. Chunked(data, d, m, x)
  BY <1>2, ChunkIs DEF Share
<1> HIDE DEF d, m, x, u
<1>4. w \in 1 .. d /\ w - 1 = u
  BY <1>2
<1> HIDE DEF w
<1>5. \A i \in 1 .. m : x[w].responses[i] = data.responses[(w - 1) * m + i]
  BY <1>3, <1>4 DEF Chunked, Share
<1> QED BY <1>1, <1>4, <1>5 DEF d, m, u

\* So are critic and actor.
LEMMA ShareRows ==
  ASSUME cfg \in Configs, Dealable, NEW r \in Ranks, NEW i \in 1 .. OfRank
  PROVE  /\ CriticShare(r).responses[i] = batch.responses[DpRank(r) * OfRank + i]
         /\ UpdateShare(r).responses[i] = batch.responses[DpRank(r) * OfRank + i]
<1> DEFINE n == Samples(cfg)
           m == OfRank
           data == DispatchTo(batch)[r]
           mask == MaskColumn(data, OwnSelection(r, data))
           b == Select(batch, {"responses", "values", "returns"})
           x == DpRank(r) * m + i
<1>1. n \in Nat /\ n % Dp = 0 /\ m = n \div Dp /\ i \in 1 .. m
  BY NumbersAre DEF Dealable, OfRank
<1>2. Share(batch, n)
  BY DEF Dealable, Held, Share
<1>3. Share(b, n) /\ b.responses = batch.responses
  <2>1. Share(b, n)
    BY <1>1, <1>2, SelectShare
  <2>2. b.responses = batch.responses
    BY <1>2 DEF Share, Select
  <2> QED BY <2>1, <2>2
<1>4. CriticShare(r) = DispatchTo(b)[r]
  BY DEF CriticShare
<1>5. UpdateShare(r).responses = data.responses
  <2>1. "responses" \in DOMAIN data
    <3>1. Given(cfg, DispatchTo(batch), n \div Dp)
      BY <1>1, <1>2, DispatchShares
    <3> QED BY <3>1 DEF Given, Share, Ranks
  <2>2. UpdateShare(r) = IF "js_token_selection_mask" \in DOMAIN data THEN data
                         ELSE Union(data, [js_token_selection_mask |-> mask])
    BY DEF UpdateShare
  <2> HIDE DEF data, mask
  <2>3. Union(data, [js_token_selection_mask |-> mask]).responses = data.responses
    BY <2>1 DEF Union
  <2> QED BY <2>2, <2>3
<1> HIDE DEF n, m, b
<1>6. DispatchTo(b)[r].responses[i] = b.responses[x]
  BY <1>1, <1>3, DealtRows
<1>7. data.responses[i] = batch.responses[x]
  BY <1>1, <1>2, DealtRows
<1> QED BY <1>3, <1>4, <1>5, <1>6, <1>7 DEF m

\* The rows of mini-batch k of an epoch, on rank r.
PieceOf(c, B, k, epoch, r, share) ==
  /\ Share(share, PieceRows(PerRank(c), PerMini(c), k))
  /\ \A i \in 1 .. PieceRows(PerRank(c), PerMini(c), k) :
       share.responses[i] = B[DealtTo(c, r) * PerRank(c) + OrderIn(c, epoch)[(k - 1) * PerMini(c) + i]]

\* They are those make_iterator and split give it.
LEMMA MiniBatchRows ==
  ASSUME cfg \in Configs, Dealable, NEW k \in 1 .. MiniBatches, NEW epoch \in Nat, NEW model,
         NEW r \in Ranks
  PROVE  PieceOf(cfg, batch.responses, k, epoch, r, MiniBatch(k, epoch, model)[r])
<1> DEFINE n == PerRank(cfg)
           l == PerMini(cfg)
           m == PieceRows(n, l, k)
           o == OrderIn(cfg, epoch)
           B == batch.responses
           u == DealtTo(cfg, r)
           share == IF model = "critic" THEN CriticShare(r) ELSE UpdateShare(r)
           drawn == IF Megatron THEN Reorder(share, EpochOrder(Rows(share), epoch)) ELSE share
           g == Split(drawn, l)[k]
<1>1. /\ n = OfRank /\ l = LocalMini /\ n \in Nat \ {0} /\ l \in Nat \ {0} /\ k \in 1 .. CeilDiv(n, l)
      /\ u = DpRank(r)
  BY SizedIs, NumbersAre DEF SameSizes
<1>2. MiniBatch(k, epoch, model)[r] = g
  BY <1>1 DEF MiniBatch
<1>3. Share(share, n)
  BY <1>1, UpdateShares
<1>4. ASSUME NEW i \in 1 .. n PROVE share.responses[i] = B[u * n + i]
  BY <1>1, ShareRows
<1>5. o \in Orders(n)
  BY <1>1, OrderInIs
<1>6. o = IF Megatron /\ cfg.shuffle THEN Turned(n, epoch) ELSE [i \in 1 .. n |-> i]
  BY DEF OrderIn, Megatron
<1> HIDE DEF n, l, share, o, B, u
<1>7. Share(drawn, n) /\ \A i \in 1 .. n : drawn.responses[i] = B[u * n + o[i]]
  <2>1. CASE Megatron
    <3>1. Rows(share) = n
      BY <1>1, <1>3, TableRows DEF Share
    <3> DEFINE q == EpochOrder(n, epoch)
    <3>2. epoch \in Int
      OBVIOUS
    <3>3. /\ Share(Reorder(share, q), n)
          /\ \A i \in 1 .. n : Reorder(share, q).responses[i] = share.responses[q[i]]
      BY <1>1, <1>3, <3>2, DrawnIs
    <3>4. \A i \in 1 .. n : q[i] = o[i]
      BY <1>6, <2>1 DEF EpochOrder, Turned
    <3> HIDE DEF q
    <3>5. \A i \in 1 .. n : o[i] \in 1 .. n
      BY <1>5 DEF Orders
    <3>6. drawn = Reorder(share, q)
      BY <2>1, <3>1 DEF q
    <3> HIDE DEF drawn
    <3> QED BY <1>4, <3>3, <3>4, <3>5, <3>6
  <2>2. CASE ~Megatron
    <3>1. \A i \in 1 .. n : o[i] = i
      BY <1>6, <2>2
    <3> QED BY <1>3, <1>4, <2>2, <3>1
  <2> QED BY <2>1, <2>2
<1> HIDE DEF drawn
<1>8. Share(g, m) /\ \A i \in 1 .. m : g.responses[i] = drawn.responses[(k - 1) * l + i]
  BY <1>1, <1>7, PieceIs
<1>9. \A i \in 1 .. m : (k - 1) * l + i \in 1 .. n
  BY <1>1, PiecesAre
<1> HIDE DEF g
<1>10. \A i \in 1 .. m : g.responses[i] = B[u * n + o[(k - 1) * l + i]]
  BY <1>7, <1>8, <1>9
<1> QED BY <1>2, <1>8, <1>10 DEF PieceOf, m, n, l, o, B, u

\* So the ranks hold the rows of a step when it begins.
LEMMA StepBegins ==
  ASSUME cfg \in Configs, Dealable, NEW k \in 1 .. Minis(cfg) * cfg.epochs, NEW model, NEW next,
         Begin(MiniBatch(MiniOf(cfg, k), EpochOf(cfg, k), model), next), phase' # "raised"
  PROVE  phase' = next /\ Holds(cfg, batch.responses, work', k)
<1> DEFINE g == MiniBatch(MiniOf(cfg, k), EpochOf(cfg, k), model)
           B == batch.responses
           n == RowsOfStep(cfg, k)
<1>1. Sized(cfg) /\ SameSizes(cfg)
  BY SizedIs
<1>2. StepIs(cfg, k, EpochOf(cfg, k), MiniOf(cfg, k))
  BY <1>1, StepsAre
<1>3. MiniOf(cfg, k) \in 1 .. MiniBatches /\ EpochOf(cfg, k) \in Nat
  BY <1>1, <1>2 DEF StepIs, SameSizes, Sized
<1>4. \A r \in Ranks : PieceOf(cfg, B, MiniOf(cfg, k), EpochOf(cfg, k), r, g[r])
  BY <1>3, MiniBatchRows
<1>5. phase' = next /\ work' = MicroBatched(g)
  BY DEF Begin
<1> HIDE DEF g
<1>6. \A r \in Ranks : work'[r].data = g[LastStage(r)]
  BY <1>5 DEF MicroBatched
<1>7. ASSUME NEW r \in Ranks
      PROVE  /\ Table(work'[r].data, n)
             /\ work'[r].data.responses = [i \in 1 .. n |-> B[RowAt(cfg, r, k, i)]]
  <2> DEFINE s == LastStage(r)
             x == work'[r].data
  <2>1. s \in Ranks /\ DealtTo(cfg, s) = DealtTo(cfg, r)
    BY <1>1, LastStageIs, DealtToIs DEF SameSizes
  <2>2. PieceOf(cfg, B, MiniOf(cfg, k), EpochOf(cfg, k), s, x)
    BY <1>4, <1>6, <2>1
  <2> HIDE DEF s, x
  <2>3. Share(x, n) /\ \A i \in 1 .. n : x.responses[i] = B[RowAt(cfg, r, k, i)]
    BY <2>1, <2>2 DEF PieceOf, RowAt, RowsOfStep
  <2>4. Table(x, n) /\ Column(x.responses, n)
    BY <2>3 DEF Share, Table
  <2>5. x.responses = [i \in 1 .. n |-> B[RowAt(cfg, r, k, i)]]
    BY <2>3, <2>4 DEF Column
  <2> QED BY <2>4, <2>5 DEF x
<1> QED BY <1>5, <1>7 DEF Holds, Ranks, n, B

-----------------------------------------------------------------------------
\* The invariant, step by step: up to the trained batch.

TrainInv == WaitInv /\ TrainRest

\* Nothing but the steps made so far matters where fit has ended.
LEMMA EndTrains ==
  ASSUME phase' \in {"raised", "failed"}, NoneTwice(cfg', steps')
  PROVE  TrainRest'
<1>1. /\ phase' \notin Complete /\ phase' \notin BeforeSteps /\ phase' # "generating" /\ phase' # "done"
      /\ phase' \notin {"update_critic", "criticized", "ranked"} /\ phase' # "update_critic"
      /\ phase' \notin {"criticized", "ranked", "update"} /\ phase' # "update"
  BY DEF Complete, AfterBalance, Forwards, BeforeSteps
<1> QED BY <1>1 DEF TrainRest

\* Before critic and actor are trained all that matters is that the responses stay.
LEMMA EarlyTrains ==
  ASSUME phase' \in BeforeSteps \cap Complete, NoSteps(steps'), NoneTwice(cfg', steps'),
         OwnIds(batch'.responses, Samples(cfg'))
  PROVE  TrainRest'
<1>1. /\ phase' \in BeforeSteps /\ phase' \in Complete /\ phase' # "generating" /\ phase' # "done"
      /\ phase' \notin {"update_critic", "criticized", "ranked"} /\ phase' # "update_critic"
      /\ phase' \notin {"criticized", "ranked", "update"} /\ phase' # "update"
  BY DEF Complete, AfterBalance, Forwards, BeforeSteps
<1> QED BY <1>1 DEF TrainRest

\* As they do in most steps.
LEMMA StayTrains ==
  ASSUME TrainInv, phase \in BeforeSteps \cap Complete, phase' \in (BeforeSteps \cap Complete) \cup {"raised"},
         cfg' = cfg, steps' = steps, phase' # "raised" => batch'.responses = batch.responses
  PROVE  TrainRest'
<1>1. NoSteps(steps) /\ NoneTwice(cfg, steps) /\ OwnIds(batch.responses, Samples(cfg))
  BY DEF TrainInv, TrainRest
<1>2. NoSteps(steps') /\ NoneTwice(cfg', steps')
  BY <1>1
<1>3. CASE phase' = "raised"
  BY <1>2, <1>3, EndTrains
<1>4. CASE phase' # "raised"
  <2>1. OwnIds(batch'.responses, Samples(cfg'))
    BY <1>1, <1>4
  <2> QED BY <1>2, <1>4, <2>1, EarlyTrains
<1> QED BY <1>3, <1>4

\* The workers are numbered through.
LEMMA CallGenerateTrains ==
  ASSUME TrainInv, BalanceInv', CallGenerate
  PROVE  TrainRest'
<1> DEFINE k == cfg.workers
           own == Chunk(Select(PaddedPrompts, {"uid"}), k)
           size == Rows(PaddedPrompts) \div k
<1>1. /\ phase = "start" /\ phase' = "generating" /\ cfg' = cfg /\ steps' = steps
      /\ work' = [w \in 1 .. k |-> [first |-> (w - 1) * size, data |-> own[w]]]
  BY DEF CallGenerate
<1>2. cfg \in Configs /\ NoneTwice(cfg, steps) /\ NoSteps(steps)
  BY <1>1 DEF TrainInv, TrainRest, WaitInv, BalanceInv, BeforeSteps
<1>3. k \in Nat \ {0} /\ Samples(cfg) \in Nat
  BY <1>2, KnownConfig
<1>4. PICK m \in Nat : Working(cfg, work', m)
  BY <1>1 DEF BalanceInv, Generating
<1>5. ASSUME ~cfg.validate PROVE size = m
  <2>1. PICK r \in Nat : Prompted(r)
    BY <1>2, PaddedPromptsAre
  <2>2. Rows(PaddedPrompts) = Samples(cfg)
    BY <1>5, <2>1, TableRows DEF Prompted
  <2>3. k * m = Samples(cfg)
    BY <1>4, <1>5 DEF Working
  <2> DEFINE n == Samples(cfg)
  <2>4. n \in Nat /\ m * k = n /\ size = n \div k
    BY <1>3, <2>2, <2>3
  <2> HIDE DEF n, size, k
  <2> QED BY <1>3, <2>4, ShareOnly
<1>6. ASSUME NEW w \in 1 .. k PROVE "responses" \notin DOMAIN own[w]
  BY DEF Chunk, Slice, Select
<1>7. ASSUME NEW w \in 1 .. k
      PROVE  work'[w].first = (w - 1) * size /\ work'[w].data = own[w] /\ Rows(work'[w].data) = m
  <2>1. work'[w].first = (w - 1) * size /\ work'[w].data = own[w]
    BY <1>1
  <2>2. Table(work'[w].data, m)
    BY <1>4 DEF Working, Asked
  <2> QED BY <2>1, <2>2, TableRows
<1> HIDE DEF own, size
<1>8. Counting(cfg, work')
  BY <1>5, <1>6, <1>7 DEF Counting
<1>9. /\ phase' \notin Complete /\ phase' # "done"
      /\ phase' \notin {"update_critic", "criticized", "ranked"} /\ phase' # "update_critic"
      /\ phase' \notin {"criticized", "ranked", "update"} /\ phase' # "update"
  BY <1>1 DEF Complete, AfterBalance, Forwards
<1> QED BY <1>1, <1>2, <1>8, <1>9 DEF TrainRest

\* A worker numbers its responses from its own first row.
LEMMA GenerateTrains ==
  ASSUME TrainInv, phase = "generating", NEW w \in DOMAIN work, Generate(w)
  PROVE  TrainRest'
<1>1. cfg' = cfg /\ phase' = phase /\ steps' = steps /\ Counting(cfg, work) /\ NoneTwice(cfg, steps) /\ NoSteps(steps)
  BY DEF Generate, TrainInv, TrainRest, BeforeSteps
<1>2. PICK m \in Nat : Working(cfg, work, m)
  BY DEF TrainInv, WaitInv, BalanceInv, Generating
<1>3. /\ w \in 1 .. cfg.workers /\ DOMAIN work = 1 .. cfg.workers
      /\ work[w] = [first |-> work[w].first, data |-> work[w].data]
      /\ Table(work[w].data, m) /\ "uid" \in DOMAIN work[w].data
  BY <1>2 DEF Working, Asked
<1>4. Rows(work[w].data) = m
  BY <1>3, TableRows
<1>5. PICK shapes \in [1 .. m -> Shapes] :
        work' = [work EXCEPT ![w].data =
                   [uid |-> @.uid,
                    responses |-> [i \in DOMAIN shapes |-> [id       |-> work[w].first + i,
                                                            source   |-> work[w].data.uid[i],
                                                            prompt   |-> shapes[i].prompt,
                                                            response |-> shapes[i].response,
                                                            valid    |-> shapes[i].valid]]]]
  BY <1>4 DEF Generate
<1> DEFINE rows == [i \in 1 .. m |-> [id       |-> work[w].first + i,
                                      source   |-> work[w].data.uid[i],
                                      prompt   |-> shapes[i].prompt,
                                      response |-> shapes[i].response,
                                      valid    |-> shapes[i].valid]]
           data == [uid |-> work[w].data.uid, responses |-> rows]
<1>6. work' = [work EXCEPT ![w].data = data]
  BY <1>3, <1>5
<1>7. \A i \in 1 .. m : rows[i].id = work[w].first + i
  OBVIOUS
<1>8. Column(rows, m)
  BY DEF Column
<1> HIDE DEF rows
<1>9. DOMAIN data = {"uid", "responses"} /\ data.uid = work[w].data.uid /\ data.responses = rows
  OBVIOUS
<1> HIDE DEF data
<1>10. Rows(data) = m
  <2>1. Column(data.uid, m)
    BY <1>3, <1>9 DEF Table
  <2>2. Table(data, m)
    BY <1>8, <1>9, <2>1 DEF Table
  <2> QED BY <2>2, TableRows
<1>11. Counting(cfg, work')
  <2> SUFFICES ASSUME ~cfg.validate, NEW x \in 1 .. cfg.workers
               PROVE  /\ work'[x].first = (x - 1) * Rows(work'[x].data)
                      /\ "responses" \in DOMAIN work'[x].data =>
                           \A i \in 1 .. Rows(work'[x].data) :
                             work'[x].data.responses[i].id = work'[x].first + i
    BY DEF Counting
  <2>1. /\ work[x].first = (x - 1) * Rows(work[x].data)
        /\ "responses" \in DOMAIN work[x].data =>
             \A i \in 1 .. Rows(work[x].data) : work[x].data.responses[i].id = work[x].first + i
    BY <1>1 DEF Counting
  <2>2. CASE x = w
    <3>1. work'[x].first = work[w].first /\ work'[x].data = data
      BY <1>3, <1>6, <2>2
    <3> QED BY <1>4, <1>7, <1>9, <1>10, <2>1, <2>2, <3>1
  <2>3. CASE x # w
    <3>1. work'[x] = work[x]
      BY <1>3, <1>6, <2>3
    <3> QED BY <2>1, <3>1
  <2> QED BY <2>2, <2>3
<1>12. /\ phase' = "generating" /\ phase' \notin Complete /\ phase' # "done"
       /\ phase' \notin {"update_critic", "criticized", "ranked"} /\ phase' # "update_critic"
       /\ phase' \notin {"criticized", "ranked", "update"} /\ phase' # "update"
  BY <1>1 DEF Complete, AfterBalance, Forwards
<1> QED BY <1>1, <1>11, <1>12 DEF TrainRest

\* So all responses are numbered through.
LEMMA CollectGenerateTrains ==
  ASSUME TrainInv, CollectGenerate
  PROVE  TrainRest'
<1>1. /\ phase = "generating" /\ cfg' = cfg /\ steps' = steps /\ NoneTwice(cfg, steps) /\ NoSteps(steps)
      /\ Counting(cfg, work) /\ BalanceInv
  BY DEF CollectGenerate, TrainInv, TrainRest, WaitInv, BeforeSteps
<1>2. CASE cfg.validate
  <2>1. phase' = "done"
    BY <1>2 DEF CollectGenerate
  <2>2. phase' \notin Complete /\ phase' \notin BeforeSteps
    BY <2>1 DEF Complete, AfterBalance, Forwards, BeforeSteps
  <2> QED BY <1>1, <1>2, <2>1, <2>2 DEF TrainRest
<1>3. CASE ~cfg.validate
  <2> DEFINE k == cfg.workers
             n == Samples(cfg)
  <2>1. phase' = "generated"
    BY <1>3 DEF CollectGenerate
  <2>2. PICK m \in Nat : \E all : PutTogether(cfg, work, m, all) /\ batch' = Union(batch, all)
    BY <1>1, <1>3, PutTogetherIs
  <2>3. PICK all : PutTogether(cfg, work, m, all) /\ batch' = Union(batch, all)
    BY <2>2
  <2>4. batch'.responses = all.responses
    BY <2>3 DEF PutTogether, Union
  <2>5. m \in Nat \ {0} /\ k * m = n /\ k \in Nat
    <3>1. k \in Nat
      BY <1>1, KnownConfig DEF BalanceInv
    <3> QED BY <2>3, <3>1 DEF PutTogether
  <2>6. ASSUME NEW w \in 1 .. k, NEW i \in 1 .. m PROVE all.responses[(w - 1) * m + i].id = (w - 1) * m + i
    <3>1. all.responses[(w - 1) * m + i] = work[w].data.responses[i] /\ "responses" \in DOMAIN work[w].data
      BY <2>3 DEF PutTogether
    <3>2. Rows(work[w].data) = m
      <4>1. Table(work[w].data, m)
        BY <2>3 DEF PutTogether, Working, Asked
      <4> QED BY <4>1, TableRows
    <3>3. work[w].first = (w - 1) * m /\ work[w].data.responses[i].id = work[w].first + i
      BY <1>1, <1>3, <3>1, <3>2 DEF Counting
    <3> QED BY <3>1, <3>3
  <2> HIDE DEF k, n
  <2>7. ASSUME NEW x \in 1 .. n PROVE all.responses[x].id = x
    <3>1. \A y \in 1 .. k * m : \E a \in 0 .. k - 1 : \E i \in 1 .. m : y = a * m + i
      BY <2>5, LineAndPlace
    <3>2. PICK a \in 0 .. k - 1, i \in 1 .. m : x = a * m + i
      BY <2>5, <3>1
    <3> DEFINE w == a + 1
    <3>3. w \in 1 .. k /\ w - 1 = a
      BY <2>5
    <3> HIDE DEF w
    <3> QED BY <2>6, <3>2, <3>3
  <2>8. OwnIds(batch'.responses, Samples(cfg'))
    BY <1>1, <2>4, <2>7 DEF OwnIds, n
  <2>9. phase' \in BeforeSteps \cap Complete
    BY <2>1 DEF BeforeSteps, Complete
  <2> QED BY <1>1, <2>8, <2>9, EarlyTrains
<1> QED BY <1>2, <1>3

\* Balancing moves every response, and makes none anew.
LEMMA BalanceTrains ==
  ASSUME TrainInv, Balance
  PROVE  TrainRest'
<1>1. phase = "generated" /\ phase' = "balanced" /\ cfg' = cfg /\ steps' = steps /\ BalanceInv
  BY DEF Balance, TrainInv, WaitInv
<1>2. phase \in BeforeSteps \cap Complete /\ phase' \in BeforeSteps \cap Complete
  BY <1>1 DEF BeforeSteps, Complete
<1>3. NoSteps(steps) /\ NoneTwice(cfg, steps) /\ OwnIds(batch.responses, Samples(cfg))
  BY <1>2 DEF TrainInv, TrainRest
<1>4. CASE cfg.balance
  <2> DEFINE n == Samples(cfg)
             order == BalancedOrder(Lengths(batch), cfg.world)
  <2>1. order \in Orders(n) /\ Picked(batch, order, n, batch')
    BY <1>1, <1>4, BalanceMoves
  <2>2. "responses" \in DOMAIN batch
    BY <1>1 DEF BalanceInv, Held
  <2> HIDE DEF n, order
  <2>3. \A i \in 1 .. n : order[i] \in 1 .. n /\ batch'.responses[i] = batch.responses[order[i]]
    BY <2>1, <2>2 DEF Orders, Picked
  <2>4. \A i, j \in 1 .. n : order[i] = order[j] => i = j
    BY <2>1 DEF Orders
  <2>5. OwnIds(batch'.responses, n)
    BY <1>3, <2>3, <2>4 DEF OwnIds, n
  <2>6. OwnIds(batch'.responses, Samples(cfg')) /\ NoSteps(steps') /\ NoneTwice(cfg', steps')
    BY <1>1, <1>3, <2>5 DEF n
  <2> QED BY <1>2, <2>6, EarlyTrains
<1>5. CASE ~cfg.balance
  <2>1. batch' = batch
    BY <1>5 DEF Balance
  <2> QED BY <1>1, <1>2, <2>1, StayTrains
<1> QED BY <1>4, <1>5

\* What is computed of the batch is joined to it, and changes none of its responses.
LEMMA DriverTrains ==
  ASSUME TrainInv,
         \/ CallLogProb \/ ComputeLogProb \/ CollectLogProb \/ CallValues \/ ComputeValues \/ CollectValues
         \/ ComputeAdvantage
  PROVE  TrainRest'
<1> DEFINE Early == BeforeSteps \cap Complete
<1>1. \A p \in {"balanced", "log_prob", "scored", "values", "valued", "credited"} : p \in Early
  BY DEF BeforeSteps, Complete, AfterBalance, Forwards
<1> HIDE DEF Early
<1>2. ASSUME NEW shares, NEW next \in Early, Begin(shares, next) PROVE phase' \in Early \cup {"raised"}
  BY <1>2 DEF Begin
<1>3. ASSUME NEW o, CanUnion(batch, o), "responses" \in DOMAIN batch, batch' = Union(batch, o)
      PROVE  batch'.responses = batch.responses
  BY <1>3 DEF CanUnion, Union
<1>4. phase \in AfterBalance => cfg \in Configs /\ Dealable /\ "responses" \in DOMAIN batch
  BY InTraining DEF TrainInv, Dealable, Held
<1>5. CASE CallLogProb
  <2>1. /\ phase = "balanced" /\ Begin(DispatchTo(Select(batch, {"responses"})), "log_prob")
        /\ cfg' = cfg /\ steps' = steps /\ batch' = batch
    BY <1>5 DEF CallLogProb
  <2>2. phase \in Early /\ phase' \in Early \cup {"raised"}
    BY <1>1, <1>2, <2>1
  <2> QED BY <2>1, <2>2, StayTrains DEF Early
<1>6. CASE ComputeLogProb
  <2>1. phase = "log_prob" /\ phase' = phase /\ cfg' = cfg /\ steps' = steps /\ batch' = batch
    BY <1>6 DEF ComputeLogProb
  <2>2. phase \in Early /\ phase' \in Early \cup {"raised"}
    BY <1>1, <2>1
  <2> QED BY <2>1, <2>2, StayTrains DEF Early
<1>7. CASE CollectLogProb
  <2>1. /\ phase = "log_prob" /\ phase' = "scored" /\ cfg' = cfg /\ steps' = steps
        /\ \E o : CanUnion(batch, o) /\ batch' = Union(batch, o)
    BY <1>7 DEF CollectLogProb
  <2>2. phase \in Early /\ phase' \in Early \cup {"raised"} /\ phase \in AfterBalance
    BY <1>1, <2>1 DEF AfterBalance, Forwards
  <2>3. batch'.responses = batch.responses
    BY <1>3, <1>4, <2>1, <2>2
  <2> QED BY <2>1, <2>2, <2>3, StayTrains DEF Early
<1>8. CASE CallValues
  <2>1. /\ phase = "scored" /\ Begin(DispatchTo(Select(batch, {"responses"})), "values")
        /\ cfg' = cfg /\ steps' = steps /\ batch' = batch
    BY <1>8 DEF CallValues
  <2>2. phase \in Early /\ phase' \in Early \cup {"raised"}
    BY <1>1, <1>2, <2>1
  <2> QED BY <2>1, <2>2, StayTrains DEF Early
<1>9. CASE ComputeValues
  <2>1. phase = "values" /\ phase' = phase /\ cfg' = cfg /\ steps' = steps /\ batch' = batch
    BY <1>9 DEF ComputeValues
  <2>2. phase \in Early /\ phase' \in Early \cup {"raised"}
    BY <1>1, <2>1
  <2> QED BY <2>1, <2>2, StayTrains DEF Early
<1>10. CASE CollectValues
  <2>1. /\ phase = "values" /\ phase' = "valued" /\ cfg' = cfg /\ steps' = steps
        /\ \E o : CanUnion(batch, o) /\ batch' = Union(batch, o)
    BY <1>10 DEF CollectValues
  <2>2. phase \in Early /\ phase' \in Early \cup {"raised"} /\ phase \in AfterBalance
    BY <1>1, <2>1 DEF AfterBalance, Forwards
  <2>3. batch'.responses = batch.responses
    BY <1>3, <1>4, <2>1, <2>2
  <2> QED BY <2>1, <2>2, <2>3, StayTrains DEF Early
<1>11. CASE ComputeAdvantage
  <2> DEFINE o == Estimate(cfg.estimator, EstimatorData)
  <2>1. /\ phase \in {"scored", "valued"} /\ phase' = "credited" /\ cfg' = cfg /\ steps' = steps
        /\ batch' = Union(batch, o)
    BY <1>11 DEF ComputeAdvantage
  <2>2. phase \in Early /\ phase' \in Early \cup {"raised"} /\ phase \in AfterBalance
    BY <1>1, <2>1 DEF AfterBalance
  <2>3. Credited(o, Samples(cfg))
    BY <1>4, <2>2, AdvantageIs
  <2> HIDE DEF o
  <2>4. batch'.responses = batch.responses
    BY <1>4, <2>1, <2>2, <2>3 DEF Credited, Union
  <2> QED BY <2>1, <2>2, <2>4, StayTrains DEF Early
<1> QED BY <1>5, <1>6, <1>7, <1>8, <1>9, <1>10, <1>11

\* Ranking adds columns as well.
LEMMA RankTrains ==
  ASSUME TrainInv, Rank
  PROVE  TrainRest'
<1> DEFINE x == [i \in 1 .. Rows(batch) |->
                   [t \in 1 .. ResponseLength |-> Divergence(batch.responses[i].id, t)]]
           js == [js_divergence |-> x]
           data == Union(batch, js)
           y == MaskColumn(data, BatchAggregated(data))
           mask == [js_token_selection_mask |-> y]
<1>1. /\ phase = (IF UsesCritic THEN "criticized" ELSE "credited") /\ phase' = "ranked"
      /\ cfg' = cfg /\ steps' = steps
      /\ batch' = IF cfg.batchAgg THEN Union(data, mask) ELSE data
  BY DEF Rank
<1>2. phase \in AfterBalance
  BY <1>1 DEF AfterBalance
<1>3. "responses" \in DOMAIN batch
  BY <1>2, InTraining DEF TrainInv, Dealable, Held
<1>4. batch'.responses = batch.responses
  <2>1. "responses" \notin DOMAIN js /\ "responses" \notin DOMAIN mask
    OBVIOUS
  <2> HIDE DEF js, mask
  <2>2. "responses" \in DOMAIN data /\ data.responses = batch.responses
    BY <1>3, <2>1 DEF Union
  <2> HIDE DEF data
  <2>3. Union(data, mask).responses = data.responses
    BY <2>1, <2>2 DEF Union
  <2> QED BY <1>1, <2>2, <2>3
<1> HIDE DEF data, mask
<1>5. OwnIds(batch.responses, Samples(cfg)) /\ NoneTwice(cfg, steps)
  BY <1>2 DEF TrainInv, TrainRest, Complete
<1>6. steps.actor = <<>> /\ (UsesCritic => Through(cfg, batch.responses, steps.critic))
  <2>1. CASE UsesCritic
    BY <1>1, <2>1 DEF TrainInv, TrainRest
  <2>2. CASE ~UsesCritic
    <3>1. NoSteps(steps)
      BY <1>1, <2>2 DEF TrainInv, TrainRest, BeforeSteps
    <3> QED BY <2>2, <3>1 DEF NoSteps
  <2> QED BY <2>1, <2>2
<1>7. UsesCritic' = UsesCritic
  BY <1>1 DEF UsesCritic
<1>8. phase' # "generating" /\ phase' \notin BeforeSteps /\ phase' # "update_critic" /\ phase' # "update" /\ phase' # "done"
  BY <1>1 DEF BeforeSteps
<1> QED BY <1>1, <1>4, <1>5, <1>6, <1>7, <1>8 DEF TrainRest

\* Running micro-batches leaves the rows of the ranks alone.
LEMMA ForwardHolds ==
  ASSUME cfg \in Configs, InStep(cfg, work), NEW results, Forward(results)
  PROVE  \A r \in Ranks : work'[r].data = work[r].data
<1>1. PICK p \in Nat \ {0}, o \in Nat : Lined(cfg, work, p, o)
  BY DEF InStep
<1>2. work' = [r \in Ranks |-> [work[r] EXCEPT !.out = Append(@, results[LastStage(r)])]]
  BY DEF Forward
<1>3. ASSUME NEW r \in Ranks PROVE work'[r].data = work[r].data
  <2> DEFINE x == work[r]
             z == results[LastStage(r)]
  <2>1. AtPart(x, p, o)
    BY <1>1 DEF Lined, Ranks
  <2>2. work'[r] = [x EXCEPT !.out = Append(@, z)] /\ x = [data |-> x.data, parts |-> x.parts, out |-> x.out]
    BY <1>2, <2>1 DEF AtPart
  <2> HIDE DEF x, z
  <2>3. work'[r] = [data |-> x.data, parts |-> x.parts, out |-> Append(x.out, z)]
    BY <2>2
  <2> QED BY <2>3 DEF x
<1> QED BY <1>3

\* So a backward leaves the optimizers where they are.
LEMMA BackwardTrains ==
  ASSUME TrainInv, BackwardCritic \/ Backward
  PROVE  TrainRest'
<1>1. /\ phase \in {"update_critic", "update"} /\ phase' = phase /\ cfg' = cfg /\ batch' = batch
      /\ mini' = mini /\ steps' = steps /\ \E results : Forward(results)
  BY DEF BackwardCritic, Backward
<1>2. phase \in Forwards
  BY <1>1 DEF Forwards
<1>3. \A r \in Ranks : work'[r].data = work[r].data
  BY <1>1, <1>2, InForward, ForwardHolds DEF TrainInv
<1>4. ASSUME NEW s, Amid(cfg, batch.responses, s, work, mini)
      PROVE  Amid(cfg', batch'.responses, s, work', mini')
  <2>1. PICK n \in Nat : /\ n < Minis(cfg) * cfg.epochs /\ History(cfg, batch.responses, s, n)
                         /\ mini = MiniOf(cfg, n + 1) /\ Holds(cfg, batch.responses, work, n + 1)
    BY <1>4 DEF Amid
  <2>2. Holds(cfg, batch.responses, work', n + 1)
    BY <1>3, <2>1 DEF Holds, Ranks
  <2>3. Amid(cfg, batch.responses, s, work', mini)
    BY <2>1, <2>2 DEF Amid
  <2> QED BY <1>1, <2>3
<1>5. OwnIds(batch.responses, Samples(cfg)) /\ NoneTwice(cfg, steps)
  BY <1>2 DEF TrainInv, TrainRest, Complete, AfterBalance
<1>6. phase' # "generating" /\ phase' \notin BeforeSteps /\ phase' # "done" /\ UsesCritic' = UsesCritic
  BY <1>1 DEF BeforeSteps, UsesCritic
<1>7. CASE phase = "update_critic"
  <2>1. steps.actor = <<>> /\ Amid(cfg, batch.responses, steps.critic, work, mini)
    BY <1>7 DEF TrainInv, TrainRest
  <2>2. Amid(cfg', batch'.responses, steps'.critic, work', mini')
    BY <1>1, <1>4, <2>1
  <2>3. phase' \notin {"criticized", "ranked", "update"} /\ phase' # "update"
    BY <1>1, <1>7
  <2> QED BY <1>1, <1>5, <1>6, <2>1, <2>2, <2>3 DEF TrainRest
<1>8. CASE phase = "update"
  <2>1. /\ Amid(cfg, batch.responses, steps.actor, work, mini)
        /\ UsesCritic => Through(cfg, batch.responses, steps.critic)
    BY <1>8 DEF TrainInv, TrainRest
  <2>2. Amid(cfg', batch'.responses, steps'.actor, work', mini')
    BY <1>1, <1>4, <2>1
  <2>3. phase' \notin {"update_critic", "criticized", "ranked"} /\ phase' # "update_critic"
    BY <1>1, <1>8
  <2> QED BY <1>1, <1>5, <1>6, <2>1, <2>2, <2>3 DEF TrainRest
<1> QED BY <1>1, <1>7, <1>8

-----------------------------------------------------------------------------
\* The steps of the optimizers.

\* The first mini-batch of update_critic and update_policy.
LEMMA FirstStep ==
  ASSUME cfg \in Configs, Dealable, NEW model, NEW share, NEW next, CallUpdateOf(model, share, next),
         steps[model] = <<>>, phase' # "raised"
  PROVE  /\ phase' = next /\ cfg' = cfg /\ batch' = batch /\ steps' = steps
         /\ Amid(cfg, batch.responses, steps[model], work', mini')
<1>1. /\ mini' = 1 /\ cfg' = cfg /\ batch' = batch /\ steps' = steps /\ Begin(MiniBatch(1, 0, model), next)
  BY DEF CallUpdateOf
<1>2. Sized(cfg)
  BY SizedIs
<1>3. MiniOf(cfg, 1) = 1 /\ EpochOf(cfg, 1) = 0
  BY <1>2, NextMini
<1> DEFINE N == Minis(cfg) * cfg.epochs
<1>4. N \in Nat /\ 0 < N
  <2> DEFINE a == Minis(cfg)
             b == cfg.epochs
  <2>1. a \in Nat \ {0} /\ b \in Nat \ {0}
    BY <1>2 DEF Sized
  <2> HIDE DEF a, b
  <2>2. a * b \in Nat \ {0}
    BY <2>1
  <2> QED BY <2>2 DEF a, b
<1>5. 1 \in 1 .. N
  BY <1>4
<1>6. Begin(MiniBatch(MiniOf(cfg, 1), EpochOf(cfg, 1), model), next)
  BY <1>1, <1>3
<1>7. phase' = next /\ Holds(cfg, batch.responses, work', 1)
  BY <1>5, <1>6, StepBegins
<1>8. History(cfg, batch.responses, steps[model], 0)
  BY DEF History, Column
<1> HIDE DEF N
<1>9. Amid(cfg, batch.responses, steps[model], work', mini')
  <2>1. 0 + 1 = 1 /\ 0 \in Nat
    OBVIOUS
  <2>2. MiniOf(cfg, 0 + 1) = 1 /\ Holds(cfg, batch.responses, work', 0 + 1)
    BY <1>3, <1>7, <2>1
  <2> QED BY <1>1, <1>4, <1>8, <2>1, <2>2 DEF Amid, N
<1> QED BY <1>1, <1>7, <1>9

\* Critic and actor begin with no step made.
LEMMA CallUpdateTrains ==
  ASSUME TrainInv, CallCritic \/ CallUpdate
  PROVE  TrainRest'
<1>1. phase \in {"credited", "ranked"} /\ cfg' = cfg /\ batch' = batch /\ steps' = steps
  BY DEF CallCritic, CallUpdate, CallUpdateOf
<1>2. phase \in AfterBalance
  BY <1>1 DEF AfterBalance
<1>3. cfg \in Configs /\ Dealable
  BY <1>2, InTraining DEF TrainInv
<1>4. OwnIds(batch.responses, Samples(cfg)) /\ NoneTwice(cfg, steps)
  BY <1>2 DEF TrainInv, TrainRest, Complete
<1>5. CASE phase' = "raised"
  BY <1>1, <1>4, <1>5, EndTrains
<1>6. CASE phase' # "raised" /\ CallCritic
  <2>1. phase = "credited" /\ CallUpdateOf("critic", CriticShare(0), "update_critic")
    BY <1>6 DEF CallCritic
  <2>2. steps.critic = <<>> /\ steps.actor = <<>>
    BY <2>1 DEF TrainInv, TrainRest, BeforeSteps, NoSteps
  <2>3. phase' = "update_critic" /\ Amid(cfg, batch.responses, steps.critic, work', mini')
    BY <1>3, <1>6, <2>1, <2>2, FirstStep
  <2>4. Amid(cfg', batch'.responses, steps'.critic, work', mini')
    BY <1>1, <2>3
  <2>5. /\ phase' \notin BeforeSteps /\ phase' # "generating" /\ phase' # "done"
        /\ phase' \notin {"criticized", "ranked", "update"} /\ phase' # "update"
    BY <2>3 DEF BeforeSteps
  <2> QED BY <1>1, <1>4, <2>2, <2>4, <2>5 DEF TrainRest
<1>7. CASE phase' # "raised" /\ CallUpdate
  <2>1. phase = "ranked" /\ CallUpdateOf("actor", UpdateShare(0), "update")
    BY <1>7 DEF CallUpdate
  <2>2. steps.actor = <<>> /\ (UsesCritic => Through(cfg, batch.responses, steps.critic))
    BY <2>1 DEF TrainInv, TrainRest
  <2>3. phase' = "update" /\ Amid(cfg, batch.responses, steps.actor, work', mini')
    BY <1>3, <1>7, <2>1, <2>2, FirstStep
  <2>4. Amid(cfg', batch'.responses, steps'.actor, work', mini')
    BY <1>1, <2>3
  <2>5. /\ phase' \notin BeforeSteps /\ phase' # "generating" /\ phase' # "done" /\ UsesCritic' = UsesCritic
        /\ phase' \notin {"update_critic", "criticized", "ranked"} /\ phase' # "update_critic"
    BY <1>1, <2>3 DEF BeforeSteps, UsesCritic
  <2> QED BY <1>1, <1>4, <2>2, <2>4, <2>5 DEF TrainRest
<1> QED BY <1>5, <1>6, <1>7

\* What stands where in a longer list.
LEMMA LongerAt ==
  ASSUME NEW o \in Nat, NEW u, Column(u, o), NEW z
  PROVE  (\A k \in 1 .. o : Append(u, z)[k] = u[k]) /\ Append(u, z)[o + 1] = z
<1>1. u \in Seq({u[i] : i \in 1 .. o}) /\ Len(u) = o
  BY ColumnIs
<1> QED BY <1>1

\* What the ranks are training on are rows of the batch, none of them twice.
LEMMA TrainedRows ==
  ASSUME cfg \in Configs, Dealable, NEW k \in 1 .. Minis(cfg) * cfg.epochs,
         Holds(cfg, batch.responses, work, k), OwnIds(batch.responses, Samples(cfg)), NEW r \in Ranks
  PROVE  /\ TrainedBy(r).rows = [i \in 1 .. RowsOfStep(cfg, k) |-> batch.responses[RowAt(cfg, r, k, i)].id]
         /\ IsInjective(TrainedBy(r).rows)
<1> DEFINE data == work[r].data
           n == RowsOfStep(cfg, k)
           B == batch.responses
           x(i) == RowAt(cfg, r, k, i)
           rows == TrainedBy(r).rows
<1>1. Sized(cfg) /\ OfMesh(cfg, r)
  BY SizedIs, DealtToIs DEF SameSizes, OfMesh
<1>2. /\ n \in Nat /\ (\A i \in 1 .. n : x(i) \in 1 .. Samples(cfg))
      /\ \A i, j \in 1 .. n : x(i) = x(j) => i = j
  BY <1>1, StepRowsAre
<1>3. Table(data, n) /\ data.responses = [i \in 1 .. n |-> B[x(i)]]
  BY DEF Holds, Ranks
<1>4. rows = [i \in 1 .. Rows(data) |-> data.responses[i].id]
  BY DEF TrainedBy
<1> HIDE DEF data, n, x, rows, B
<1>5. Rows(data) = n
  BY <1>2, <1>3, TableRows
<1>6. rows = [i \in 1 .. n |-> B[x(i)].id]
  BY <1>3, <1>4, <1>5
<1>7. \A i, j \in 1 .. n : B[x(i)].id = B[x(j)].id => i = j
  BY <1>2 DEF OwnIds, B
<1>8. IsInjective(rows)
  BY <1>6, <1>7 DEF IsInjective
<1> QED BY <1>6, <1>8 DEF rows, n, B, x

\* What is left of an optimizer's steps once it has made one: it has failed, goes on, or is through.
Went(model, next) ==
  \/ phase' = "raised"
  \/ phase' = phase /\ Amid(cfg, batch.responses, steps'[model], work', mini')
  \/ phase' = next /\ Through(cfg, batch.responses, steps'[model])

\* A step of an optimizer.
LEMMA StepMade ==
  ASSUME cfg \in Configs, Dealable, Counted(steps), OwnIds(batch.responses, Samples(cfg)),
         NoneTwice(cfg, steps), NEW model \in {"critic", "actor"}, NEW next,
         Amid(cfg, batch.responses, steps[model], work, mini), StepThen(model, MoreSteps(model), next)
  PROVE  /\ cfg' = cfg /\ batch' = batch
         /\ \A other \in {"critic", "actor"} : other # model => steps'[other] = steps[other]
         /\ NoneTwice(cfg, steps') /\ Went(model, next)
<1> DEFINE z == [r \in Ranks |-> TrainedBy(r)]
           B == batch.responses
           s == steps[model]
           t == steps'[model]
           N == Minis(cfg) * cfg.epochs
<1>1. /\ cfg' = cfg /\ batch' = batch /\ steps' = [steps EXCEPT ![model] = Append(steps[model], z)]
  BY DEF StepThen
<1>2. DOMAIN steps = {"critic", "actor"}
  BY DEF Counted
<1>3. t = Append(s, z) /\ \A other \in {"critic", "actor"} : other # model => steps'[other] = steps[other]
  BY <1>1, <1>2
<1>4. PICK n \in Nat : /\ n < N /\ History(cfg, B, s, n) /\ mini = MiniOf(cfg, n + 1)
                       /\ Holds(cfg, B, work, n + 1)
  BY DEF Amid
<1>5. Sized(cfg) /\ SameSizes(cfg)
  BY SizedIs
<1>6. N \in Nat
  <2>1. Minis(cfg) \in Nat /\ cfg.epochs \in Nat
    BY <1>5 DEF Sized
  <2> QED BY <2>1
<1>7. n + 1 \in 1 .. N /\ n + 1 \in Nat
  BY <1>4, <1>6
<1>8. Column(s, n) /\ Len(s) = n
  BY <1>4, ColumnIs DEF History
<1>9. ASSUME NEW r \in Ranks
      PROVE  /\ z[r].rows = [i \in 1 .. RowsOfStep(cfg, n + 1) |-> B[RowAt(cfg, r, n + 1, i)].id]
             /\ IsInjective(z[r].rows)
  <2>1. z[r] = TrainedBy(r)
    OBVIOUS
  <2>2. n + 1 \in 1 .. Minis(cfg) * cfg.epochs
    BY <1>7
  <2> QED BY <1>4, <2>1, <2>2, TrainedRows
<1> HIDE DEF z
<1>10. Column(t, n + 1) /\ (\A k \in 1 .. n : t[k] = s[k]) /\ t[n + 1] = z
  <2> HIDE DEF s, t
  <2> QED BY <1>3, <1>8, ColumnLonger, LongerAt
<1>11. History(cfg, B, t, n + 1)
  <2> SUFFICES ASSUME NEW k \in 1 .. n + 1, NEW r \in 0 .. cfg.world - 1
               PROVE  t[k][r].rows = [i \in 1 .. RowsOfStep(cfg, k) |-> B[RowAt(cfg, r, k, i)].id]
    BY <1>10 DEF History
  <2>1. CASE k \in 1 .. n
    <3>1. s[k][r].rows = [i \in 1 .. RowsOfStep(cfg, k) |-> B[RowAt(cfg, r, k, i)].id]
      BY <1>4, <2>1 DEF History
    <3> QED BY <1>10, <2>1, <3>1
  <2>2. CASE k = n + 1
    BY <1>9, <1>10, <2>2 DEF Ranks
  <2> QED BY <2>1, <2>2
<1>12. NoneTwice(cfg, steps')
  <2> SUFFICES ASSUME NEW other \in {"critic", "actor"}, NEW k \in DOMAIN steps'[other],
                      NEW r \in 0 .. cfg.world - 1
               PROVE  IsInjective(steps'[other][k][r].rows)
    BY DEF NoneTwice
  <2>1. CASE other # model
    BY <1>3, <2>1 DEF NoneTwice
  <2>2. CASE other = model
    <3>1. k \in 1 .. n + 1
      BY <1>7, <1>10, <2>2, ColumnIs
    <3>2. CASE k \in 1 .. n
      <4>1. k \in DOMAIN s /\ t[k] = s[k]
        BY <1>8, <1>10, <3>2, ColumnIs
      <4> QED BY <2>2, <4>1 DEF NoneTwice
    <3>3. CASE k = n + 1
      BY <1>9, <1>10, <2>2, <3>3 DEF Ranks
    <3> QED BY <3>1, <3>2, <3>3
  <2> QED BY <2>1, <2>2
<1>13. MoreSteps(model) <=> n + 1 < N
  <2>1. MoreSteps(model) <=> Len(s) + 1 < MiniBatches * cfg.epochs
    BY DEF MoreSteps
  <2> QED BY <1>5, <1>8, <2>1 DEF SameSizes
<1>14. CASE MoreSteps(model)
  <2>1. /\ mini' = (mini % MiniBatches) + 1
        /\ Begin(MiniBatch(mini', (Len(s) + 1) \div MiniBatches, model), phase)
    BY <1>14 DEF StepThen
  <2>2. mini' = MiniOf(cfg, n + 2)
    BY <1>4, <1>5, <2>1, NextMini DEF SameSizes
  <2>3. (Len(s) + 1) \div MiniBatches = EpochOf(cfg, n + 2)
    <3>1. (n + 2) - 1 = n + 1
      OBVIOUS
    <3> QED BY <1>5, <1>8, <3>1 DEF SameSizes, EpochOf
  <2>4. n + 2 \in 1 .. Minis(cfg) * cfg.epochs /\ n + 1 < N
    BY <1>6, <1>13, <1>14
  <2>5. Begin(MiniBatch(MiniOf(cfg, n + 2), EpochOf(cfg, n + 2), model), phase)
    BY <2>1, <2>2, <2>3
  <2>6. CASE phase' # "raised"
    <3>1. phase' = phase /\ Holds(cfg, B, work', n + 2)
      BY <2>4, <2>5, <2>6, StepBegins
    <3> DEFINE m == n + 1
    <3>2. m \in Nat /\ m + 1 = n + 2
      OBVIOUS
    <3>3. m < N /\ History(cfg, B, t, m) /\ mini' = MiniOf(cfg, m + 1) /\ Holds(cfg, B, work', m + 1)
      BY <1>11, <2>2, <2>4, <3>1, <3>2
    <3> HIDE DEF m
    <3>4. Amid(cfg, B, t, work', mini')
      BY <3>2, <3>3 DEF Amid
    <3> QED BY <1>1, <1>3, <1>12, <3>1, <3>4 DEF Went
  <2> QED BY <1>1, <1>3, <1>12, <2>6 DEF Went
<1>15. CASE ~MoreSteps(model)
  <2>1. phase' = next
    BY <1>15 DEF StepThen
  <2>2. n + 1 = N
    BY <1>4, <1>6, <1>13, <1>15
  <2>3. Through(cfg, B, t)
    BY <1>11, <2>2 DEF Through
  <2> QED BY <1>1, <1>3, <1>12, <2>1, <2>3 DEF Went
<1> QED BY <1>14, <1>15

\* A step of the critic, and one of the actor.
LEMMA OptimizersTrain ==
  ASSUME TrainInv, CriticStep \/ OptimizerStep
  PROVE  TrainRest'
<1>1. phase \in {"update_critic", "update"}
  BY DEF CriticStep, OptimizerStep
<1>2. phase \in AfterBalance /\ phase \in Complete
  BY <1>1 DEF AfterBalance, Forwards, Complete
<1>3. cfg \in Configs /\ Dealable /\ Counted(steps)
  BY <1>2, InTraining DEF TrainInv
<1>4. OwnIds(batch.responses, Samples(cfg)) /\ NoneTwice(cfg, steps)
  BY <1>2 DEF TrainInv, TrainRest
<1>5. CASE CriticStep
  <2>1. phase = "update_critic" /\ StepThen("critic", MoreSteps("critic"), "criticized")
    BY <1>5 DEF CriticStep
  <2>2. steps.actor = <<>> /\ Amid(cfg, batch.responses, steps.critic, work, mini)
    BY <2>1 DEF TrainInv, TrainRest
  <2>3. /\ cfg' = cfg /\ batch' = batch /\ steps'.actor = steps.actor /\ NoneTwice(cfg, steps')
        /\ Went("critic", "criticized")
    BY <1>3, <1>4, <2>1, <2>2, StepMade
  <2>4. OwnIds(batch'.responses, Samples(cfg')) /\ NoneTwice(cfg', steps') /\ steps'.actor = <<>>
    BY <1>4, <2>2, <2>3
  <2>5. CASE phase' = "raised"
    BY <2>4, <2>5, EndTrains
  <2>6. CASE phase' = phase /\ Amid(cfg, batch.responses, steps'.critic, work', mini')
    <3>1. Amid(cfg', batch'.responses, steps'.critic, work', mini')
      BY <2>3, <2>6
    <3>2. /\ phase' \notin BeforeSteps /\ phase' # "generating" /\ phase' # "done"
          /\ phase' \notin {"criticized", "ranked", "update"} /\ phase' # "update"
      BY <2>1, <2>6 DEF BeforeSteps
    <3> QED BY <2>4, <3>1, <3>2 DEF TrainRest
  <2>7. CASE phase' = "criticized" /\ Through(cfg, batch.responses, steps'.critic)
    <3>1. Through(cfg', batch'.responses, steps'.critic)
      BY <2>3, <2>7
    <3>2. /\ phase' \notin BeforeSteps /\ phase' # "generating" /\ phase' # "done"
          /\ phase' # "update_critic" /\ phase' # "update"
      BY <2>7 DEF BeforeSteps
    <3> QED BY <2>4, <3>1, <3>2 DEF TrainRest
  <2> QED BY <2>3, <2>5, <2>6, <2>7 DEF Went
<1>6. CASE OptimizerStep
  <2>1. phase = "update" /\ StepThen("actor", MoreSteps("actor"), "done")
    BY <1>6 DEF OptimizerStep
  <2>2. /\ Amid(cfg, batch.responses, steps.actor, work, mini)
        /\ UsesCritic => Through(cfg, batch.responses, steps.critic)
    BY <2>1 DEF TrainInv, TrainRest
  <2>3. /\ cfg' = cfg /\ batch' = batch /\ steps'.critic = steps.critic /\ NoneTwice(cfg, steps')
        /\ Went("actor", "done")
    BY <1>3, <1>4, <2>1, <2>2, StepMade
  <2>4. /\ OwnIds(batch'.responses, Samples(cfg')) /\ NoneTwice(cfg', steps') /\ UsesCritic' = UsesCritic
        /\ UsesCritic => Through(cfg', batch'.responses, steps'.critic)
    BY <1>4, <2>2, <2>3 DEF UsesCritic
  <2>5. CASE phase' = "raised"
    BY <2>4, <2>5, EndTrains
  <2>6. CASE phase' = phase /\ Amid(cfg, batch.responses, steps'.actor, work', mini')
    <3>1. Amid(cfg', batch'.responses, steps'.actor, work', mini')
      BY <2>3, <2>6
    <3>2. /\ phase' \notin BeforeSteps /\ phase' # "generating" /\ phase' # "done"
          /\ phase' \notin {"update_critic", "criticized", "ranked"} /\ phase' # "update_critic"
      BY <2>1, <2>6 DEF BeforeSteps
    <3> QED BY <2>4, <3>1, <3>2 DEF TrainRest
  <2>7. CASE phase' = "done" /\ Through(cfg, batch.responses, steps'.actor)
    <3>1. Through(cfg', batch'.responses, steps'.actor) /\ Dealable'
      BY <1>3, <2>3, <2>7, SameDealable
    <3>2. /\ phase' \notin BeforeSteps /\ phase' # "generating" /\ phase' \notin Complete
          /\ phase' \notin {"update_critic", "criticized", "ranked"} /\ phase' # "update_critic"
          /\ phase' \notin {"criticized", "ranked", "update"} /\ phase' # "update"
      BY <2>7 DEF BeforeSteps, Complete, AfterBalance, Forwards
    <3> QED BY <2>4, <3>1, <3>2 DEF TrainRest
  <2> QED BY <2>3, <2>5, <2>6, <2>7 DEF Went
<1> QED BY <1>5, <1>6

\* A step begins with none made.
LEMMA TrainStarts ==
  ASSUME Init
  PROVE  TrainInv
<1>1. cfg \in Configs /\ phase = "start" /\ mini = 0 /\ steps = [critic |-> <<>>, actor |-> <<>>]
  BY DEF Init
<1>2. WaitInv
  BY WaitStarts
<1>3. steps.critic = <<>> /\ steps.actor = <<>>
  BY <1>1
<1>4. NoSteps(steps) /\ NoneTwice(cfg, steps)
  BY <1>1, <1>3 DEF NoSteps, NoneTwice
<1>5. /\ phase \notin Complete /\ phase # "generating" /\ phase # "done"
      /\ phase \notin {"update_critic", "criticized", "ranked"} /\ phase # "update_critic"
      /\ phase \notin {"criticized", "ranked", "update"} /\ phase # "update"
  BY <1>1 DEF Complete, AfterBalance, Forwards
<1> QED BY <1>2, <1>4, <1>5 DEF TrainInv, TrainRest

\* Every step trains the rows that are due.
LEMMA TrainStep ==
  ASSUME TrainInv, [Next]_vars
  PROVE  TrainInv'
<1>1. WaitInv'
  BY WaitStep DEF TrainInv
<1>2. TrainRest'
  <2>1. CASE CallGenerate
    BY <1>1, <2>1, CallGenerateTrains DEF WaitInv
  <2>2. CASE \E w \in DOMAIN work : phase = "generating" /\ Generate(w)
    BY <2>2, GenerateTrains
  <2>3. CASE CollectGenerate
    BY <2>3, CollectGenerateTrains
  <2>4. CASE Balance
    BY <2>4, BalanceTrains
  <2>5. CASE \/ CallLogProb \/ ComputeLogProb \/ CollectLogProb \/ CallValues \/ ComputeValues \/ CollectValues
             \/ ComputeAdvantage
    BY <2>5, DriverTrains
  <2>6. CASE Rank
    BY <2>6, RankTrains
  <2>7. CASE BackwardCritic \/ Backward
    BY <2>7, BackwardTrains
  <2>8. CASE CallCritic \/ CallUpdate
    BY <2>8, CallUpdateTrains
  <2>9. CASE CriticStep \/ OptimizerStep
    BY <2>9, OptimizersTrain
  <2>10. CASE CannotDivide \/ EstimatorFails \/ GatherFails
    <3>1. phase' \in {"raised", "failed"} /\ cfg' = cfg /\ steps' = steps
      BY <2>10 DEF CannotDivide, EstimatorFails, GatherFails
    <3>2. NoneTwice(cfg', steps')
      BY <3>1 DEF TrainInv, TrainRest
    <3> QED BY <3>1, <3>2, EndTrains
  <2>11. CASE Finished \/ UNCHANGED vars
    <3>1. cfg' = cfg /\ phase' = phase /\ batch' = batch /\ work' = work /\ mini' = mini /\ steps' = steps
      BY <2>11 DEF Finished, vars
    <3>2. UsesCritic' = UsesCritic /\ (Dealable => Dealable')
      BY <3>1, SameDealable DEF UsesCritic
    <3> QED BY <3>1, <3>2 DEF TrainInv, TrainRest
  <2> QED BY <2>1, <2>2, <2>3, <2>4, <2>5, <2>6, <2>7, <2>8, <2>9, <2>10, <2>11 DEF Next
<1> QED BY <1>1, <1>2 DEF TrainInv

\* The steps in which a rank took row x of the batch, and the ranks that have one.
StepsTaking(s, x, r) == {k \in DOMAIN s : batch.responses[x].id \in ToSet(s[k][r].rows)}
OwnersOf(s, x) == {r \in Ranks : StepsTaking(s, x, r) # {}}

\* The row was trained on once per epoch by the ranks that share it.
OncePerEpoch(s, x) ==
  /\ Cardinality(OwnersOf(s, x)) * Dp = cfg.world
  /\ \A r \in OwnersOf(s, x) :
       /\ DpRank(r) = DpRank(CHOOSE o \in OwnersOf(s, x) : TRUE)
       /\ \A e \in 1 .. cfg.epochs :
            Cardinality({k \in StepsTaking(s, x, r) : CeilDiv(k, MiniBatches) = e}) = 1

\* An optimizer that is through has trained on every row so.
LEMMA ThroughTrains ==
  ASSUME cfg \in Configs, Dealable, OwnIds(batch.responses, Samples(cfg)),
         NEW s, Through(cfg, batch.responses, s), NEW x \in 1 .. Samples(cfg)
  PROVE  OncePerEpoch(s, x)
<1> DEFINE B == batch.responses
           N == Minis(cfg) * cfg.epochs
           m == PerRank(cfg)
           d == DpOf(cfg)
           owners == OwnersOf(s, x)
<1>1. Sized(cfg) /\ SameSizes(cfg)
  BY SizedIs
<1>2. N \in Nat /\ d \in Nat \ {0} /\ m \in Nat \ {0} /\ cfg.epochs \in Nat \ {0} /\ d * m = Samples(cfg)
  <2>1. Minis(cfg) \in Nat /\ cfg.epochs \in Nat \ {0}
    BY <1>1 DEF Sized
  <2> QED BY <1>1, <2>1 DEF Sized
<1>3. History(cfg, B, s, N)
  BY DEF Through
<1>4. DOMAIN s = 1 .. N
  BY <1>2, <1>3, ColumnIs DEF History
<1>5. \A r \in Ranks : OfMesh(cfg, r)
  BY <1>1, DealtToIs DEF SameSizes, OfMesh
<1>6. ASSUME NEW r \in Ranks
      PROVE  StepsTaking(s, x, r) = {k \in 1 .. Minis(cfg) * cfg.epochs : Takes(cfg, r, k, x)}
  <2>1. ASSUME NEW k \in 1 .. N PROVE B[x].id \in ToSet(s[k][r].rows) <=> Takes(cfg, r, k, x)
    <3> DEFINE n == RowsOfStep(cfg, k)
               y(i) == RowAt(cfg, r, k, i)
               rows == s[k][r].rows
    <3>1. n \in Nat /\ \A i \in 1 .. n : y(i) \in 1 .. Samples(cfg)
      BY <1>1, <1>5, StepRowsAre
    <3>2. rows = [i \in 1 .. n |-> B[y(i)].id]
      BY <1>3 DEF History, Ranks
    <3>3. ToSet(rows) = {rows[i] : i \in DOMAIN rows}
      BY DEF ToSet
    <3>4. Takes(cfg, r, k, x) <=> \E i \in 1 .. n : y(i) = x
      BY DEF Takes
    <3> HIDE DEF n, y, rows
    <3>5. B[x].id \in ToSet(rows) <=> \E i \in 1 .. n : B[y(i)].id = B[x].id
      BY <3>2, <3>3
    <3>6. \A i \in 1 .. n : B[y(i)].id = B[x].id <=> y(i) = x
      BY <3>1 DEF OwnIds
    <3> QED BY <3>4, <3>5, <3>6 DEF rows
  <2> QED BY <1>4, <2>1 DEF StepsTaking
<1> HIDE DEF N
<1>7. PICK a \in 0 .. d - 1, y \in 1 .. m : x = a * m + y
  <2>1. x \in 1 .. d * m
    BY <1>2
  <2> HIDE DEF d, m
  <2>2. d \in Nat
    BY <1>2
  <2>3. \A z \in 1 .. d * m : \E a \in 0 .. d - 1 : \E y \in 1 .. m : z = a * m + y
    BY <1>2, <2>2, LineAndPlace
  <2> QED BY <2>1, <2>3
<1>8. At(x, a, PerRank(cfg), y)
  BY <1>7 DEF At
<1>9. ASSUME NEW r \in Ranks
      PROVE  /\ \A k \in 1 .. Minis(cfg) * cfg.epochs : Takes(cfg, r, k, x) => DealtTo(cfg, r) = a
             /\ DealtTo(cfg, r) = a =>
                  \A epoch \in 0 .. cfg.epochs - 1 : \E k0 : TheOnly(cfg, r, x, epoch, k0)
  BY <1>1, <1>5, <1>7, <1>8, TakenOnce
<1>10. ASSUME NEW r \in Ranks, DpRank(r) = a, NEW e \in 1 .. cfg.epochs
       PROVE  \E k0 : {k \in StepsTaking(s, x, r) : CeilDiv(k, MiniBatches) = e} = {k0}
  <2> DEFINE epoch == e - 1
  <2>1. epoch \in 0 .. cfg.epochs - 1 /\ epoch + 1 = e
    BY <1>2
  <2> HIDE DEF epoch
  <2>2. DealtTo(cfg, r) = a
    BY <1>1, <1>10 DEF SameSizes
  <2>3. PICK k0 : TheOnly(cfg, r, x, epoch, k0)
    BY <1>9, <2>1, <2>2
  <2>4. {k \in StepsTaking(s, x, r) : CeilDiv(k, MiniBatches) = e} = {k0}
    BY <1>1, <1>6, <2>1, <2>3 DEF TheOnly, SameSizes
  <2> QED BY <2>4
<1>11. owners = {r \in Ranks : DpRank(r) = a}
  <2>1. ASSUME NEW r \in Ranks, StepsTaking(s, x, r) # {} PROVE DpRank(r) = a
    <3>1. PICK k \in 1 .. Minis(cfg) * cfg.epochs : Takes(cfg, r, k, x)
      BY <1>6, <2>1
    <3> QED BY <1>1, <1>9, <3>1 DEF SameSizes
  <2>2. ASSUME NEW r \in Ranks, DpRank(r) = a PROVE StepsTaking(s, x, r) # {}
    <3>1. 1 \in 1 .. cfg.epochs
      BY <1>2
    <3>2. PICK k0 : {k \in StepsTaking(s, x, r) : CeilDiv(k, MiniBatches) = 1} = {k0}
      BY <1>10, <2>2, <3>1
    <3> QED BY <3>2
  <2> QED BY <2>1, <2>2 DEF OwnersOf
<1>12. Cardinality(owners) * Dp = cfg.world
  <2>1. a \in 0 .. Dp - 1
    BY <1>1, <1>7 DEF SameSizes
  <2> HIDE DEF owners
  <2> QED BY <1>11, <2>1, OwnersAre
<1> HIDE DEF owners
<1>13. ASSUME NEW r \in owners
       PROVE  /\ DpRank(r) = DpRank(CHOOSE o \in owners : TRUE)
              /\ \A e \in 1 .. cfg.epochs :
                   Cardinality({k \in StepsTaking(s, x, r) : CeilDiv(k, MiniBatches) = e}) = 1
  <2>1. (CHOOSE o \in owners : TRUE) \in owners
    OBVIOUS
  <2>2. DpRank(r) = a /\ DpRank(CHOOSE o \in owners : TRUE) = a /\ r \in Ranks
    BY <1>11, <2>1
  <2>3. ASSUME NEW e \in 1 .. cfg.epochs
        PROVE  Cardinality({k \in StepsTaking(s, x, r) : CeilDiv(k, MiniBatches) = e}) = 1
    <3>1. PICK k0 : {k \in StepsTaking(s, x, r) : CeilDiv(k, MiniBatches) = e} = {k0}
      BY <1>10, <2>2
    <3>2. Cardinality({k0}) = 1
      BY FS_Singleton
    <3> QED BY <3>1, <3>2
  <2> QED BY <2>2, <2>3
<1> QED BY <1>12, <1>13 DEF OncePerEpoch, owners

\* EveryRowTrained, for every mesh, every size of a mini-batch and every number of epochs, with and
\* without a shuffled order and with the last mini-batch of a share short: what dispatch, make_iterator
\* and split hand the optimizers of the critic and of the actor is, over an epoch, every
\* response of the batch once on the ranks that share it and never on another, because a
\* step takes the rows its number says of an order all those ranks draw alike, and balancing and
\* the columns joined on the way neither drop nor repeat a response.
THEOREM EveryRowTrainedHolds == Spec => []EveryRowTrained
<1>1. Init => TrainInv
  BY TrainStarts
<1>2. TrainInv /\ [Next]_vars => TrainInv'
  BY TrainStep
<1>3. TrainInv => EveryRowTrained
  <2> SUFFICES ASSUME TrainInv PROVE EveryRowTrained
    OBVIOUS
  <2>1. cfg \in Configs /\ DOMAIN steps = {"critic", "actor"} /\ NoneTwice(cfg, steps)
    BY DEF TrainInv, WaitInv, BalanceInv, WaitRest, Counted, TrainRest
  <2>2. \A model \in DOMAIN steps : \A k \in DOMAIN steps[model] : \A r \in Ranks :
          IsInjective(steps[model][k][r].rows)
    BY <2>1 DEF NoneTwice, Ranks
  <2>3. ASSUME phase = "done" /\ ~cfg.validate, NEW model \in DOMAIN steps, Trains(model),
               NEW x \in 1 .. Rows(batch)
        PROVE  OncePerEpoch(steps[model], x)
    <3>1. /\ Dealable /\ OwnIds(batch.responses, Samples(cfg))
          /\ UsesCritic => Through(cfg, batch.responses, steps.critic)
          /\ Through(cfg, batch.responses, steps.actor)
      BY <2>3 DEF TrainInv, TrainRest
    <3>2. Rows(batch) = Samples(cfg)
      BY <2>1, <3>1, KnownConfig, TableRows DEF Dealable, Held
    <3>3. Through(cfg, batch.responses, steps[model])
      BY <2>1, <2>3, <3>1 DEF Trains
    <3> QED BY <2>1, <3>1, <3>2, <3>3, ThroughTrains
  <2> QED BY <2>2, <2>3 DEF EveryRowTrained, OncePerEpoch, OwnersOf, StepsTaking
<1> QED BY <1>1, <1>2, <1>3, PTL DEF Spec
=============================================================================
