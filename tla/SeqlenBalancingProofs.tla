----------------------- MODULE SeqlenBalancingProofs -----------------------
(***************************************************************************)
(* Theorems about SeqlenBalancing, for any number of rows, of any lengths, *)
(* and any number of partitions.  Induction over a number n goes through   *)
(* the set of the numbers a fact holds for: it has zero and is closed      *)
(* under adding one, so (Upward) it has them all.                          *)
(***************************************************************************)
EXTENDS SeqlenBalancing, FiniteSetTheorems, SequenceTheorems, WellFoundedInduction,
        NaturalsInduction, TLAPS

-----------------------------------------------------------------------------
\* Induction.

\* A set of numbers has a least one, unless it is empty.
LEMMA Least ==
  ASSUME NEW S \in SUBSET Nat, S # {}
  PROVE  \E n \in S : \A m \in S : n <= m
<1> DEFINE R == OpToRel(<, Nat)
<1>1. IsWellFoundedOn(R, Nat)
  BY NatLessThanWellFounded
<1>2. \A m, n \in Nat : m < n => <<m, n>> \in R
  BY DEF OpToRel
<1> HIDE DEF R
<1>3. PICK n \in S : \A m \in S : ~(<<m, n>> \in R)
  BY <1>1, WFMin
<1>4. ASSUME NEW m \in S PROVE n <= m
  <2>1. m \in Nat /\ n \in Nat
    OBVIOUS
  <2>2. ~(m < n)
    BY <2>1, <1>3, <1>2, Zenon
  <2> QED BY <2>1, <2>2
<1> QED BY <1>4

\* A set of numbers that has zero and each number's successor has all numbers.
LEMMA Upward ==
  ASSUME NEW S \in SUBSET Nat, 0 \in S, \A n \in S : n + 1 \in S
  PROVE  S = Nat
<1> DEFINE R == Nat \ S
<1>1. SUFFICES ASSUME R # {} PROVE FALSE
  OBVIOUS
<1>2. PICK n \in R : \A m \in R : n <= m
  BY <1>1, Least
<1>3. n - 1 \in Nat /\ n - 1 \notin R
  BY <1>2
<1> QED BY <1>2, <1>3

\* An order of a finite set, given by its pairs, has a first element.
LEMMA FirstOf ==
  ASSUME NEW S, IsFiniteSet(S), S # {}, NEW R,
         \A s, t \in S : s # t => <<s, t>> \in R \/ <<t, s>> \in R,
         \A s, t, u \in S : <<s, t>> \in R /\ <<t, u>> \in R => <<s, u>> \in R
  PROVE  \E s \in S : \A t \in S \ {s} : <<s, t>> \in R
<1> DEFINE Firsts(T) == \E s \in T : \A t \in T \ {s} : <<s, t>> \in R
           N == {n \in Nat : \A T \in SUBSET S : Cardinality(T) = n + 1 => Firsts(T)}
<1>1. \A T \in SUBSET S : IsFiniteSet(T) /\ Cardinality(T) \in Nat
  BY FS_Subset, FS_CardinalityType
<1>2. 0 \in N
  <2> SUFFICES ASSUME NEW T \in SUBSET S, Cardinality(T) = 0 + 1 PROVE Firsts(T)
    OBVIOUS
  <2>1. Cardinality(T) = 1 /\ IsFiniteSet(T)
    BY <1>1
  <2>2. PICK x : T = {x}
    BY <2>1, FS_Singleton
  <2> QED BY <2>2
<1>3. ASSUME NEW n \in N PROVE n + 1 \in N
  <2> SUFFICES ASSUME NEW T \in SUBSET S, Cardinality(T) = n + 1 + 1 PROVE Firsts(T)
    OBVIOUS
  <2>1. T # {}
    BY FS_EmptySet
  <2>2. PICK x \in T : TRUE
    BY <2>1
  <2>3. Cardinality(T \ {x}) = n + 1
    BY <1>1, <2>2, FS_RemoveElement
  <2>4. Firsts(T \ {x})
    BY <2>3
  <2>5. PICK s \in T \ {x} : \A t \in (T \ {x}) \ {s} : <<s, t>> \in R
    BY <2>4
  <2>6. CASE <<s, x>> \in R
    BY <2>5, <2>6
  <2>7. CASE <<x, s>> \in R
    <3>1. ASSUME NEW t \in T \ {x} PROVE <<x, t>> \in R
      BY <2>5, <2>7, <2>2
    <3> QED BY <3>1, <2>2
  <2> QED BY <2>2, <2>6, <2>7
<1> HIDE DEF N
<1>4. N = Nat
  <2>1. N \in SUBSET Nat
    BY DEF N
  <2> QED BY <1>2, <1>3, <2>1, Upward
<1>5. Cardinality(S) - 1 \in N
  BY <1>1, <1>4, FS_EmptySet
<1> QED BY <1>1, <1>5 DEF N

-----------------------------------------------------------------------------
\* Loads.

\* The sum that Load's recursion defines exists.
LEMMA LoadIs ==
  ASSUME NEW w, NEW items, Len(items) \in Nat
  PROVE  \E sum : /\ sum = [i \in 0 .. Len(items) |->
                             IF i = 0 THEN 0 ELSE sum[i - 1] + w[items[i]]]
                  /\ Load(w, items) = sum[Len(items)]
<1> DEFINE Upto(n) == \E sum : sum = [i \in 0 .. n |-> IF i = 0 THEN 0 ELSE sum[i - 1] + w[items[i]]]
           N == {n \in Nat : Upto(n)}
<1>1. 0 \in N
  <2> DEFINE g == [i \in 0 .. 0 |-> 0]
  <2>1. g = [i \in 0 .. 0 |-> IF i = 0 THEN 0 ELSE g[i - 1] + w[items[i]]]
    OBVIOUS
  <2> QED BY <2>1
<1>2. ASSUME NEW n \in N PROVE n + 1 \in N
  <2>1. PICK f : f = [i \in 0 .. n |-> IF i = 0 THEN 0 ELSE f[i - 1] + w[items[i]]]
    OBVIOUS
  <2> DEFINE g == [i \in 0 .. n + 1 |-> IF i = n + 1 THEN f[n] + w[items[n + 1]] ELSE f[i]]
  <2>2. ASSUME NEW i \in 0 .. n + 1 PROVE g[i] = IF i = 0 THEN 0 ELSE g[i - 1] + w[items[i]]
    <3>1. CASE i = n + 1
      BY <3>1
    <3>2. CASE i \in 0 .. n
      <4>1. f[i] = IF i = 0 THEN 0 ELSE f[i - 1] + w[items[i]]
        BY <2>1, <3>2
      <4> QED BY <4>1, <3>2
    <3> QED BY <3>1, <3>2
  <2>3. g = [i \in 0 .. n + 1 |-> IF i = 0 THEN 0 ELSE g[i - 1] + w[items[i]]]
    BY <2>2
  <2> HIDE DEF g
  <2> QED BY <2>3
<1> HIDE DEF N
<1>3. N = Nat
  <2>1. N \in SUBSET Nat
    BY DEF N
  <2> QED BY <1>1, <1>2, <2>1, Upward
<1>4. Upto(Len(items))
  BY <1>3 DEF N
<1> DEFINE sum0 == CHOOSE sum : sum = [i \in 0 .. Len(items) |-> IF i = 0 THEN 0 ELSE sum[i - 1] + w[items[i]]]
<1>5. sum0 = [i \in 0 .. Len(items) |-> IF i = 0 THEN 0 ELSE sum0[i - 1] + w[items[i]]]
  BY <1>4
<1>6. Load(w, items) = sum0[Len(items)]
  BY DEF Load
<1> HIDE DEF sum0
<1> QED BY <1>5, <1>6

\* Two sums agree as far as their summands do.
LEMMA SumsAgree ==
  ASSUME NEW n \in Nat, NEW f, NEW g, f[0] = g[0],
         \A i \in 1 .. n : f[i - 1] = g[i - 1] => f[i] = g[i]
  PROVE  f[n] = g[n]
<1> DEFINE N == {i \in Nat : i <= n => f[i] = g[i]}
<1>1. 0 \in N
  OBVIOUS
<1>2. ASSUME NEW i \in N PROVE i + 1 \in N
  <2>1. CASE i + 1 <= n
    BY <2>1
  <2> QED BY <2>1
<1>3. N = Nat
  <2>1. N \in SUBSET Nat
    OBVIOUS
  <2> HIDE DEF N
  <2> QED BY <1>1, <1>2, <2>1, Upward
<1> QED BY <1>3

\* A load depends on the weights along the rows only.
LEMMA LoadSame ==
  ASSUME NEW w, NEW p, NEW v, NEW q, Len(p) \in Nat, Len(p) = Len(q),
         \A i \in 1 .. Len(p) : w[p[i]] = v[q[i]]
  PROVE  Load(w, p) = Load(v, q)
<1>1. PICK f : /\ f = [i \in 0 .. Len(p) |-> IF i = 0 THEN 0 ELSE f[i - 1] + w[p[i]]]
               /\ Load(w, p) = f[Len(p)]
  BY LoadIs
<1>2. PICK g : /\ g = [i \in 0 .. Len(q) |-> IF i = 0 THEN 0 ELSE g[i - 1] + v[q[i]]]
               /\ Load(v, q) = g[Len(q)]
  BY LoadIs
<1>3. f[0] = 0 /\ \A i \in 1 .. Len(p) : f[i] = f[i - 1] + w[p[i]]
  BY <1>1
<1>4. g[0] = 0 /\ \A i \in 1 .. Len(p) : g[i] = g[i - 1] + v[q[i]]
  BY <1>2
<1>5. f[0] = g[0] /\ \A i \in 1 .. Len(p) : f[i - 1] = g[i - 1] => f[i] = g[i]
  BY <1>3, <1>4
<1>6. f[Len(p)] = g[Len(p)]
  BY <1>5, SumsAgree
<1> QED BY <1>1, <1>2, <1>6

\* No row has no load.
LEMMA LoadEmpty ==
  ASSUME NEW w
  PROVE  Load(w, <<>>) = 0
<1>1. Len(<<>>) = 0
  OBVIOUS
<1>2. PICK f : /\ f = [i \in 0 .. Len(<<>>) |-> IF i = 0 THEN 0 ELSE f[i - 1] + w[<<>>[i]]]
               /\ Load(w, <<>>) = f[Len(<<>>)]
  BY <1>1, LoadIs
<1>3. f[0] = 0
  BY <1>1, <1>2
<1> QED BY <1>1, <1>2, <1>3

\* One row more adds its weight.
LEMMA LoadAppend ==
  ASSUME NEW R, NEW w, NEW q \in Seq(R), NEW x \in R
  PROVE  Load(w, Append(q, x)) = Load(w, q) + w[x]
<1> DEFINE p == Append(q, x)
<1>1. /\ Len(q) \in Nat /\ Len(p) \in Nat /\ Len(p) = Len(q) + 1
      /\ p[Len(p)] = x /\ \A i \in 1 .. Len(q) : p[i] = q[i]
  BY AppendProperties
<1> HIDE DEF p
<1>2. PICK f : /\ f = [i \in 0 .. Len(p) |-> IF i = 0 THEN 0 ELSE f[i - 1] + w[p[i]]]
               /\ Load(w, p) = f[Len(p)]
  BY <1>1, LoadIs
<1>3. PICK g : /\ g = [i \in 0 .. Len(q) |-> IF i = 0 THEN 0 ELSE g[i - 1] + w[q[i]]]
               /\ Load(w, q) = g[Len(q)]
  BY <1>1, LoadIs
<1>4. f[0] = 0 /\ (\A i \in 1 .. Len(q) : f[i] = f[i - 1] + w[q[i]]) /\ f[Len(p)] = f[Len(q)] + w[x]
  <2>1. f[0] = 0 /\ \A i \in 1 .. Len(p) : f[i] = f[i - 1] + w[p[i]]
    BY <1>1, <1>2
  <2>2. ASSUME NEW i \in 1 .. Len(q) PROVE f[i] = f[i - 1] + w[q[i]]
    BY <1>1, <2>1
  <2>3. f[Len(p)] = f[Len(p) - 1] + w[x]
    BY <1>1, <2>1
  <2> QED BY <1>1, <2>1, <2>2, <2>3
<1>5. g[0] = 0 /\ \A i \in 1 .. Len(q) : g[i] = g[i - 1] + w[q[i]]
  BY <1>1, <1>3
<1>6. f[0] = g[0] /\ \A i \in 1 .. Len(q) : f[i - 1] = g[i - 1] => f[i] = g[i]
  BY <1>4, <1>5
<1>7. f[Len(q)] = g[Len(q)]
  BY <1>1, <1>6, SumsAgree
<1>8. Load(w, p) = Load(w, q) + w[x]
  BY <1>2, <1>3, <1>4, <1>7
<1> QED BY <1>8 DEF p

\* A load is a number.
LEMMA LoadType ==
  ASSUME NEW R, NEW w \in [R -> Nat], NEW q \in Seq(R)
  PROVE  Load(w, q) \in Nat
<1>1. Len(q) \in Nat /\ \A i \in 1 .. Len(q) : q[i] \in R
  OBVIOUS
<1>2. PICK f : /\ f = [i \in 0 .. Len(q) |-> IF i = 0 THEN 0 ELSE f[i - 1] + w[q[i]]]
               /\ Load(w, q) = f[Len(q)]
  BY <1>1, LoadIs
<1>3. f[0] = 0 /\ \A i \in 1 .. Len(q) : f[i] = f[i - 1] + w[q[i]]
  BY <1>1, <1>2
<1> DEFINE N == {i \in Nat : i <= Len(q) => f[i] \in Nat}
<1>4. 0 \in N
  BY <1>3
<1>5. ASSUME NEW i \in N PROVE i + 1 \in N
  <2>1. CASE i + 1 <= Len(q)
    <3>1. f[i] \in Nat /\ f[i + 1] = f[i] + w[q[i + 1]] /\ w[q[i + 1]] \in Nat
      BY <1>1, <1>3, <2>1
    <3> QED BY <3>1
  <2> QED BY <2>1
<1>6. N = Nat
  <2>1. N \in SUBSET Nat
    OBVIOUS
  <2> HIDE DEF N
  <2> QED BY <1>4, <1>5, <2>1, Upward
<1>7. Len(q) \in N
  BY <1>1, <1>6
<1> QED BY <1>2, <1>7

\* The load of rows put together is the sum of their loads.
LEMMA LoadConcat ==
  ASSUME NEW R, NEW w \in [R -> Nat], NEW p \in Seq(R), NEW q \in Seq(R)
  PROVE  Load(w, p \o q) = Load(w, p) + Load(w, q)
<1> DEFINE N == {n \in Nat : \A s \in Seq(R) : Len(s) = n => Load(w, p \o s) = Load(w, p) + Load(w, s)}
<1>1. 0 \in N
  <2> SUFFICES ASSUME NEW s \in Seq(R), Len(s) = 0 PROVE Load(w, p \o s) = Load(w, p) + Load(w, s)
    OBVIOUS
  <2>1. s = <<>> /\ p \o s = p
    OBVIOUS
  <2>2. Load(w, p) \in Nat /\ Load(w, s) = 0
    BY <2>1, LoadEmpty, LoadType
  <2> QED BY <2>1, <2>2
<1>2. ASSUME NEW n \in N PROVE n + 1 \in N
  <2> SUFFICES ASSUME NEW s \in Seq(R), Len(s) = n + 1 PROVE Load(w, p \o s) = Load(w, p) + Load(w, s)
    OBVIOUS
  <2>1. s # <<>>
    OBVIOUS
  <2>2. PICK t \in Seq(R), x \in R : s = Append(t, x)
    BY <2>1, SequenceEmptyOrAppend
  <2>3. Len(t) = n
    BY <2>2
  <2>4. p \o s = Append(p \o t, x) /\ p \o t \in Seq(R)
    BY <2>2
  <2>5. Load(w, p \o s) = Load(w, p \o t) + w[x] /\ Load(w, s) = Load(w, t) + w[x]
    BY <2>2, <2>4, LoadAppend
  <2>6. Load(w, p \o t) = Load(w, p) + Load(w, t)
    BY <2>3
  <2>7. Load(w, p) \in Nat /\ Load(w, t) \in Nat /\ w[x] \in Nat
    BY LoadType
  <2> QED BY <2>5, <2>6, <2>7
<1> HIDE DEF N
<1>3. N = Nat
  <2>1. N \in SUBSET Nat
    BY DEF N
  <2> QED BY <1>1, <1>2, <2>1, Upward
<1> QED BY <1>3 DEF N

\* No row stands at two places.
Distinct(q) == \A i, j \in DOMAIN q : q[i] = q[j] => i = j

\* A row is added to a list of rows.
LEMMA AppendRow ==
  ASSUME NEW R, NEW t \in Seq(R), NEW x \in R
  PROVE  /\ ToSet(Append(t, x)) = ToSet(t) \cup {x}
         /\ Distinct(Append(t, x)) <=> Distinct(t) /\ x \notin ToSet(t)
<1> DEFINE s == Append(t, x)
           n == Len(t)
<1>1. /\ n \in Nat /\ DOMAIN t = 1 .. n /\ DOMAIN s = 1 .. n + 1
      /\ s[n + 1] = x /\ \A i \in 1 .. n : s[i] = t[i]
  OBVIOUS
<1> HIDE DEF s, n
<1>2. 1 .. n + 1 = (1 .. n) \cup {n + 1} /\ n + 1 \notin 1 .. n
  BY <1>1
<1>3. ToSet(s) = ToSet(t) \cup {x}
  <2>1. ASSUME NEW i \in DOMAIN t PROVE t[i] \in ToSet(s)
    <3>1. i \in DOMAIN s /\ s[i] = t[i]
      BY <1>1, <1>2
    <3> QED BY <3>1 DEF ToSet
  <2>2. x \in ToSet(s)
    <3>1. n + 1 \in DOMAIN s
      BY <1>1, <1>2
    <3> QED BY <1>1, <3>1 DEF ToSet
  <2>3. ASSUME NEW i \in DOMAIN s PROVE s[i] \in ToSet(t) \cup {x}
    <3>1. i = n + 1 \/ i \in DOMAIN t
      BY <1>1, <1>2
    <3> QED BY <1>1, <3>1 DEF ToSet
  <2> QED BY <2>1, <2>2, <2>3 DEF ToSet
<1>4. Distinct(s) <=> Distinct(t) /\ x \notin ToSet(t)
  <2>1. ASSUME Distinct(s) PROVE Distinct(t) /\ x \notin ToSet(t)
    <3>1. Distinct(t)
      BY <1>1, <1>2, <2>1 DEF Distinct
    <3>2. ASSUME NEW i \in DOMAIN t PROVE t[i] # x
      BY <1>1, <1>2, <2>1 DEF Distinct
    <3> QED BY <3>1, <3>2 DEF ToSet
  <2>2. ASSUME Distinct(t), x \notin ToSet(t) PROVE Distinct(s)
    <3>1. \A i \in DOMAIN t : t[i] # x
      BY <2>2 DEF ToSet
    <3> QED BY <1>1, <1>2, <2>2, <3>1 DEF Distinct
  <2> QED BY <2>1, <2>2
<1> QED BY <1>3, <1>4 DEF s

\* The rows from one place on to another, a copy of SubSeqProperties where there are such.
LEMMA RowsFromTo ==
  ASSUME NEW R, NEW r \in Seq(R), NEW k \in 0 .. Len(r), NEW l \in k .. Len(r)
  PROVE  /\ SubSeq(r, k + 1, l) \in Seq(R) /\ Len(SubSeq(r, k + 1, l)) = l - k
         /\ \A i \in 1 .. l - k : SubSeq(r, k + 1, l)[i] = r[k + i]
<1> DEFINE m == k + 1
           c == SubSeq(r, m, l)
<1>1. Len(r) \in Nat /\ m \in Int /\ l \in Int /\ k \in Int /\ k <= l /\ l - m + 1 = l - k
  OBVIOUS
<1>2. \A i \in m .. l : r[i] \in R
  OBVIOUS
<1>3. \A i \in Int : m + i - 1 = k + i
  OBVIOUS
<1>4. m = k + 1
  OBVIOUS
<1> HIDE DEF m
<1>5. /\ c \in Seq(R) /\ Len(c) = IF m <= l THEN l - m + 1 ELSE 0
      /\ \A i \in 1 .. l - m + 1 : c[i] = r[m + i - 1]
  BY <1>1, <1>2, SubSeqProperties
<1> HIDE DEF c
<1>6. Len(c) = l - k
  BY <1>1, <1>4, <1>5
<1>7. ASSUME NEW i \in 1 .. l - k PROVE c[i] = r[k + i]
  <2>1. c[i] = r[m + i - 1]
    BY <1>1, <1>5
  <2>2. m + i - 1 = k + i
    BY <1>3
  <2> QED BY <2>1, <2>2
<1>8. c \in Seq(R) /\ Len(c) = l - k /\ \A i \in 1 .. l - k : c[i] = r[k + i]
  BY <1>5, <1>6, <1>7
<1> QED BY <1>8 DEF c, m

\* Rows r without x.
Rest(R, w, r, x) == \E u \in Seq(R) : /\ Distinct(u) /\ ToSet(u) = ToSet(r) \ {x}
                                     /\ Load(w, r) = Load(w, u) + w[x]

\* A row is taken out of a list of rows.
LEMMA WithoutRow ==
  ASSUME NEW R, NEW w \in [R -> Nat], NEW r \in Seq(R), Distinct(r), NEW x \in ToSet(r)
  PROVE  Rest(R, w, r, x)
<1>0. PICK k \in 1 .. Len(r) : x = r[k]
  <2>1. DOMAIN r = 1 .. Len(r)
    OBVIOUS
  <2> QED BY <2>1 DEF ToSet
<1> DEFINE a == SubSeq(r, 1, k - 1)
           b == SubSeq(r, k + 1, Len(r))
           u == a \o b
<1>1. Len(r) \in Nat /\ DOMAIN r = 1 .. Len(r) /\ x \in R /\ \A i \in 1 .. Len(r) : r[i] \in R
  BY <1>0
<1>2. a \in Seq(R) /\ Len(a) = k - 1 /\ \A i \in 1 .. k - 1 : a[i] = r[i]
  BY <1>1, SubSeqProperties
<1>3. b \in Seq(R) /\ Len(b) = Len(r) - k /\ \A i \in 1 .. Len(r) - k : b[i] = r[k + i]
  <2>1. k \in 0 .. Len(r) /\ Len(r) \in k .. Len(r)
    BY <1>1
  <2> QED BY <2>1, RowsFromTo, SMTT(30)
<1>4. a \in Seq(R) /\ b \in Seq(R) /\ x \in R
  BY <1>1, <1>2, <1>3
<1>5. r = Append(a, x) \o b
  <2>1. SubSeq(r, 1, Len(r)) = r
    BY SubSeqFull
  <2>2. SubSeq(r, 1, k) \o b = SubSeq(r, 1, Len(r))
    <3>1. 1 \in 1 .. Len(r) + 1 /\ k \in 1 - 1 .. Len(r) /\ Len(r) \in k .. Len(r)
      BY <1>1
    <3> QED BY <3>1, ConcatAdjacentSubSeq
  <2>3. SubSeq(r, 1, k) = a \o <<x>>
    BY <1>0, <1>1, SubSeqRecursiveSecond
  <2> HIDE DEF a
  <2>4. a \o <<x>> = Append(a, x)
    BY <1>4, AppendIsConcat
  <2> QED BY <2>1, <2>2, <2>3, <2>4
<1> HIDE DEF a, b
<1>6. /\ u \in Seq(R) /\ Len(u) = Len(r) - 1
      /\ \A i \in 1 .. Len(r) - 1 : u[i] = IF i < k THEN r[i] ELSE r[i + 1]
  <2> HIDE DEF u
  <2>1. /\ u \in Seq(R) /\ Len(u) = Len(a) + Len(b)
        /\ \A i \in 1 .. Len(a) + Len(b) : u[i] = IF i <= Len(a) THEN a[i] ELSE b[i - Len(a)]
    BY <1>4, ConcatProperties DEF u
  <2>2. Len(u) = Len(r) - 1
    BY <1>1, <1>2, <1>3, <2>1
  <2>3. ASSUME NEW i \in 1 .. Len(r) - 1 PROVE u[i] = IF i < k THEN r[i] ELSE r[i + 1]
    <3>1. CASE i < k
      <4>1. i \in 1 .. Len(a) + Len(b) /\ i <= Len(a) /\ i \in 1 .. k - 1
        BY <3>1, <1>1, <1>2, <1>3
      <4>2. u[i] = a[i] /\ a[i] = r[i]
        BY <1>2, <2>1, <4>1
      <4> QED BY <3>1, <4>2
    <3>2. CASE ~(i < k)
      <4>1. u[i] = b[i - (k - 1)]
        <5>1. i \in 1 .. Len(a) + Len(b) /\ ~(i <= Len(a)) /\ Len(a) = k - 1
          BY <3>2, <1>1, <1>2, <1>3
        <5> QED BY <2>1, <5>1
      <4>2. i - (k - 1) \in 1 .. Len(r) - k /\ k + (i - (k - 1)) = i + 1
        BY <3>2, <1>1
      <4>3. b[i - (k - 1)] = r[k + (i - (k - 1))]
        BY <1>3, <4>2
      <4> QED BY <3>2, <4>1, <4>2, <4>3
    <3> QED BY <3>1, <3>2
  <2> QED BY <2>1, <2>2, <2>3
<1> HIDE DEF u
<1>7. DOMAIN u = 1 .. Len(r) - 1 /\ k \in 1 .. Len(r) /\ Len(r) \in Nat
  BY <1>1, <1>6
<1> DEFINE at(i) == IF i < k THEN i ELSE i + 1
<1>8. \A i \in 1 .. Len(r) - 1 : at(i) \in 1 .. Len(r) /\ at(i) # k /\ u[i] = r[at(i)]
  BY <1>6, <1>7
<1>9. \A i, j \in 1 .. Len(r) - 1 : at(i) = at(j) => i = j
  BY <1>7
<1>10. \A j \in 1 .. Len(r) : j # k => \E i \in 1 .. Len(r) - 1 : at(i) = j
  <2> SUFFICES ASSUME NEW j \in 1 .. Len(r), j # k PROVE \E i \in 1 .. Len(r) - 1 : at(i) = j
    OBVIOUS
  <2>1. CASE j < k
    BY <1>7, <2>1
  <2>2. CASE j > k
    <3>1. j - 1 \in 1 .. Len(r) - 1 /\ at(j - 1) = j
      BY <1>7, <2>2
    <3> QED BY <3>1
  <2> QED BY <1>7, <2>1, <2>2
<1> HIDE DEF at
<1>11. Distinct(u)
  BY <1>1, <1>7, <1>8, <1>9 DEF Distinct
<1>12. ToSet(u) = ToSet(r) \ {x}
  <2>1. ASSUME NEW i \in DOMAIN u PROVE u[i] \in ToSet(r) \ {x}
    <3>1. at(i) \in DOMAIN r /\ at(i) # k /\ u[i] = r[at(i)]
      BY <1>1, <1>7, <1>8
    <3>2. r[at(i)] # r[k]
      BY <1>1, <3>1 DEF Distinct
    <3> QED BY <1>0, <3>1, <3>2 DEF ToSet
  <2>2. ASSUME NEW j \in DOMAIN r, r[j] # x PROVE r[j] \in ToSet(u)
    <3>1. PICK i \in DOMAIN u : at(i) = j
      BY <1>0, <1>1, <1>7, <1>10, <2>2
    <3> QED BY <1>7, <1>8, <3>1 DEF ToSet
  <2> QED BY <2>1, <2>2 DEF ToSet
<1>13. Load(w, u) = Load(w, a) + Load(w, b)
  BY <1>4, LoadConcat DEF u
<1>14. Load(w, r) = Load(w, a) + w[x] + Load(w, b)
  <2>1. Append(a, x) \in Seq(R) /\ Load(w, Append(a, x)) = Load(w, a) + w[x]
    BY <1>4, LoadAppend
  <2>2. Load(w, r) = Load(w, Append(a, x)) + Load(w, b)
    BY <1>4, <1>5, <2>1, LoadConcat
  <2> QED BY <2>1, <2>2
<1>15. Load(w, a) \in Nat /\ Load(w, b) \in Nat /\ w[x] \in Nat
  BY <1>4, LoadType
<1>16. Load(w, r) = Load(w, u) + w[x]
  BY <1>13, <1>14, <1>15
<1> QED BY <1>6, <1>11, <1>12, <1>16 DEF Rest

\* The load of rows does not depend on their order.
LEMMA LoadOfRows ==
  ASSUME NEW R, NEW w \in [R -> Nat], NEW p \in Seq(R), NEW q \in Seq(R),
         Distinct(p), Distinct(q), ToSet(p) = ToSet(q)
  PROVE  Load(w, p) = Load(w, q)
<1> DEFINE Good(s) == \A r \in Seq(R) : Distinct(r) /\ ToSet(r) = ToSet(s) => Load(w, s) = Load(w, r)
           N == {n \in Nat : \A s \in Seq(R) : Len(s) = n /\ Distinct(s) => Good(s)}
<1>1. 0 \in N
  <2> SUFFICES ASSUME NEW s \in Seq(R), Len(s) = 0, NEW r \in Seq(R), ToSet(r) = ToSet(s)
               PROVE  Load(w, s) = Load(w, r)
    OBVIOUS
  <2>1. s = <<>>
    OBVIOUS
  <2> HIDE DEF N
  <2>2. ToSet(s) = {}
    BY <2>1 DEF ToSet
  <2>4. DOMAIN r = {}
    <3>1. ASSUME NEW i \in DOMAIN r PROVE FALSE
      <4>1. r[i] \in ToSet(r)
        BY DEF ToSet
      <4> QED BY <2>2, <4>1
    <3> QED BY <3>1
  <2>5. DOMAIN r = 1 .. Len(r) /\ Len(r) \in Nat
    OBVIOUS
  <2>6. Len(r) = 0
    BY <2>4, <2>5
  <2>3. r = <<>>
    BY <2>6
  <2> QED BY <2>1, <2>3
<1>2. ASSUME NEW n \in N PROVE n + 1 \in N
  <2> SUFFICES ASSUME NEW s \in Seq(R), Len(s) = n + 1, Distinct(s),
                      NEW r \in Seq(R), Distinct(r), ToSet(r) = ToSet(s)
               PROVE  Load(w, s) = Load(w, r)
    OBVIOUS
  <2>1. s # <<>>
    OBVIOUS
  <2>2. PICK t \in Seq(R), x \in R : s = Append(t, x)
    BY <2>1, SequenceEmptyOrAppend
  <2>3. Len(t) = n
    BY <2>2
  <2> HIDE DEF N, Good
  <2>4. Distinct(t) /\ x \notin ToSet(t) /\ ToSet(r) = ToSet(t) \cup {x}
    BY <2>2, AppendRow
  <2>5. x \in ToSet(r)
    BY <2>4
  <2>6. PICK u \in Seq(R) : /\ Distinct(u) /\ ToSet(u) = ToSet(r) \ {x}
                            /\ Load(w, r) = Load(w, u) + w[x]
    <3>1. Rest(R, w, r, x)
      BY <2>5, WithoutRow
    <3> QED BY <3>1 DEF Rest
  <2>9. ToSet(u) = ToSet(t)
    BY <2>4, <2>6
  <2>7. Load(w, t) = Load(w, u)
    BY <2>3, <2>4, <2>6, <2>9 DEF N, Good
  <2>8. Load(w, s) = Load(w, t) + w[x]
    BY <2>2, LoadAppend
  <2> QED BY <2>6, <2>7, <2>8
<1> HIDE DEF N
<1>3. N = Nat
  <2>1. N \in SUBSET Nat
    BY DEF N
  <2> QED BY <1>1, <1>2, <2>1, Upward
<1>4. Len(p) \in N
  BY <1>3
<1> QED BY <1>4 DEF N

-----------------------------------------------------------------------------
\* Sorting.

\* As many numbers as places: a map that takes no value twice takes each.
LEMMA OneToOne ==
  ASSUME NEW S, NEW T, IsFiniteSet(S), IsFiniteSet(T), Cardinality(S) = Cardinality(T),
         NEW f \in [S -> T], \A x, y \in S : f[x] = f[y] => x = y
  PROVE  \A y \in T : \E x \in S : f[x] = y
<1>1. f \in Injection(S, T)
  BY DEF Injection, IsInjective
<1>2. f \in Surjection(S, T)
  BY <1>1, FS_Injection
<1> QED BY <1>2 DEF Surjection

\* Places, each once.
Orders(n) == {p \in [1 .. n -> 1 .. n] : /\ \A i, j \in 1 .. n : p[i] = p[j] => i = j
                                         /\ \A j \in 1 .. n : \E i \in 1 .. n : p[i] = j}

\* What is in `sorted' is what is in q, and none stands before one that is smaller.
SortedBy(n, q, smaller, sorted) ==
  \E p \in Orders(n) : /\ sorted = [i \in 1 .. n |-> q[p[i]]]
                       /\ \A i, j \in 1 .. n : i < j => <<p[j], p[i]>> \notin smaller

\* Sorted only moves elements, and leaves none before one that is smaller.
LEMMA SortedIs ==
  ASSUME NEW n \in Nat, NEW q, DOMAIN q = 1 .. n, NEW smaller,
         \A a, b \in 1 .. n : <<a, b>> \in smaller => <<b, a>> \notin smaller,
         \A a, b, c \in 1 .. n : <<a, c>> \in smaller => <<a, b>> \in smaller \/ <<b, c>> \in smaller
  PROVE  SortedBy(n, q, smaller, Sorted(q, smaller))
<1> DEFINE T(j, i) == <<j, i>> \in smaller \/ (j < i /\ <<i, j>> \notin smaller)
           B(i)    == {j \in 1 .. n : T(j, i)}
           rank    == [i \in 1 .. n |-> Cardinality(B(i)) + 1]
           p       == [place \in 1 .. n |-> CHOOSE i \in 1 .. n : Cardinality(B(i)) = place - 1]
<1>1. ASSUME NEW i \in 1 .. n, NEW j \in 1 .. n, i # j PROVE T(i, j) \/ T(j, i)
  <2>1. i < j \/ j < i
    BY <1>1
  <2> QED BY <2>1
<1>2. \A i \in 1 .. n : ~T(i, i)
  OBVIOUS
<1>3. \A i, j, l \in 1 .. n : T(i, j) /\ T(j, l) => T(i, l)
  OBVIOUS
<1>4. Sorted(q, smaller) = [place \in 1 .. n |-> q[p[place]]]
  BY DEF Sorted
<1>5. ASSUME NEW i \in 1 .. n PROVE IsFiniteSet(B(i)) /\ Cardinality(B(i)) \in 0 .. n - 1
  <2>1. IsFiniteSet(1 .. n) /\ Cardinality(1 .. n) = n
    BY FS_Interval
  <2>2. IsFiniteSet((1 .. n) \ {i}) /\ Cardinality((1 .. n) \ {i}) = n - 1
    BY <2>1, FS_RemoveElement
  <2>3. B(i) \in SUBSET ((1 .. n) \ {i})
    BY <1>2
  <2> HIDE DEF B
  <2>4. IsFiniteSet(B(i)) /\ Cardinality(B(i)) <= n - 1
    BY <2>2, <2>3, FS_Subset
  <2> QED BY <2>4, FS_CardinalityType
<1>6. ASSUME NEW i \in 1 .. n, NEW j \in 1 .. n, T(i, j) PROVE Cardinality(B(i)) < Cardinality(B(j))
  <2>1. B(i) \in SUBSET B(j)
    BY <1>3, <1>6
  <2>2. i \in B(j) /\ i \notin B(i)
    BY <1>2, <1>6
  <2> HIDE DEF B
  <2>3. Cardinality(B(i)) <= Cardinality(B(j)) /\ Cardinality(B(i)) # Cardinality(B(j))
    BY <1>5, <2>1, <2>2, FS_Subset
  <2> QED BY <1>5, <2>3
<1> HIDE DEF T, B
<1>7. rank \in [1 .. n -> 1 .. n]
  BY <1>5
<1>8. \A i, j \in 1 .. n : rank[i] = rank[j] => i = j
  <2> SUFFICES ASSUME NEW i \in 1 .. n, NEW j \in 1 .. n, rank[i] = rank[j], i # j PROVE FALSE
    OBVIOUS
  <2>1. Cardinality(B(i)) = Cardinality(B(j))
    BY <1>5
  <2> QED BY <1>1, <1>5, <1>6, <2>1
<1>9. \A j \in 1 .. n : \E i \in 1 .. n : rank[i] = j
  <2>1. IsFiniteSet(1 .. n)
    BY FS_Interval
  <2> HIDE DEF rank
  <2>2. rank \in Injection(1 .. n, 1 .. n)
    BY <1>7, <1>8 DEF Injection, IsInjective
  <2>3. rank \in Surjection(1 .. n, 1 .. n)
    BY <2>1, <2>2, FS_Injection
  <2> QED BY <2>3 DEF Surjection
<1>10. ASSUME NEW place \in 1 .. n PROVE p[place] \in 1 .. n /\ rank[p[place]] = place
  <2>1. \E i \in 1 .. n : Cardinality(B(i)) = place - 1
    <3>1. PICK i \in 1 .. n : rank[i] = place
      BY <1>9
    <3>2. rank[i] = Cardinality(B(i)) + 1 /\ Cardinality(B(i)) \in Nat
      BY <1>5
    <3> QED BY <3>1, <3>2
  <2>2. p[place] \in 1 .. n /\ Cardinality(B(p[place])) = place - 1
    BY <2>1
  <2> HIDE DEF p
  <2> QED BY <2>2
<1> HIDE DEF p
<1>11. \A i, j \in 1 .. n : p[i] = p[j] => i = j
  BY <1>10
<1>12. ASSUME NEW j \in 1 .. n PROVE \E i \in 1 .. n : p[i] = j
  <2>1. rank[j] \in 1 .. n
    BY <1>7
  <2>2. p[rank[j]] \in 1 .. n /\ rank[p[rank[j]]] = rank[j]
    BY <1>10, <2>1
  <2>3. p[rank[j]] = j
    BY <1>8, <2>2
  <2> QED BY <2>1, <2>3
<1>13. ASSUME NEW i \in 1 .. n, NEW j \in 1 .. n, i < j PROVE <<p[j], p[i]>> \notin smaller
  <2>1. ~T(p[j], p[i])
    <3> SUFFICES ASSUME T(p[j], p[i]) PROVE FALSE
      OBVIOUS
    <3>1. Cardinality(B(p[j])) < Cardinality(B(p[i]))
      BY <1>6, <1>10
    <3> DEFINE a == p[j]
               b == p[i]
    <3>2. a \in 1 .. n /\ b \in 1 .. n /\ rank[a] = j /\ rank[b] = i
      BY <1>10
    <3> HIDE DEF a, b
    <3>3. Cardinality(B(a)) \in Nat /\ Cardinality(B(b)) \in Nat
      BY <1>5, <3>2
    <3>4. rank[a] < rank[b]
      BY <3>1, <3>2, <3>3 DEF a, b
    <3> QED BY <1>13, <3>2, <3>4
  <2> QED BY <2>1 DEF T
<1>14. p \in [1 .. n -> 1 .. n]
  BY <1>10 DEF p
<1>15. p \in Orders(n)
  BY <1>11, <1>12, <1>14 DEF Orders
<1> QED BY <1>4, <1>13, <1>15 DEF SortedBy

-----------------------------------------------------------------------------
\* The order of sets and states.

\* A list of rows has a first one, unless it is empty.
LEMMA FirstRow ==
  ASSUME NEW n, NEW a \in Seq(1 .. n)
  PROVE  Len(a) \in Nat /\ (Len(a) = 0 <=> a = <<>>) /\ (a # <<>> => a[1] \in Nat)
<1>1. Len(a) \in Nat /\ (Len(a) = 0 <=> a = <<>>)
  OBVIOUS
<1>2. ASSUME a # <<>> PROVE a[1] \in Nat
  <2>1. 1 \in 1 .. Len(a)
    BY <1>1, <1>2
  <2>2. a[1] \in 1 .. n
    BY <2>1, ElementOfSeq
  <2> QED BY <2>2
<1> QED BY <1>1, <1>2

\* Heavier is a strict order whose ties are an equivalence; the empty set comes last.
LEMMA HeavierIsOrder ==
  ASSUME NEW n \in Nat, NEW w \in [1 .. n -> Nat],
         NEW a \in Seq(1 .. n), NEW b \in Seq(1 .. n), NEW c \in Seq(1 .. n)
  PROVE  /\ Heavier(w, a, b) => ~Heavier(w, b, a)
         /\ Heavier(w, a, c) => Heavier(w, a, b) \/ Heavier(w, b, c)
         /\ ~Heavier(w, b, a) => Load(w, a) >= Load(w, b) /\ (a = <<>> => b = <<>>)
<1> DEFINE x == Load(w, a)
           y == Load(w, b)
           z == Load(w, c)
<1>1. x \in Nat /\ y \in Nat /\ z \in Nat
  BY LoadType
<1>2. a = <<>> => x = 0
  BY LoadEmpty
<1>3. /\ Len(a) \in Nat /\ (Len(a) = 0 <=> a = <<>>) /\ (a # <<>> => a[1] \in Nat)
      /\ Len(b) \in Nat /\ (Len(b) = 0 <=> b = <<>>) /\ (b # <<>> => b[1] \in Nat)
      /\ Len(c) \in Nat /\ (Len(c) = 0 <=> c = <<>>) /\ (c # <<>> => c[1] \in Nat)
  BY FirstRow
<1>4. /\ Heavier(w, a, b) <=> \/ x > y
                              \/ x = y /\ \/ Len(a) > Len(b)
                                          \/ Len(a) = Len(b) /\ a # <<>> /\ a[1] > b[1]
      /\ Heavier(w, b, a) <=> \/ y > x
                              \/ y = x /\ \/ Len(b) > Len(a)
                                          \/ Len(b) = Len(a) /\ b # <<>> /\ b[1] > a[1]
      /\ Heavier(w, a, c) <=> \/ x > z
                              \/ x = z /\ \/ Len(a) > Len(c)
                                          \/ Len(a) = Len(c) /\ a # <<>> /\ a[1] > c[1]
      /\ Heavier(w, b, c) <=> \/ y > z
                              \/ y = z /\ \/ Len(b) > Len(c)
                                          \/ Len(b) = Len(c) /\ b # <<>> /\ b[1] > c[1]
  BY DEF Heavier
<1> HIDE DEF x, y, z
<1>5. Heavier(w, a, b) => ~Heavier(w, b, a)
  BY <1>1, <1>3, <1>4
<1>6. Heavier(w, a, c) => Heavier(w, a, b) \/ Heavier(w, b, c)
  BY <1>1, <1>3, <1>4
<1>7. ~Heavier(w, b, a) => x >= y /\ (a = <<>> => b = <<>>)
  BY <1>1, <1>2, <1>3, <1>4
<1> QED BY <1>5, <1>6, <1>7 DEF x, y

\* Sets in the order a state has them.
InOrder(w, s) == \A i, j \in DOMAIN s : i < j => ~Heavier(w, s[j], s[i])

\* The sets of one state are those of another, in some order.
SameSets(n, s, t) == \E p \in Orders(n) : s = [i \in 1 .. n |-> t[p[i]]]

\* Descending moves the sets into that order.
LEMMA DescendingIs ==
  ASSUME NEW n \in Nat, NEW w \in [1 .. n -> Nat], NEW k \in Nat, NEW s \in [1 .. k -> Seq(1 .. n)]
  PROVE  /\ Descending(w, s) \in [1 .. k -> Seq(1 .. n)]
         /\ SameSets(k, Descending(w, s), s)
         /\ InOrder(w, Descending(w, s))
<1> DEFINE smaller == {p \in Pairs(s) : Heavier(w, s[p[1]], s[p[2]])}
           d       == Descending(w, s)
<1>1. DOMAIN s = 1 .. k
  OBVIOUS
<1>2. \A a, b \in 1 .. k : <<a, b>> \in smaller <=> Heavier(w, s[a], s[b])
  BY <1>1 DEF Pairs
<1>3. \A a \in 1 .. k : s[a] \in Seq(1 .. n)
  OBVIOUS
<1>4. d = Sorted(s, smaller)
  BY DEF Descending
<1> HIDE DEF smaller, d
<1>5. ASSUME NEW a \in 1 .. k, NEW b \in 1 .. k PROVE <<a, b>> \in smaller => <<b, a>> \notin smaller
  <2>1. Heavier(w, s[a], s[b]) => ~Heavier(w, s[b], s[a])
    BY <1>3, HeavierIsOrder
  <2> QED BY <1>2, <2>1
<1>6. ASSUME NEW a \in 1 .. k, NEW b \in 1 .. k, NEW c \in 1 .. k
      PROVE  <<a, c>> \in smaller => <<a, b>> \in smaller \/ <<b, c>> \in smaller
  <2>1. Heavier(w, s[a], s[c]) => Heavier(w, s[a], s[b]) \/ Heavier(w, s[b], s[c])
    BY <1>3, HeavierIsOrder
  <2> QED BY <1>2, <2>1
<1>7. SortedBy(k, s, smaller, d)
  BY <1>1, <1>4, <1>5, <1>6, SortedIs
<1>8. PICK p \in Orders(k) : /\ d = [i \in 1 .. k |-> s[p[i]]]
                                   /\ \A i, j \in 1 .. k : i < j => <<p[j], p[i]>> \notin smaller
  BY <1>7 DEF SortedBy
<1>9. \A i \in 1 .. k : p[i] \in 1 .. k
  BY DEF Orders
<1>10. d \in [1 .. k -> Seq(1 .. n)]
  BY <1>8, <1>9
<1>11. SameSets(k, d, s)
  BY <1>8 DEF SameSets
<1>12. InOrder(w, d)
  BY <1>2, <1>8, <1>9 DEF InOrder
<1> QED BY <1>10, <1>11, <1>12 DEF d

\* Rows of two lists put together.
LEMMA ConcatRows ==
  ASSUME NEW R, NEW a \in Seq(R), NEW b \in Seq(R)
  PROVE  /\ a \o b \in Seq(R) /\ Len(a \o b) = Len(a) + Len(b)
         /\ ToSet(a \o b) = ToSet(a) \cup ToSet(b)
         /\ Distinct(a) /\ Distinct(b) /\ ToSet(a) \cap ToSet(b) = {} => Distinct(a \o b)
<1> DEFINE c == a \o b
           m == Len(a)
           l == Len(b)
<1>1. m \in Nat /\ l \in Nat /\ DOMAIN a = 1 .. m /\ DOMAIN b = 1 .. l
  OBVIOUS
<1>2. c \in Seq(R) /\ Len(c) = m + l /\ \A i \in 1 .. m + l : c[i] = IF i <= m THEN a[i] ELSE b[i - m]
  BY ConcatProperties
<1>3. DOMAIN c = 1 .. m + l
  BY <1>2
<1> HIDE DEF c, m, l
<1>4. \A i \in DOMAIN a : i \in DOMAIN c /\ c[i] = a[i]
  BY <1>1, <1>2, <1>3
<1>5. ASSUME NEW i \in DOMAIN b PROVE m + i \in DOMAIN c /\ c[m + i] = b[i]
  <2> DEFINE j == m + i
  <2>1. j \in 1 .. m + l /\ ~(j <= m) /\ j - m = i
    BY <1>1
  <2> HIDE DEF j
  <2>2. j \in DOMAIN c /\ c[j] = b[i]
    BY <1>2, <1>3, <2>1
  <2> QED BY <2>2 DEF j
<1>6. ASSUME NEW i \in DOMAIN c PROVE \/ i \in DOMAIN a /\ c[i] = a[i]
                                      \/ i - m \in DOMAIN b /\ c[i] = b[i - m] /\ ~(i \in DOMAIN a)
  <2>1. CASE i <= m
    BY <1>1, <1>2, <1>3, <2>1
  <2>2. CASE ~(i <= m)
    BY <1>1, <1>2, <1>3, <2>2
  <2> QED BY <2>1, <2>2
<1>7. ToSet(c) = ToSet(a) \cup ToSet(b)
  <2>1. ASSUME NEW i \in DOMAIN c PROVE c[i] \in ToSet(a) \cup ToSet(b)
    BY <1>6 DEF ToSet
  <2>2. ASSUME NEW i \in DOMAIN a PROVE a[i] \in ToSet(c)
    BY <1>4 DEF ToSet
  <2>3. ASSUME NEW i \in DOMAIN b PROVE b[i] \in ToSet(c)
    BY <1>5 DEF ToSet
  <2> QED BY <2>1, <2>2, <2>3 DEF ToSet
<1>8. ASSUME Distinct(a), Distinct(b), ToSet(a) \cap ToSet(b) = {} PROVE Distinct(c)
  <2> SUFFICES ASSUME NEW i \in DOMAIN c, NEW j \in DOMAIN c, c[i] = c[j] PROVE i = j
    BY DEF Distinct
  <2>1. \A x \in DOMAIN a : \A y \in DOMAIN b : a[x] # b[y]
    BY <1>8 DEF ToSet
  <2>2. i \in DOMAIN a /\ j \in DOMAIN a => i = j
    BY <1>4, <1>8 DEF Distinct
  <2>3. i - m \in DOMAIN b /\ j - m \in DOMAIN b /\ b[i - m] = b[j - m] => i = j
    <3>1. i \in Int /\ j \in Int /\ m \in Int
      BY <1>1, <1>3
    <3>2. i - m \in DOMAIN b /\ j - m \in DOMAIN b /\ b[i - m] = b[j - m] => i - m = j - m
      BY <1>8 DEF Distinct
    <3> QED BY <3>1, <3>2
  <2> QED BY <1>6, <2>1, <2>2, <2>3
<1>9. c \in Seq(R) /\ Len(c) = m + l
  BY <1>2
<1> QED BY <1>7, <1>8, <1>9 DEF c, m, l

-----------------------------------------------------------------------------
\* States, and what merging two of them keeps.

AllRows(s) == UNION {ToSet(s[i]) : i \in DOMAIN s}

\* No row stands at two places of a state.
Simple(s) ==
  \A i \in DOMAIN s : /\ Distinct(s[i])
                      /\ \A j \in DOMAIN s : i # j => ToSet(s[i]) \cap ToSet(s[j]) = {}

\* With equal sizes: loads at most d apart.  Otherwise, as long as some set is empty there
\* is no set of two rows.
Even(w, d, s) ==
  \A i, j \in DOMAIN s : Len(s[i]) = Len(s[j]) /\ Load(w, s[i]) - Load(w, s[j]) <= d
Filled(s) == (\A i \in DOMAIN s : s[i] # <<>>) \/ (\A i \in DOMAIN s : Len(s[i]) <= 1)

Balanced(w, d, equalSize, s) == (equalSize => Even(w, d, s)) /\ (~equalSize => Filled(s))

States(w, n, k, d, equalSize) ==
  {s \in [1 .. k -> Seq(1 .. n)] : /\ Simple(s) /\ InOrder(w, s) /\ s[1] # <<>>
                                   /\ Balanced(w, d, equalSize, s)}

Alike(w, k, d, e, s, t) ==
  /\ Simple(t) => Simple(s)
  /\ AllRows(s) = AllRows(t)
  /\ Balanced(w, d, e, t) => Balanced(w, d, e, s)
  /\ \A i \in 1 .. k : \E j \in 1 .. k : s[j] = t[i]

\* Another order of the sets changes nothing of this but InOrder.
LEMMA SameSetsAlike ==
  ASSUME NEW k \in Nat, NEW s, NEW t, DOMAIN t = 1 .. k, SameSets(k, s, t), NEW w, NEW d, NEW e
  PROVE  Alike(w, k, d, e, s, t)
<1>1. PICK p \in Orders(k) : s = [i \in 1 .. k |-> t[p[i]]]
  BY DEF SameSets
<1>2. /\ \A i \in 1 .. k : p[i] \in 1 .. k
      /\ \A i, j \in 1 .. k : p[i] = p[j] => i = j
      /\ \A j \in 1 .. k : \E i \in 1 .. k : p[i] = j
  BY DEF Orders
<1>3. DOMAIN s = 1 .. k /\ \A i \in 1 .. k : s[i] = t[p[i]]
  BY <1>1
<1>4. ASSUME Simple(t) PROVE Simple(s)
  <2>1. ASSUME NEW i \in 1 .. k PROVE Distinct(s[i])
    <3>1. p[i] \in DOMAIN t /\ s[i] = t[p[i]]
      BY <1>2, <1>3
    <3> QED BY <1>4, <3>1 DEF Simple
  <2>2. ASSUME NEW i \in 1 .. k, NEW j \in 1 .. k, i # j PROVE ToSet(s[i]) \cap ToSet(s[j]) = {}
    <3>1. /\ p[i] \in DOMAIN t /\ s[i] = t[p[i]]
          /\ p[j] \in DOMAIN t /\ s[j] = t[p[j]] /\ p[i] # p[j]
      BY <1>2, <1>3, <2>2
    <3>2. ToSet(t[p[i]]) \cap ToSet(t[p[j]]) = {}
      BY <1>4, <3>1 DEF Simple
    <3> QED BY <3>1, <3>2
  <2> QED BY <1>3, <2>1, <2>2 DEF Simple
<1>5. ASSUME NEW i \in 1 .. k PROVE \E j \in 1 .. k : s[j] = t[i]
  <2>1. PICK j \in 1 .. k : p[j] = i
    BY <1>2
  <2>2. s[j] = t[i]
    BY <1>3, <2>1
  <2> QED BY <2>2
<1>6. AllRows(s) = AllRows(t)
  <2>1. ASSUME NEW x \in AllRows(s) PROVE x \in AllRows(t)
    <3>1. PICK i \in 1 .. k : x \in ToSet(s[i])
      BY <1>3 DEF AllRows
    <3>2. p[i] \in DOMAIN t /\ x \in ToSet(t[p[i]])
      BY <1>2, <1>3, <3>1
    <3> QED BY <3>2 DEF AllRows
  <2>2. ASSUME NEW x \in AllRows(t) PROVE x \in AllRows(s)
    <3>1. PICK i \in 1 .. k : x \in ToSet(t[i])
      BY DEF AllRows
    <3>2. PICK j \in 1 .. k : s[j] = t[i]
      BY <1>5
    <3>3. j \in DOMAIN s /\ x \in ToSet(s[j])
      BY <1>3, <3>1, <3>2
    <3> QED BY <3>3 DEF AllRows
  <2> QED BY <2>1, <2>2
<1>7. Balanced(w, d, e, t) => Balanced(w, d, e, s)
  <2>1. ASSUME Even(w, d, t) PROVE Even(w, d, s)
    <3>1. ASSUME NEW i \in 1 .. k, NEW j \in 1 .. k
          PROVE  Len(s[i]) = Len(s[j]) /\ Load(w, s[i]) - Load(w, s[j]) <= d
      <4>1. p[i] \in DOMAIN t /\ p[j] \in DOMAIN t /\ s[i] = t[p[i]] /\ s[j] = t[p[j]]
        BY <1>2, <1>3
      <4>2. Len(t[p[i]]) = Len(t[p[j]]) /\ Load(w, t[p[i]]) - Load(w, t[p[j]]) <= d
        BY <2>1, <4>1 DEF Even
      <4> QED BY <4>1, <4>2
    <3> QED BY <1>3, <3>1 DEF Even
  <2>2. ASSUME Filled(t) PROVE Filled(s)
    <3>1. CASE \A i \in DOMAIN t : t[i] # <<>>
      <4>1. ASSUME NEW i \in 1 .. k PROVE s[i] # <<>>
        <5>1. p[i] \in DOMAIN t /\ s[i] = t[p[i]]
          BY <1>2, <1>3
        <5> QED BY <3>1, <5>1
      <4> QED BY <1>3, <4>1 DEF Filled
    <3>2. CASE \A i \in DOMAIN t : Len(t[i]) <= 1
      <4>1. ASSUME NEW i \in 1 .. k PROVE Len(s[i]) <= 1
        <5>1. p[i] \in DOMAIN t /\ s[i] = t[p[i]]
          BY <1>2, <1>3
        <5> QED BY <3>2, <5>1
      <4> QED BY <1>3, <4>1 DEF Filled
    <3> QED BY <2>2, <3>1, <3>2 DEF Filled
  <2> QED BY <2>1, <2>2 DEF Balanced
<1> QED BY <1>4, <1>5, <1>6, <1>7 DEF Alike

Opposite(k, s, t, u) == DOMAIN u = 1 .. k /\ \A i \in 1 .. k : u[i] = s[i] \o t[k + 1 - i]

Joined(w, n, k, d, e, s, t, u) ==
  /\ \A i \in 1 .. k : u[i] \in Seq(1 .. n)
  /\ Simple(u) /\ AllRows(u) = AllRows(s) \cup AllRows(t) /\ u[1] # <<>>
  /\ Balanced(w, d, e, u)

\* The sets of one state, each with the one opposite of another.
LEMMA PairedSets ==
  ASSUME NEW n \in Nat, NEW w \in [1 .. n -> Nat], NEW k \in Nat \ {0}, NEW d \in Int, NEW e \in BOOLEAN,
         NEW s \in States(w, n, k, d, e), NEW t \in States(w, n, k, d, e),
         AllRows(s) \cap AllRows(t) = {},
         NEW u, Opposite(k, s, t, u)
  PROVE  Joined(w, n, k, d, e, s, t, u)
<1>1. /\ s \in [1 .. k -> Seq(1 .. n)] /\ Simple(s) /\ InOrder(w, s) /\ s[1] # <<>> /\ Balanced(w, d, e, s)
      /\ t \in [1 .. k -> Seq(1 .. n)] /\ Simple(t) /\ InOrder(w, t) /\ t[1] # <<>> /\ Balanced(w, d, e, t)
  BY DEF States
<1> DEFINE o(i) == k + 1 - i
<1>2. \A i \in 1 .. k : o(i) \in 1 .. k /\ o(o(i)) = i
  OBVIOUS
<1>3. \A i, j \in 1 .. k : (o(i) = o(j) => i = j) /\ (i < j => o(j) < o(i))
  OBVIOUS
<1>4. DOMAIN s = 1 .. k /\ DOMAIN t = 1 .. k /\ DOMAIN u = 1 .. k
  BY <1>1 DEF Opposite
<1>5. \A i \in 1 .. k : u[i] = s[i] \o t[o(i)]
  BY DEF Opposite
<1> HIDE DEF o
<1>6. \A i \in 1 .. k : s[i] \in Seq(1 .. n) /\ t[o(i)] \in Seq(1 .. n)
  BY <1>1, <1>2
<1>7. ASSUME NEW i \in 1 .. k
      PROVE  /\ u[i] \in Seq(1 .. n) /\ Len(u[i]) = Len(s[i]) + Len(t[o(i)])
             /\ ToSet(u[i]) = ToSet(s[i]) \cup ToSet(t[o(i)])
             /\ Distinct(s[i]) /\ Distinct(t[o(i)]) /\ ToSet(s[i]) \cap ToSet(t[o(i)]) = {} => Distinct(u[i])
             /\ Load(w, u[i]) = Load(w, s[i]) + Load(w, t[o(i)])
  <2>1. u[i] = s[i] \o t[o(i)] /\ s[i] \in Seq(1 .. n) /\ t[o(i)] \in Seq(1 .. n)
    BY <1>5, <1>6
  <2> DEFINE a == s[i]
             b == t[o(i)]
  <2>2. a \in Seq(1 .. n) /\ b \in Seq(1 .. n)
    BY <2>1
  <2> HIDE DEF a, b
  <2>3. /\ a \o b \in Seq(1 .. n) /\ Len(a \o b) = Len(a) + Len(b)
        /\ ToSet(a \o b) = ToSet(a) \cup ToSet(b)
        /\ Distinct(a) /\ Distinct(b) /\ ToSet(a) \cap ToSet(b) = {} => Distinct(a \o b)
    BY <2>2, ConcatRows
  <2>4. Load(w, a \o b) = Load(w, a) + Load(w, b)
    <3> DEFINE R == 1 .. n
    <3>1. a \in Seq(R) /\ b \in Seq(R) /\ w \in [R -> Nat]
      BY <2>2
    <3> HIDE DEF R
    <3> QED BY <3>1, LoadConcat, SMTT(30)
  <2> QED BY <2>1, <2>3, <2>4 DEF a, b
<1>8. \A i \in 1 .. k : u[i] \in Seq(1 .. n)
  BY <1>7
<1>9. ASSUME NEW i \in 1 .. k, NEW j \in 1 .. k PROVE ToSet(s[i]) \cap ToSet(t[j]) = {}
  <2>1. ToSet(s[i]) \subseteq AllRows(s) /\ ToSet(t[j]) \subseteq AllRows(t)
    BY <1>4 DEF AllRows
  <2> QED BY <2>1
<1>10. Simple(u)
  <2>1. ASSUME NEW i \in 1 .. k PROVE Distinct(u[i])
    BY <1>1, <1>2, <1>4, <1>7, <1>9 DEF Simple
  <2>2. ASSUME NEW i \in 1 .. k, NEW j \in 1 .. k, i # j PROVE ToSet(u[i]) \cap ToSet(u[j]) = {}
    <3>1. ToSet(s[i]) \cap ToSet(s[j]) = {}
      BY <1>1, <1>4, <2>2 DEF Simple
    <3>2. o(i) # o(j)
      BY <1>3, <2>2
    <3>3. ToSet(t[o(i)]) \cap ToSet(t[o(j)]) = {}
      BY <1>1, <1>2, <1>4, <3>2 DEF Simple
    <3>4. /\ ToSet(s[i]) \cap ToSet(t[o(j)]) = {} /\ ToSet(s[j]) \cap ToSet(t[o(i)]) = {}
          /\ ToSet(u[i]) = ToSet(s[i]) \cup ToSet(t[o(i)])
          /\ ToSet(u[j]) = ToSet(s[j]) \cup ToSet(t[o(j)])
      BY <1>2, <1>7, <1>9
    <3> QED BY <3>1, <3>3, <3>4
  <2> QED BY <1>4, <2>1, <2>2 DEF Simple
<1>11. AllRows(u) = AllRows(s) \cup AllRows(t)
  <2>1. ASSUME NEW x \in AllRows(u) PROVE x \in AllRows(s) \cup AllRows(t)
    <3>1. PICK i \in 1 .. k : x \in ToSet(u[i])
      BY <1>4 DEF AllRows
    <3>2. x \in ToSet(s[i]) \/ x \in ToSet(t[o(i)])
      BY <1>7, <3>1
    <3>3. o(i) \in DOMAIN t /\ i \in DOMAIN s
      BY <1>2, <1>4
    <3> QED BY <3>2, <3>3 DEF AllRows
  <2>2. ASSUME NEW x \in AllRows(s) PROVE x \in AllRows(u)
    <3>1. PICK i \in 1 .. k : x \in ToSet(s[i])
      BY <1>4 DEF AllRows
    <3> QED BY <1>4, <1>7, <3>1 DEF AllRows
  <2>3. ASSUME NEW x \in AllRows(t) PROVE x \in AllRows(u)
    <3>1. PICK i \in 1 .. k : x \in ToSet(t[i])
      BY <1>4 DEF AllRows
    <3>2. x \in ToSet(u[o(i)]) /\ o(i) \in 1 .. k
      BY <1>2, <1>7, <3>1
    <3> QED BY <1>4, <3>2 DEF AllRows
  <2> QED BY <2>1, <2>2, <2>3
<1>12. \A i \in 1 .. k : /\ Len(s[i]) \in Nat /\ (Len(s[i]) = 0 <=> s[i] = <<>>)
                         /\ Len(t[o(i)]) \in Nat /\ (Len(t[o(i)]) = 0 <=> t[o(i)] = <<>>)
                         /\ Len(u[i]) \in Nat /\ (Len(u[i]) = 0 <=> u[i] = <<>>)
  BY <1>6, <1>7, FirstRow
<1>16. ASSUME NEW i \in 1 .. k
       PROVE  /\ u[i] = <<>> <=> s[i] = <<>> /\ t[o(i)] = <<>>
              /\ s[i] = <<>> => Len(u[i]) = Len(t[o(i)])
              /\ t[o(i)] = <<>> => Len(u[i]) = Len(s[i])
  <2> DEFINE a == s[i]
             b == t[o(i)]
             c == u[i]
  <2>1. /\ Len(a) \in Nat /\ (Len(a) = 0 <=> a = <<>>)
        /\ Len(b) \in Nat /\ (Len(b) = 0 <=> b = <<>>)
        /\ Len(c) \in Nat /\ (Len(c) = 0 <=> c = <<>>)
    BY <1>12
  <2>2. Len(c) = Len(a) + Len(b)
    BY <1>7
  <2> HIDE DEF a, b, c
  <2>3. /\ c = <<>> <=> a = <<>> /\ b = <<>>
        /\ a = <<>> => Len(c) = Len(b)
        /\ b = <<>> => Len(c) = Len(a)
    BY <2>1, <2>2
  <2> QED BY <2>3 DEF a, b, c
<1>13. u[1] # <<>>
  BY <1>1, <1>16
<1>14. ASSUME e PROVE Even(w, d, u)
  <2>1. Even(w, d, s) /\ Even(w, d, t)
    BY <1>1, <1>14 DEF Balanced
  <2>2. ASSUME NEW i \in 1 .. k, NEW j \in 1 .. k PROVE Len(u[i]) = Len(u[j])
    <3>1. Len(s[i]) = Len(s[j]) /\ Len(t[o(i)]) = Len(t[o(j)])
      BY <1>2, <1>4, <2>1 DEF Even
    <3> QED BY <1>7, <3>1
  <2>3. ASSUME NEW i \in 1 .. k, NEW j \in 1 .. k PROVE Load(w, u[i]) - Load(w, u[j]) <= d
    <3> DEFINE si == Load(w, s[i])
               sj == Load(w, s[j])
               ti == Load(w, t[o(i)])
               tj == Load(w, t[o(j)])
    <3>1. si \in Nat /\ sj \in Nat /\ ti \in Nat /\ tj \in Nat
      BY <1>6, LoadType
    <3>2. Load(w, u[i]) = si + ti /\ Load(w, u[j]) = sj + tj
      BY <1>7
    <3>3. si - sj <= d /\ sj - si <= d /\ ti - tj <= d /\ tj - ti <= d
      BY <1>2, <1>4, <2>1 DEF Even
    <3>4. i < j => sj <= si /\ ti <= tj
      <4>1. ASSUME i < j PROVE ~Heavier(w, s[j], s[i]) /\ ~Heavier(w, t[o(i)], t[o(j)])
        <5>1. o(j) < o(i) /\ o(i) \in 1 .. k /\ o(j) \in 1 .. k
          BY <1>2, <1>3, <4>1
        <5> QED BY <1>1, <1>4, <4>1, <5>1 DEF InOrder
      <4>2. ~Heavier(w, s[j], s[i]) => si >= sj
        BY <1>6, HeavierIsOrder
      <4>3. ~Heavier(w, t[o(i)], t[o(j)]) => tj >= ti
        BY <1>6, HeavierIsOrder
      <4> QED BY <3>1, <4>1, <4>2, <4>3
    <3>5. j < i => si <= sj /\ tj <= ti
      <4>1. ASSUME j < i PROVE ~Heavier(w, s[i], s[j]) /\ ~Heavier(w, t[o(j)], t[o(i)])
        <5>1. o(i) < o(j) /\ o(i) \in 1 .. k /\ o(j) \in 1 .. k
          BY <1>2, <1>3, <4>1
        <5> QED BY <1>1, <1>4, <4>1, <5>1 DEF InOrder
      <4>2. ~Heavier(w, s[i], s[j]) => sj >= si
        BY <1>6, HeavierIsOrder
      <4>3. ~Heavier(w, t[o(j)], t[o(i)]) => ti >= tj
        BY <1>6, HeavierIsOrder
      <4> QED BY <3>1, <4>1, <4>2, <4>3
    <3>6. i = j => si = sj /\ ti = tj
      OBVIOUS
    <3> HIDE DEF si, sj, ti, tj
    <3>7. (si + ti) - (sj + tj) <= d
      BY <3>1, <3>3, <3>4, <3>5, <3>6
    <3> QED BY <3>2, <3>7
  <2> QED BY <1>4, <2>2, <2>3 DEF Even
<1>15. ASSUME ~e PROVE Filled(u)
  <2>1. Filled(s) /\ Filled(t)
    BY <1>1, <1>15 DEF Balanced
  <2>2. CASE \A i \in 1 .. k : s[i] # <<>>
    <3>1. \A i \in 1 .. k : u[i] # <<>>
      BY <1>16, <2>2
    <3> QED BY <1>4, <3>1 DEF Filled
  <2>3. CASE \A i \in 1 .. k : t[i] # <<>>
    <3>1. \A i \in 1 .. k : t[o(i)] # <<>>
      BY <1>2, <2>3
    <3>2. \A i \in 1 .. k : u[i] # <<>>
      BY <1>16, <3>1
    <3> QED BY <1>4, <3>2 DEF Filled
  <2>4. CASE \E i \in 1 .. k : u[i] = <<>> /\ \A j \in 1 .. k : Len(s[j]) <= 1 /\ Len(t[j]) <= 1
    <3>1. PICK i \in 1 .. k : u[i] = <<>>
      BY <2>4
    <3>2. s[i] = <<>> /\ t[o(i)] = <<>>
      BY <1>16, <3>1
    <3>3. ASSUME NEW j \in 1 .. k PROVE Len(u[j]) <= 1
      <4>1. CASE j < i
        <5>1. o(i) < o(j) /\ o(i) \in 1 .. k /\ o(j) \in 1 .. k
          BY <1>2, <1>3, <4>1
        <5>2. ~Heavier(w, t[o(j)], t[o(i)])
          BY <1>1, <1>4, <5>1 DEF InOrder
        <5>4. ~Heavier(w, t[o(j)], t[o(i)]) => (t[o(i)] = <<>> => t[o(j)] = <<>>)
          BY <1>6, HeavierIsOrder
        <5>3. t[o(j)] = <<>>
          BY <3>2, <5>2, <5>4
        <5> QED BY <1>16, <2>4, <5>3
      <4>2. CASE i < j
        <5>1. ~Heavier(w, s[j], s[i])
          BY <1>1, <1>4, <4>2 DEF InOrder
        <5>2. s[j] = <<>>
          BY <1>6, <3>2, <5>1, HeavierIsOrder
        <5>3. o(j) \in 1 .. k /\ Len(u[j]) = Len(t[o(j)])
          BY <1>2, <1>16, <5>2
        <5> QED BY <2>4, <5>3
      <4>3. CASE i = j
        <5>1. Len(u[i]) = 0
          BY <1>12, <3>1
        <5>2. Len(u[j]) = 0
          BY <4>3, <5>1
        <5> QED BY <5>2
      <4>4. i < j \/ j < i \/ i = j
        OBVIOUS
      <4> QED BY <4>1, <4>2, <4>3, <4>4, Zenon
    <3> QED BY <1>4, <3>3 DEF Filled
  <2>5. CASE \A i \in 1 .. k : u[i] # <<>>
    BY <1>4, <2>5 DEF Filled
  <2> QED BY <1>4, <2>1, <2>2, <2>3, <2>4, <2>5 DEF Filled
<1> QED BY <1>8, <1>10, <1>11, <1>13, <1>14, <1>15 DEF Balanced, Joined

\* A set is not empty and the first is not.
LEMMA FirstIsFilled ==
  ASSUME NEW n \in Nat, NEW w \in [1 .. n -> Nat], NEW k \in Nat, NEW s \in [1 .. k -> Seq(1 .. n)],
         InOrder(w, s), NEW i \in 1 .. k, s[i] # <<>>
  PROVE  s[1] # <<>>
<1>1. CASE i = 1
  BY <1>1
<1>2. CASE i # 1
  <2>1. DOMAIN s = 1 .. k /\ 1 \in 1 .. k /\ 1 < i
    BY <1>2
  <2>2. ~Heavier(w, s[i], s[1])
    BY <2>1 DEF InOrder
  <2>3. s[1] \in Seq(1 .. n) /\ s[i] \in Seq(1 .. n)
    BY <2>1
  <2>4. s[1] = <<>> => s[i] = <<>>
    BY <2>2, <2>3, HeavierIsOrder
  <2> QED BY <2>4
<1> QED BY <1>1, <1>2

Unordered(w, n, k, d, e, u) ==
  u \in [1 .. k -> Seq(1 .. n)] /\ Simple(u) /\ Balanced(w, d, e, u) /\ u[1] # <<>>

StateWith(w, n, k, d, e, rows, s) == s \in States(w, n, k, d, e) /\ AllRows(s) = rows

\* Putting the sets in order makes a state of them.
LEMMA DescendingState ==
  ASSUME NEW n \in Nat, NEW w \in [1 .. n -> Nat], NEW k \in Nat \ {0}, NEW d \in Int, NEW e \in BOOLEAN,
         NEW u, Unordered(w, n, k, d, e, u)
  PROVE  StateWith(w, n, k, d, e, AllRows(u), Descending(w, u))
<1> DEFINE m == Descending(w, u)
<1>0. u \in [1 .. k -> Seq(1 .. n)] /\ Simple(u) /\ Balanced(w, d, e, u) /\ u[1] # <<>>
  BY DEF Unordered
<1> HIDE DEF m
<1>1. m \in [1 .. k -> Seq(1 .. n)] /\ SameSets(k, m, u) /\ InOrder(w, m)
  BY <1>0, DescendingIs DEF m
<1>2. DOMAIN u = 1 .. k
  BY <1>0
<1>3. Alike(w, k, d, e, m, u)
  BY <1>1, <1>2, SameSetsAlike
<1>4. /\ Simple(u) => Simple(m)
      /\ AllRows(m) = AllRows(u)
      /\ Balanced(w, d, e, u) => Balanced(w, d, e, m)
      /\ \A i \in 1 .. k : \E j \in 1 .. k : m[j] = u[i]
  BY <1>3 DEF Alike
<1>5. PICK j \in 1 .. k : m[j] = u[1]
  <2>1. 1 \in 1 .. k
    OBVIOUS
  <2>2. \A i \in 1 .. k : \E j \in 1 .. k : m[j] = u[i]
    BY <1>4
  <2> QED BY <2>1, <2>2, Zenon
<1>6. m[1] # <<>>
  BY <1>0, <1>1, <1>5, FirstIsFilled
<1>7. m \in States(w, n, k, d, e) /\ AllRows(m) = AllRows(u)
  BY <1>0, <1>1, <1>4, <1>6 DEF States
<1> QED BY <1>7 DEF m, StateWith

\* Two states without a common row merge to a state of the rows of both.
LEMMA MergeStatesIs ==
  ASSUME NEW n \in Nat, NEW w \in [1 .. n -> Nat], NEW k \in Nat \ {0}, NEW d \in Int, NEW e \in BOOLEAN,
         NEW s \in States(w, n, k, d, e), NEW t \in States(w, n, k, d, e),
         AllRows(s) \cap AllRows(t) = {}
  PROVE  /\ MergeStates(w, s, t) \in States(w, n, k, d, e)
         /\ AllRows(MergeStates(w, s, t)) = AllRows(s) \cup AllRows(t)
<1> DEFINE u == [i \in 1 .. k |-> s[i] \o t[k + 1 - i]]
           m == MergeStates(w, s, t)
<1>1. s \in [1 .. k -> Seq(1 .. n)]
  BY DEF States
<1>2. DOMAIN s = 1 .. k /\ Len(s) = k
  BY <1>1
<1>3. m = Descending(w, u)
  BY <1>2 DEF MergeStates
<1>4. DOMAIN u = 1 .. k /\ \A i \in 1 .. k : u[i] = s[i] \o t[k + 1 - i]
  OBVIOUS
<1>5. u = [i \in 1 .. k |-> u[i]]
  OBVIOUS
<1> HIDE DEF u, m
<1>6. /\ \A i \in 1 .. k : u[i] \in Seq(1 .. n)
      /\ Simple(u) /\ AllRows(u) = AllRows(s) \cup AllRows(t) /\ u[1] # <<>>
      /\ Balanced(w, d, e, u)
  <2>1. Opposite(k, s, t, u)
    BY <1>4 DEF Opposite
  <2>2. Joined(w, n, k, d, e, s, t, u)
    BY <2>1, PairedSets
  <2> QED BY <2>2 DEF Joined
<1>7. u \in [1 .. k -> Seq(1 .. n)]
  BY <1>5, <1>6
<1>8. m \in States(w, n, k, d, e) /\ AllRows(m) = AllRows(s) \cup AllRows(t)
  <2>1. Unordered(w, n, k, d, e, u)
    BY <1>6, <1>7 DEF Unordered
  <2>2. StateWith(w, n, k, d, e, AllRows(u), Descending(w, u))
    BY <2>1, DescendingState
  <2> QED BY <1>3, <1>6, <2>2 DEF StateWith
<1> QED BY <1>8 DEF m

\* A state has a row.
LEMMA StateHasRow ==
  ASSUME NEW n \in Nat, NEW w, NEW k \in Nat \ {0}, NEW d, NEW e, NEW s \in States(w, n, k, d, e)
  PROVE  AllRows(s) # {}
<1> DEFINE a == s[1]
<1>1. a \in Seq(1 .. n) /\ a # <<>> /\ 1 \in DOMAIN s
  BY DEF States
<1>2. ToSet(a) \subseteq AllRows(s)
  BY <1>1 DEF AllRows
<1> HIDE DEF a
<1>3. Len(a) \in Nat /\ Len(a) # 0 /\ DOMAIN a = 1 .. Len(a)
  BY <1>1, FirstRow
<1>4. 1 \in DOMAIN a
  BY <1>3
<1>5. a[1] \in ToSet(a)
  BY <1>4 DEF ToSet
<1> QED BY <1>2, <1>5

-----------------------------------------------------------------------------
\* The queue of states.

\* So many states, with every row in one of them.
Queue(w, n, k, d, e, count, X) ==
  /\ X \in SUBSET States(w, n, k, d, e)
  /\ IsFiniteSet(X) /\ Cardinality(X) = count
  /\ \A s, t \in X : s # t => AllRows(s) \cap AllRows(t) = {}
  /\ \A o \in 1 .. n : \E s \in X : o \in AllRows(s)

\* One state is popped before all others.
Pops(w, X) == \E s \in X : \A t \in X \ {s} : PoppedBefore(w, s, t)

\* PoppedBefore compares any two states, and one comes first.
LEMMA OnePops ==
  ASSUME NEW n \in Nat, NEW w \in [1 .. n -> Nat], NEW k \in Nat \ {0}, NEW d \in Int, NEW e \in BOOLEAN,
         NEW X \in SUBSET States(w, n, k, d, e), IsFiniteSet(X), X # {},
         \A s, t \in X : s # t => AllRows(s) \cap AllRows(t) = {}
  PROVE  Pops(w, X)
<1> DEFINE R == {p \in X \X X : PoppedBefore(w, p[1], p[2])}
<1>1. \A s, t \in X : <<s, t>> \in R <=> PoppedBefore(w, s, t)
  OBVIOUS
<1> HIDE DEF R
<1>2. ASSUME NEW s \in X
      PROVE  /\ s[1] \in Seq(1 .. n) /\ s[1] # <<>> /\ s[1][1] \in ToSet(s[1]) /\ s[1][1] \in Nat
             /\ s[1][1] \in AllRows(s) /\ Spread(w, s) \in Int /\ Load(w, s[1]) \in Nat /\ Len(s[1]) \in Nat
  <2>1. s \in [1 .. k -> Seq(1 .. n)] /\ s[1] # <<>>
    BY DEF States
  <2>2. DOMAIN s = 1 .. k /\ Len(s) = k /\ 1 \in 1 .. k /\ k \in 1 .. k
    BY <2>1
  <2>3. s[1] \in Seq(1 .. n) /\ s[k] \in Seq(1 .. n)
    BY <2>1, <2>2
  <2>4. Load(w, s[1]) \in Nat /\ Load(w, s[k]) \in Nat
    BY <2>3, LoadType
  <2>5. Last(s) = s[k]
    BY <2>2 DEF Last
  <2>6. Spread(w, s) \in Int
    BY <2>4, <2>5 DEF Spread
  <2> DEFINE a == s[1]
  <2>7. a \in Seq(1 .. n) /\ a # <<>>
    BY <2>1, <2>3
  <2> HIDE DEF a
  <2>8. Len(a) \in Nat /\ a[1] \in Nat /\ Len(a) # 0 /\ DOMAIN a = 1 .. Len(a)
    BY <2>7, FirstRow
  <2>9. 1 \in DOMAIN a
    BY <2>8
  <2>10. a[1] \in ToSet(a)
    BY <2>9 DEF ToSet
  <2>11. ToSet(a) \subseteq AllRows(s)
    BY <2>2 DEF AllRows, a
  <2> QED BY <2>4, <2>6, <2>7, <2>8, <2>10, <2>11 DEF a
<1>3. ASSUME NEW s \in X, NEW t \in X
      PROVE  PoppedBefore(w, s, t) <=>
               \/ Spread(w, s) > Spread(w, t)
               \/ /\ Spread(w, s) = Spread(w, t)
                  /\ \/ Load(w, s[1]) > Load(w, t[1])
                     \/ /\ Load(w, s[1]) = Load(w, t[1])
                        /\ \/ Len(s[1]) > Len(t[1])
                           \/ Len(s[1]) = Len(t[1]) /\ s[1][1] > t[1][1]
  BY <1>2 DEF PoppedBefore, Heavier
<1>4. ASSUME NEW s \in X, NEW t \in X, s # t PROVE <<s, t>> \in R \/ <<t, s>> \in R
  <2>1. s[1][1] # t[1][1]
    <3>1. AllRows(s) \cap AllRows(t) = {}
      BY <1>4
    <3>2. s[1][1] \in AllRows(s)
      BY <1>2
    <3>3. t[1][1] \in AllRows(t)
      BY <1>2
    <3> QED BY <3>1, <3>2, <3>3
  <2> DEFINE s1 == Spread(w, s)  s2 == Load(w, s[1])  s3 == Len(s[1])  s4 == s[1][1]
             t1 == Spread(w, t)  t2 == Load(w, t[1])  t3 == Len(t[1])  t4 == t[1][1]
  <2>2. /\ s1 \in Int /\ s2 \in Nat /\ s3 \in Nat /\ s4 \in Nat
        /\ t1 \in Int /\ t2 \in Nat /\ t3 \in Nat /\ t4 \in Nat /\ s4 # t4
    BY <1>2, <2>1
  <2>3. PoppedBefore(w, s, t) <=> s1 > t1 \/ (s1 = t1 /\ (s2 > t2 \/ (s2 = t2 /\ (s3 > t3 \/ (s3 = t3 /\ s4 > t4)))))
    BY <1>3
  <2>4. PoppedBefore(w, t, s) <=> t1 > s1 \/ (t1 = s1 /\ (t2 > s2 \/ (t2 = s2 /\ (t3 > s3 \/ (t3 = s3 /\ t4 > s4)))))
    BY <1>3
  <2> HIDE DEF s1, s2, s3, s4, t1, t2, t3, t4
  <2>5. PoppedBefore(w, s, t) \/ PoppedBefore(w, t, s)
    BY <2>2, <2>3, <2>4
  <2> QED BY <1>1, <2>5
<1>5. ASSUME NEW s \in X, NEW t \in X, NEW u \in X, <<s, t>> \in R, <<t, u>> \in R PROVE <<s, u>> \in R
  <2> DEFINE s1 == Spread(w, s)  s2 == Load(w, s[1])  s3 == Len(s[1])  s4 == s[1][1]
             t1 == Spread(w, t)  t2 == Load(w, t[1])  t3 == Len(t[1])  t4 == t[1][1]
             u1 == Spread(w, u)  u2 == Load(w, u[1])  u3 == Len(u[1])  u4 == u[1][1]
  <2>1. /\ s1 \in Int /\ s2 \in Nat /\ s3 \in Nat /\ s4 \in Nat
        /\ t1 \in Int /\ t2 \in Nat /\ t3 \in Nat /\ t4 \in Nat
        /\ u1 \in Int /\ u2 \in Nat /\ u3 \in Nat /\ u4 \in Nat
    BY <1>2
  <2>2. PoppedBefore(w, s, t) <=> s1 > t1 \/ (s1 = t1 /\ (s2 > t2 \/ (s2 = t2 /\ (s3 > t3 \/ (s3 = t3 /\ s4 > t4)))))
    BY <1>3
  <2>3. PoppedBefore(w, t, u) <=> t1 > u1 \/ (t1 = u1 /\ (t2 > u2 \/ (t2 = u2 /\ (t3 > u3 \/ (t3 = u3 /\ t4 > u4)))))
    BY <1>3
  <2>4. PoppedBefore(w, s, u) <=> s1 > u1 \/ (s1 = u1 /\ (s2 > u2 \/ (s2 = u2 /\ (s3 > u3 \/ (s3 = u3 /\ s4 > u4)))))
    BY <1>3
  <2>5. PoppedBefore(w, s, t) /\ PoppedBefore(w, t, u)
    BY <1>1, <1>5
  <2> HIDE DEF s1, s2, s3, s4, t1, t2, t3, t4, u1, u2, u3, u4
  <2>6. PoppedBefore(w, s, u)
    BY <2>1, <2>2, <2>3, <2>4, <2>5
  <2> QED BY <1>1, <2>6
<1>6. \E s \in X : \A t \in X \ {s} : <<s, t>> \in R
  BY <1>4, <1>5, FirstOf
<1> QED BY <1>1, <1>6 DEF Pops

\* Merging the two first states leaves one state less, and every row in one of them.
LEMMA MergeTwoIs ==
  ASSUME NEW n \in Nat, NEW w \in [1 .. n -> Nat], NEW k \in Nat \ {0}, NEW d \in Int, NEW e \in BOOLEAN,
         NEW count \in Nat, count > 1, NEW X, Queue(w, n, k, d, e, count, X)
  PROVE  Queue(w, n, k, d, e, count - 1, MergeTwo(w, X))
<1> DEFINE First(S) == CHOOSE s \in S : \A t \in S \ {s} : PoppedBefore(w, s, t)
           s0 == First(X)
           Y  == X \ {s0}
           s1 == First(Y)
           m  == MergeStates(w, s0, s1)
           Z  == Y \ {s1}
<1>1. /\ X \in SUBSET States(w, n, k, d, e) /\ IsFiniteSet(X) /\ Cardinality(X) = count
      /\ \A s, t \in X : s # t => AllRows(s) \cap AllRows(t) = {}
      /\ \A o \in 1 .. n : \E s \in X : o \in AllRows(s)
  BY DEF Queue
<1>2. MergeTwo(w, X) = (X \ {s0, s1}) \cup {m}
  BY DEF MergeTwo
<1>3. X # {}
  BY <1>1, FS_EmptySet
<1>4. Pops(w, X)
  BY <1>1, <1>3, OnePops
<1>5. s0 \in X
  BY <1>4 DEF Pops
<1> HIDE DEF s0
<1>6. IsFiniteSet(Y) /\ Cardinality(Y) = count - 1
  BY <1>1, <1>5, FS_RemoveElement
<1>7. Y # {}
  BY <1>6, FS_EmptySet
<1>8. Y \in SUBSET States(w, n, k, d, e) /\ \A s, t \in Y : s # t => AllRows(s) \cap AllRows(t) = {}
  BY <1>1
<1> HIDE DEF Y
<1>9. Pops(w, Y)
  BY <1>6, <1>7, <1>8, OnePops
<1>10. s1 \in Y
  BY <1>9 DEF Pops
<1> HIDE DEF s1
<1>11. s0 \in X /\ s1 \in X /\ s0 # s1 /\ Z \subseteq X /\ s0 \notin Z /\ s1 \notin Z /\ Z = X \ {s0, s1}
  BY <1>5, <1>10 DEF Y
<1>12. AllRows(s0) \cap AllRows(s1) = {}
  BY <1>1, <1>11
<1>13. m \in States(w, n, k, d, e) /\ AllRows(m) = AllRows(s0) \cup AllRows(s1)
  <2>1. s0 \in States(w, n, k, d, e) /\ s1 \in States(w, n, k, d, e)
    BY <1>1, <1>11
  <2> QED BY <1>12, <2>1, MergeStatesIs
<1>14. IsFiniteSet(Z) /\ Cardinality(Z) = count - 2
  <2>1. IsFiniteSet(Z) /\ Cardinality(Z) = Cardinality(Y) - 1
    BY <1>6, <1>10, FS_RemoveElement
  <2>2. (count - 1) - 1 = count - 2
    OBVIOUS
  <2> QED BY <1>6, <2>1, <2>2
<1> HIDE DEF m, Z
<1>15. ASSUME NEW z \in Z PROVE AllRows(m) \cap AllRows(z) = {}
  BY <1>1, <1>11, <1>13
<1>16. m \notin Z
  <2>1. AllRows(m) # {}
    BY <1>13, StateHasRow
  <2> QED BY <1>15, <2>1
<1>17. IsFiniteSet(Z \cup {m}) /\ Cardinality(Z \cup {m}) = count - 1
  <2>1. IsFiniteSet(Z \cup {m}) /\ Cardinality(Z \cup {m}) = Cardinality(Z) + 1
    BY <1>14, <1>16, FS_AddElement
  <2>2. (count - 2) + 1 = count - 1
    OBVIOUS
  <2> QED BY <1>14, <2>1, <2>2
<1>18. Z \cup {m} \in SUBSET States(w, n, k, d, e)
  BY <1>1, <1>11, <1>13
<1>19. \A s, t \in Z \cup {m} : s # t => AllRows(s) \cap AllRows(t) = {}
  BY <1>1, <1>11, <1>15
<1>20. ASSUME NEW o \in 1 .. n PROVE \E s \in Z \cup {m} : o \in AllRows(s)
  <2>1. PICK s \in X : o \in AllRows(s)
    BY <1>1
  <2>2. CASE s \in Z
    BY <2>1, <2>2
  <2>3. CASE s = s0 \/ s = s1
    BY <1>13, <2>1, <2>3
  <2> QED BY <1>11, <2>2, <2>3
<1>21. MergeTwo(w, X) = Z \cup {m}
  BY <1>2, <1>11
<1> QED BY <1>17, <1>18, <1>19, <1>20, <1>21 DEF Queue

-----------------------------------------------------------------------------
\* The first states.

\* Elements in the order of numbers they have.
ByNumber(n, q, number, sorted) ==
  \E p \in Orders(n) : /\ sorted = [i \in 1 .. n |-> q[p[i]]]
                       /\ \A i, j \in 1 .. n : i < j => number[p[i]] <= number[p[j]]

\* Sorting by a number gives that order.
LEMMA SortedByNumber ==
  ASSUME NEW n \in Nat, NEW q, DOMAIN q = 1 .. n, NEW number, \A i \in 1 .. n : number[i] \in Int,
         NEW smaller, \A a, b \in 1 .. n : <<a, b>> \in smaller <=> number[a] < number[b]
  PROVE  ByNumber(n, q, number, Sorted(q, smaller))
<1>1. SortedBy(n, q, smaller, Sorted(q, smaller))
  <2>1. \A a, b \in 1 .. n : <<a, b>> \in smaller => <<b, a>> \notin smaller
    OBVIOUS
  <2>2. \A a, b, c \in 1 .. n : <<a, c>> \in smaller => <<a, b>> \in smaller \/ <<b, c>> \in smaller
    OBVIOUS
  <2> QED BY <2>1, <2>2, SortedIs
<1>2. PICK p \in Orders(n) : /\ Sorted(q, smaller) = [i \in 1 .. n |-> q[p[i]]]
                             /\ \A i, j \in 1 .. n : i < j => <<p[j], p[i]>> \notin smaller
  BY <1>1 DEF SortedBy
<1>3. \A i \in 1 .. n : p[i] \in 1 .. n
  BY DEF Orders
<1>4. ASSUME NEW i \in 1 .. n, NEW j \in 1 .. n, i < j PROVE number[p[i]] <= number[p[j]]
  <2>1. p[i] \in 1 .. n /\ p[j] \in 1 .. n /\ <<p[j], p[i]>> \notin smaller
    BY <1>2, <1>3, <1>4
  <2>2. number[p[i]] \in Int /\ number[p[j]] \in Int /\ ~(number[p[j]] < number[p[i]])
    BY <2>1
  <2> QED BY <2>2
<1> QED BY <1>2, <1>4 DEF ByNumber

\* ByWeight orders the rows by their weights.
LEMMA ByWeightIs ==
  ASSUME NEW R, NEW w \in [R -> Nat], NEW n \in Nat, NEW rows \in [1 .. n -> R]
  PROVE  ByNumber(n, rows, [i \in 1 .. n |-> w[rows[i]]], ByWeight(w, rows))
<1> DEFINE number  == [i \in 1 .. n |-> w[rows[i]]]
           smaller == {p \in Pairs(rows) : w[rows[p[1]]] < w[rows[p[2]]]}
<1>1. DOMAIN rows = 1 .. n /\ \A i \in 1 .. n : number[i] = w[rows[i]] /\ number[i] \in Int
  OBVIOUS
<1>2. \A a, b \in 1 .. n : <<a, b>> \in smaller <=> number[a] < number[b]
  BY <1>1 DEF Pairs
<1>3. ByWeight(w, rows) = Sorted(rows, smaller)
  BY DEF ByWeight
<1> HIDE DEF number, smaller
<1>4. ByNumber(n, rows, number, Sorted(rows, smaller))
  BY <1>1, <1>2, SortedByNumber
<1> QED BY <1>3, <1>4 DEF number

\* Ascending has each row once.
LEMMA AscendingIs ==
  ASSUME NEW n \in Nat, NEW w \in [1 .. n -> Nat]
  PROVE  Ascending(w) \in Orders(n)
<1> DEFINE rows == [i \in 1 .. n |-> i]
           number == [i \in 1 .. n |-> w[rows[i]]]
           R == 1 .. n
<1>1. Ascending(w) = ByWeight(w, rows)
  BY DEF Ascending
<1>2. \A i \in 1 .. n : rows[i] = i
  OBVIOUS
<1>3. rows \in [1 .. n -> R] /\ w \in [R -> Nat]
  OBVIOUS
<1> HIDE DEF R, rows
<1>4. ByNumber(n, rows, number, ByWeight(w, rows))
  BY <1>3, ByWeightIs
<1> HIDE DEF number
<1>5. PICK p \in Orders(n) : ByWeight(w, rows) = [i \in 1 .. n |-> rows[p[i]]]
  BY <1>4 DEF ByNumber
<1>6. p \in [1 .. n -> 1 .. n]
  BY DEF Orders
<1>7. [i \in 1 .. n |-> rows[p[i]]] = p
  BY <1>2, <1>6
<1> QED BY <1>1, <1>5, <1>7

\* A list of one row.
LEMMA OneRow ==
  ASSUME NEW n \in Nat, NEW w \in [1 .. n -> Nat], NEW o \in 1 .. n
  PROVE  /\ <<o>> \in Seq(1 .. n) /\ <<o>> # <<>> /\ Len(<<o>>) = 1
         /\ ToSet(<<o>>) = {o} /\ Distinct(<<o>>) /\ Load(w, <<o>>) = w[o]
<1>1. <<o>> \in Seq(1 .. n) /\ <<o>> # <<>> /\ Len(<<o>>) = 1 /\ ToSet(<<o>>) = {o} /\ Distinct(<<o>>)
  BY DEF ToSet, Distinct
<1>2. Load(w, <<o>>) = w[o]
  <2> DEFINE R == 1 .. n
             e == <<>>
  <2>1. e \in Seq(R) /\ o \in R /\ Append(e, o) = <<o>>
    OBVIOUS
  <2>2. Load(w, e) = 0
    BY LoadEmpty
  <2>3. w[o] \in Nat
    OBVIOUS
  <2> HIDE DEF R, e
  <2>4. Load(w, Append(e, o)) = Load(w, e) + w[o]
    BY <2>1, LoadAppend
  <2> QED BY <2>1, <2>2, <2>3, <2>4
<1> QED BY <1>1, <1>2

Numbered(w, n, k, d, e, I, f, X) ==
  /\ f \in [I -> States(w, n, k, d, e)] /\ X = {f[i] : i \in I}
  /\ \A i, j \in I : i # j => AllRows(f[i]) \cap AllRows(f[j]) = {}
  /\ \A o \in 1 .. n : \E i \in I : o \in AllRows(f[i])

\* States of different rows, one for each number.
LEMMA NumberedStates ==
  ASSUME NEW n \in Nat, NEW w \in [1 .. n -> Nat], NEW k \in Nat \ {0}, NEW d \in Int, NEW e \in BOOLEAN,
         NEW I, IsFiniteSet(I), NEW count, Cardinality(I) = count, NEW f, NEW X,
         Numbered(w, n, k, d, e, I, f, X)
  PROVE  Queue(w, n, k, d, e, count, X)
<1>0. /\ f \in [I -> States(w, n, k, d, e)] /\ X = {f[i] : i \in I}
      /\ \A i, j \in I : i # j => AllRows(f[i]) \cap AllRows(f[j]) = {}
      /\ \A o \in 1 .. n : \E i \in I : o \in AllRows(f[i])
  BY DEF Numbered
<1>1. \A i \in I : AllRows(f[i]) # {}
  BY <1>0, StateHasRow
<1>2. \A i, j \in I : f[i] = f[j] => i = j
  BY <1>0, <1>1
<1>3. f \in Bijection(I, X)
  BY <1>0, <1>2 DEF Bijection, Injection, Surjection, IsInjective
<1>4. IsFiniteSet(X) /\ Cardinality(X) = count
  BY <1>3, FS_Bijection DEF ExistsBijection
<1>5. X \in SUBSET States(w, n, k, d, e)
  BY <1>0
<1>6. \A s, t \in X : s # t => AllRows(s) \cap AllRows(t) = {}
  BY <1>0
<1>7. \A o \in 1 .. n : \E s \in X : o \in AllRows(s)
  BY <1>0
<1> QED BY <1>4, <1>5, <1>6, <1>7 DEF Queue

-----------------------------------------------------------------------------
\* Numbers in lines of k.

\* A line is at least k after the one before it.
LEMMA NextLine ==
  ASSUME NEW k \in Nat \ {0}, NEW a \in Nat, NEW b \in Nat, a < b
  PROVE  a * k + k <= b * k
<1> DEFINE c == b - a - 1
<1>1. c \in Nat /\ b = a + 1 + c
  OBVIOUS
<1> HIDE DEF c
<1>2. (a + 1 + c) * k = a * k + k + c * k /\ c * k >= 0
  BY <1>1
<1> QED BY <1>1, <1>2

\* A number of numbers, and what is left over.
LEMMA Lines ==
  ASSUME NEW k \in Nat \ {0}, NEW n \in Nat
  PROVE  n \div k \in Nat /\ n % k \in 0 .. k - 1 /\ n = ((n \div k) * k) + (n % k)
OBVIOUS

\* Each number has a line and a place in it, and no other has the same.
LEMMA LineAndPlace ==
  ASSUME NEW k \in Nat \ {0}, NEW q \in Nat
  PROVE  /\ \A o \in 0 .. q - 1 : \A i \in 1 .. k : o * k + i \in 1 .. q * k
         /\ \A a, b \in Nat : \A i, j \in 1 .. k : a * k + i = b * k + j => a = b /\ i = j
         /\ \A x \in 1 .. q * k : \E o \in 0 .. q - 1 : \E i \in 1 .. k : x = o * k + i
<1>1. ASSUME NEW o \in 0 .. q - 1, NEW i \in 1 .. k PROVE o * k + i \in 1 .. q * k
  <2>1. o * k + k <= q * k
    BY NextLine
  <2>2. o * k \in Nat /\ q * k \in Nat
    OBVIOUS
  <2> QED BY <2>1, <2>2
<1>2. ASSUME NEW a \in Nat, NEW b \in Nat, NEW i \in 1 .. k, NEW j \in 1 .. k, a * k + i = b * k + j
      PROVE  a = b /\ i = j
  <2>1. a * k \in Int /\ b * k \in Int
    OBVIOUS
  <2>2. ~(a < b)
    BY <1>2, <2>1, NextLine
  <2>3. ~(b < a)
    BY <1>2, <2>1, NextLine
  <2>4. a = b
    BY <2>2, <2>3
  <2>5. a * k = b * k
    BY <2>4
  <2>6. i = j
    BY <1>2, <2>1, <2>5
  <2> QED BY <2>4, <2>6
<1>3. ASSUME NEW x \in 1 .. q * k PROVE \E o \in 0 .. q - 1 : \E i \in 1 .. k : x = o * k + i
  <2> DEFINE o == (x - 1) \div k
             i == (x - 1) % k
  <2>1. x - 1 \in Nat /\ x \in Int /\ q * k \in Int /\ x <= q * k
    OBVIOUS
  <2>2. o \in Nat /\ i \in 0 .. k - 1 /\ x - 1 = o * k + i
    BY <2>1, Lines
  <2> HIDE DEF o, i
  <2>3. o * k \in Int
    BY <2>2
  <2>4. ~(q <= o)
    <3> SUFFICES ASSUME q <= o PROVE FALSE
      OBVIOUS
    <3>1. q = o => q * k = o * k
      OBVIOUS
    <3>2. q < o => q * k + k <= o * k
      BY <2>2, NextLine
    <3>3. q * k <= o * k
      BY <2>1, <2>2, <2>3, <3>1, <3>2
    <3> QED BY <2>1, <2>2, <2>3, <3>3
  <2>5. o \in 0 .. q - 1 /\ i + 1 \in 1 .. k /\ x = o * k + (i + 1)
    BY <2>1, <2>2, <2>3, <2>4
  <2> QED BY <2>5
<1> QED BY <1>1, <1>2, <1>3

-----------------------------------------------------------------------------
\* The queue karmarkar_karp starts with.

\* Loads of single rows differ by at most d.
Apart(w, n, d) == \A a, b \in 1 .. n : w[a] - w[b] <= d

Different(k, n, r) == r \in [1 .. k -> 1 .. n] /\ \A i, j \in 1 .. k : r[i] = r[j] => i = j

\* The state of single rows, and the rows it should have.
RowsAlone(w, n, k, d, r) ==
  StateWith(w, n, k, d, TRUE, {r[i] : i \in 1 .. k}, Descending(w, [i \in 1 .. k |-> <<r[i]>>]))

\* k different rows make a state of equal sets.
LEMMA EqualState ==
  ASSUME NEW n \in Nat, NEW w \in [1 .. n -> Nat], NEW k \in Nat \ {0}, NEW d \in Int, Apart(w, n, d),
         NEW r, Different(k, n, r)
  PROVE  RowsAlone(w, n, k, d, r)
<1> DEFINE u == [i \in 1 .. k |-> <<r[i]>>]
           m == Descending(w, u)
<1>0. r \in [1 .. k -> 1 .. n] /\ \A i, j \in 1 .. k : r[i] = r[j] => i = j
  BY DEF Different
<1>1. ASSUME NEW i \in 1 .. k
      PROVE  /\ u[i] \in Seq(1 .. n) /\ u[i] # <<>> /\ Len(u[i]) = 1 /\ ToSet(u[i]) = {r[i]}
             /\ Distinct(u[i]) /\ Load(w, u[i]) = w[r[i]]
  <2>1. r[i] \in 1 .. n /\ u[i] = <<r[i]>>
    BY <1>0
  <2> QED BY <2>1, OneRow
<1>2. DOMAIN u = 1 .. k /\ u \in [1 .. k -> Seq(1 .. n)]
  BY <1>1
<1> HIDE DEF u
<1>3. Simple(u)
  BY <1>0, <1>1, <1>2 DEF Simple
<1>4. AllRows(u) = {r[i] : i \in 1 .. k}
  <2>1. \A i \in 1 .. k : ToSet(u[i]) = {r[i]}
    BY <1>1
  <2>2. AllRows(u) = UNION {{r[i]} : i \in 1 .. k}
    BY <1>2, <2>1 DEF AllRows
  <2> QED BY <2>2
<1>5. Even(w, d, u)
  <2>1. ASSUME NEW i \in 1 .. k, NEW j \in 1 .. k
        PROVE  Len(u[i]) = Len(u[j]) /\ Load(w, u[i]) - Load(w, u[j]) <= d
    <3>1. r[i] \in 1 .. n /\ r[j] \in 1 .. n
      BY <1>0
    <3>2. w[r[i]] - w[r[j]] <= d
      BY <3>1 DEF Apart
    <3>3. Len(u[i]) = 1 /\ Load(w, u[i]) = w[r[i]]
      BY <1>1
    <3>4. Len(u[j]) = 1 /\ Load(w, u[j]) = w[r[j]]
      BY <1>1
    <3> QED BY <3>2, <3>3, <3>4
  <2> QED BY <1>2, <2>1 DEF Even
<1>6. u[1] # <<>> /\ Balanced(w, d, TRUE, u)
  BY <1>1, <1>5 DEF Balanced
<1>7. m \in States(w, n, k, d, TRUE) /\ AllRows(m) = {r[i] : i \in 1 .. k}
  <2>1. Unordered(w, n, k, d, TRUE, u)
    BY <1>2, <1>3, <1>6 DEF Unordered
  <2>2. StateWith(w, n, k, d, TRUE, AllRows(u), m)
    BY <2>1, DescendingState
  <2> QED BY <1>4, <2>2 DEF StateWith
<1> QED BY <1>7 DEF u, StateWith, RowsAlone

\* One row makes a state of it and of empty sets.
LEMMA UnequalState ==
  ASSUME NEW n \in Nat, NEW w \in [1 .. n -> Nat], NEW k \in Nat \ {0}, NEW d \in Int, NEW o \in 1 .. n
  PROVE  StateWith(w, n, k, d, FALSE, {o}, [i \in 1 .. k |-> IF i = 1 THEN <<o>> ELSE <<>>])
<1> DEFINE s == [i \in 1 .. k |-> IF i = 1 THEN <<o>> ELSE <<>>]
           e == <<>>
<1>1. e \in Seq(1 .. n) /\ Len(e) = 0 /\ ToSet(e) = {} /\ Distinct(e) /\ Load(w, e) = 0
  BY LoadEmpty DEF ToSet, Distinct
<1>2. DOMAIN s = 1 .. k /\ s[1] = <<o>> /\ \A i \in 2 .. k : s[i] = e
  OBVIOUS
<1>3. s \in [1 .. k -> Seq(1 .. n)]
  BY <1>1, OneRow
<1> HIDE DEF s
<1>4. /\ s[1] \in Seq(1 .. n) /\ s[1] # <<>> /\ Len(s[1]) = 1 /\ ToSet(s[1]) = {o} /\ Distinct(s[1])
  BY <1>2, OneRow
<1>5. ASSUME NEW i \in 2 .. k
      PROVE  Len(s[i]) = 0 /\ ToSet(s[i]) = {} /\ Distinct(s[i]) /\ s[i] = e
  BY <1>1, <1>2
<1>6. \A i \in 1 .. k : i = 1 \/ i \in 2 .. k
  OBVIOUS
<1>7. Simple(s)
  <2>1. \A i \in 1 .. k : Distinct(s[i])
    BY <1>4, <1>5, <1>6
  <2>2. ASSUME NEW i \in 1 .. k, NEW j \in 1 .. k, i # j PROVE ToSet(s[i]) \cap ToSet(s[j]) = {}
    BY <1>5, <1>6, <2>2
  <2> QED BY <1>2, <2>1, <2>2 DEF Simple
<1>8. AllRows(s) = {o}
  <2>1. o \in AllRows(s)
    BY <1>2, <1>4 DEF AllRows
  <2>2. ASSUME NEW x \in AllRows(s) PROVE x = o
    <3>1. PICK i \in 1 .. k : x \in ToSet(s[i])
      BY <1>2 DEF AllRows
    <3> QED BY <1>4, <1>5, <1>6, <3>1
  <2> QED BY <2>1, <2>2
<1>9. Filled(s)
  <2>1. ASSUME NEW i \in 1 .. k PROVE Len(s[i]) <= 1
    <3>1. CASE i = 1
      <4>1. Len(s[1]) = 1
        BY <1>4
      <4>2. Len(s[i]) = 1
        BY <3>1, <4>1
      <4> QED BY <4>2
    <3>2. CASE i \in 2 .. k
      <4>1. Len(s[i]) = 0
        BY <1>5, <3>2
      <4> QED BY <4>1
    <3> QED BY <1>6, <3>1, <3>2
  <2> QED BY <1>2, <2>1 DEF Filled
<1>10. InOrder(w, s)
  <2>1. ASSUME NEW i \in 1 .. k, NEW j \in 1 .. k, i < j PROVE ~Heavier(w, s[j], s[i])
    <3>1. s[j] = e
      BY <1>5, <2>1
    <3> DEFINE a == s[i]
    <3>2. a \in Seq(1 .. n)
      BY <1>3
    <3> HIDE DEF a
    <3>3. Load(w, a) \in Nat /\ Len(a) \in Nat
      BY <3>2, LoadType, FirstRow
    <3>4. ~Heavier(w, e, a)
      BY <1>1, <3>3 DEF Heavier
    <3> QED BY <3>1, <3>4 DEF a
  <2> QED BY <1>2, <2>1 DEF InOrder
<1>11. s \in States(w, n, k, d, FALSE)
  BY <1>3, <1>4, <1>7, <1>9, <1>10 DEF States, Balanced
<1> QED BY <1>8, <1>11 DEF s, StateWith

\* How many states there are at first.
Count(n, k, e) == IF e THEN n \div k ELSE n

\* Sizes that get_seqlen_balanced_partitions lets pass, over rows 1 to n.
Fits(n, k, e) == n >= k /\ (e => n % k = 0)

\* As many rows as states times k, when sizes are equal.
LEMMA CountIs ==
  ASSUME NEW n \in Nat, NEW k \in Nat \ {0}, NEW e \in BOOLEAN, Fits(n, k, e)
  PROVE  Count(n, k, e) \in Nat \ {0} /\ (e => Count(n, k, e) * k = n)
<1> DEFINE q == n \div k
<1>1. q \in Nat /\ n % k \in 0 .. k - 1 /\ n = (q * k) + (n % k)
  BY Lines
<1> HIDE DEF q
<1>2. CASE e
  <2>1. n = q * k
    BY <1>1, <1>2 DEF Fits
  <2>2. q # 0
    BY <2>1 DEF Fits
  <2> QED BY <1>1, <1>2, <2>1, <2>2 DEF Count, q
<1>3. CASE ~e
  BY <1>3 DEF Count, Fits
<1> QED BY <1>2, <1>3

\* The states of k rows each.
LEMMA EqualStates ==
  ASSUME NEW n \in Nat, NEW w \in [1 .. n -> Nat], NEW k \in Nat \ {0}, NEW d \in Int, Apart(w, n, d),
         Fits(n, k, TRUE)
  PROVE  Queue(w, n, k, d, TRUE, n \div k, FirstStates(w, k, TRUE))
<1> DEFINE order == Ascending(w)
           q     == n \div k
           I     == 0 .. q - 1
           Of(o) == [i \in 1 .. k |-> order[o * k + i]]
           f     == [o \in I |-> Descending(w, [i \in 1 .. k |-> <<order[o * k + i]>>])]
<1>1. q \in Nat \ {0} /\ q * k = n
  BY CountIs DEF Count
<1>2. Len(w) = n
  OBVIOUS
<1>3. FirstStates(w, k, TRUE) = {f[o] : o \in I}
  BY <1>2 DEF FirstStates
<1>4. order \in Orders(n)
  BY AscendingIs
<1> HIDE DEF order, q
<1>5. /\ order \in [1 .. n -> 1 .. n] /\ \A x, y \in 1 .. n : order[x] = order[y] => x = y
      /\ \A y \in 1 .. n : \E x \in 1 .. n : order[x] = y
  BY <1>4 DEF Orders
<1>6. /\ \A o \in I : \A i \in 1 .. k : o * k + i \in 1 .. n
      /\ \A a, b \in Nat : \A i, j \in 1 .. k : a * k + i = b * k + j => a = b /\ i = j
      /\ \A x \in 1 .. n : \E o \in I : \E i \in 1 .. k : x = o * k + i
  BY <1>1, LineAndPlace
<1>7. ASSUME NEW o \in I
      PROVE  StateWith(w, n, k, d, TRUE, {Of(o)[i] : i \in 1 .. k}, f[o])
  <2> DEFINE r == Of(o)
  <2>1. \A i \in 1 .. k : o * k + i \in 1 .. n /\ r[i] = order[o * k + i]
    BY <1>6
  <2>2. [i \in 1 .. k |-> <<order[o * k + i]>>] = [i \in 1 .. k |-> <<r[i]>>]
    BY <2>1
  <2>3. r \in [1 .. k -> 1 .. n]
    BY <1>5, <2>1
  <2>4. f[o] = Descending(w, [i \in 1 .. k |-> <<r[i]>>])
    BY <2>2
  <2> HIDE DEF r, f
  <2>5. ASSUME NEW i \in 1 .. k, NEW j \in 1 .. k, r[i] = r[j] PROVE i = j
    <3>1. o * k + i = o * k + j
      BY <1>5, <2>1, <2>5
    <3> QED BY <1>6, <3>1
  <2>6. Different(k, n, r)
    BY <2>3, <2>5 DEF Different
  <2>7. RowsAlone(w, n, k, d, r)
    BY <2>6, EqualState
  <2> QED BY <2>4, <2>7 DEF r, RowsAlone
<1> HIDE DEF f
<1>8. ASSUME NEW o \in I
      PROVE  f[o] \in States(w, n, k, d, TRUE) /\ AllRows(f[o]) = {order[o * k + i] : i \in 1 .. k}
  <2>1. \A i \in 1 .. k : Of(o)[i] = order[o * k + i]
    OBVIOUS
  <2>2. {Of(o)[i] : i \in 1 .. k} = {order[o * k + i] : i \in 1 .. k}
    BY <2>1
  <2> QED BY <1>7, <2>2 DEF StateWith
<1>9. ASSUME NEW a \in I, NEW b \in I, a # b PROVE AllRows(f[a]) \cap AllRows(f[b]) = {}
  <2> SUFFICES ASSUME NEW x \in AllRows(f[a]), x \in AllRows(f[b]) PROVE FALSE
    OBVIOUS
  <2>1. PICK i \in 1 .. k : x = order[a * k + i]
    BY <1>8
  <2>2. PICK j \in 1 .. k : x = order[b * k + j]
    BY <1>8
  <2>3. a * k + i = b * k + j
    BY <1>5, <1>6, <2>1, <2>2
  <2> QED BY <1>6, <1>9, <2>3
<1>10. ASSUME NEW y \in 1 .. n PROVE \E o \in I : y \in AllRows(f[o])
  <2>1. PICK x \in 1 .. n : order[x] = y
    BY <1>5
  <2>2. PICK o \in I, i \in 1 .. k : x = o * k + i
    BY <1>6
  <2>3. y \in {order[o * k + j] : j \in 1 .. k}
    BY <2>1, <2>2
  <2> QED BY <1>8, <2>3
<1>11. IsFiniteSet(I) /\ Cardinality(I) = q
  <2>1. q - 1 \in Int /\ (q - 1) - 0 + 1 = q /\ ~(0 > q - 1)
    BY <1>1
  <2> QED BY <2>1, FS_Interval
<1>12. f \in [I -> States(w, n, k, d, TRUE)]
  BY <1>8 DEF f
<1> HIDE DEF I
<1>13. Queue(w, n, k, d, TRUE, q, {f[o] : o \in I})
  <2>1. Numbered(w, n, k, d, TRUE, I, f, {f[o] : o \in I})
    BY <1>9, <1>10, <1>12 DEF Numbered
  <2> QED BY <1>11, <2>1, NumberedStates
<1> QED BY <1>3, <1>13 DEF q

\* The states of one row each.
LEMMA UnequalStates ==
  ASSUME NEW n \in Nat, NEW w \in [1 .. n -> Nat], NEW k \in Nat \ {0}, NEW d \in Int
  PROVE  Queue(w, n, k, d, FALSE, n, FirstStates(w, k, FALSE))
<1> DEFINE I == 1 .. n
           f == [o \in I |-> [i \in 1 .. k |-> IF i = 1 THEN <<o>> ELSE <<>>]]
<1>1. FirstStates(w, k, FALSE) = {f[o] : o \in I}
  BY DEF FirstStates
<1>2. ASSUME NEW o \in I PROVE StateWith(w, n, k, d, FALSE, {o}, f[o])
  <2>1. StateWith(w, n, k, d, FALSE, {o}, [i \in 1 .. k |-> IF i = 1 THEN <<o>> ELSE <<>>])
    BY UnequalState
  <2> QED BY <2>1
<1>3. f = [o \in I |-> f[o]]
  OBVIOUS
<1> HIDE DEF f
<1>4. \A o \in I : f[o] \in States(w, n, k, d, FALSE) /\ AllRows(f[o]) = {o}
  BY <1>2 DEF StateWith
<1>5. f \in [I -> States(w, n, k, d, FALSE)]
  BY <1>3, <1>4
<1>6. \A a, b \in I : a # b => AllRows(f[a]) \cap AllRows(f[b]) = {}
  BY <1>4
<1>7. \A o \in 1 .. n : \E i \in I : o \in AllRows(f[i])
  BY <1>4
<1>8. IsFiniteSet(I) /\ Cardinality(I) = n
  BY FS_Interval
<1> HIDE DEF I
<1>9. Queue(w, n, k, d, FALSE, n, {f[o] : o \in I})
  <2>1. Numbered(w, n, k, d, FALSE, I, f, {f[o] : o \in I})
    BY <1>5, <1>6, <1>7 DEF Numbered
  <2> QED BY <1>8, <2>1, NumberedStates
<1> QED BY <1>1, <1>9

-----------------------------------------------------------------------------
\* karmarkar_karp.

Merged(w, k, e, last) ==
  \E after : /\ after = [m \in 0 .. last |->
                           IF m = 0 THEN FirstStates(w, k, e) ELSE MergeTwo(w, after[m - 1])]
              /\ KarmarkarKarp(w, k, e) = CHOOSE s \in after[last] : TRUE

\* The queues that KarmarkarKarp's recursion defines exist.
LEMMA KarmarkarKarpHas ==
  ASSUME NEW n \in Nat, NEW w \in [1 .. n -> Nat], NEW k, NEW e \in BOOLEAN,
         NEW last \in Nat, last = Count(n, k, e) - 1
  PROVE  Merged(w, k, e, last)
<1> DEFINE Upto(b) == \E after : after = [m \in 0 .. b |->
                                 IF m = 0 THEN FirstStates(w, k, e) ELSE MergeTwo(w, after[m - 1])]
           N == {b \in Nat : Upto(b)}
<1>1. 0 \in N
  <2> DEFINE g == [m \in 0 .. 0 |-> FirstStates(w, k, e)]
  <2>1. g = [m \in 0 .. 0 |-> IF m = 0 THEN FirstStates(w, k, e) ELSE MergeTwo(w, g[m - 1])]
    OBVIOUS
  <2> QED BY <2>1
<1>2. ASSUME NEW b \in N PROVE b + 1 \in N
  <2>1. PICK f : f = [m \in 0 .. b |-> IF m = 0 THEN FirstStates(w, k, e) ELSE MergeTwo(w, f[m - 1])]
    OBVIOUS
  <2> DEFINE g == [m \in 0 .. b + 1 |-> IF m = b + 1 THEN MergeTwo(w, f[b]) ELSE f[m]]
  <2>2. ASSUME NEW m \in 0 .. b + 1
        PROVE  g[m] = IF m = 0 THEN FirstStates(w, k, e) ELSE MergeTwo(w, g[m - 1])
    <3>1. CASE m = b + 1
      BY <3>1
    <3>2. CASE m \in 0 .. b
      <4>1. f[m] = IF m = 0 THEN FirstStates(w, k, e) ELSE MergeTwo(w, f[m - 1])
        BY <2>1, <3>2
      <4> QED BY <4>1, <3>2
    <3> QED BY <3>1, <3>2
  <2>3. g = [m \in 0 .. b + 1 |-> IF m = 0 THEN FirstStates(w, k, e) ELSE MergeTwo(w, g[m - 1])]
    BY <2>2
  <2> HIDE DEF g
  <2> QED BY <2>3
<1> HIDE DEF N
<1>3. N = Nat
  <2>1. N \in SUBSET Nat
    BY DEF N
  <2> QED BY <1>1, <1>2, <2>1, Upward
<1>4. Upto(last)
  BY <1>3 DEF N
<1> DEFINE queues == CHOOSE after : after = [m \in 0 .. last |->
                       IF m = 0 THEN FirstStates(w, k, e) ELSE MergeTwo(w, after[m - 1])]
<1>5. queues = [m \in 0 .. last |-> IF m = 0 THEN FirstStates(w, k, e) ELSE MergeTwo(w, queues[m - 1])]
  BY <1>4
<1>6. last = (IF e THEN Len(w) \div k ELSE Len(w)) - 1
  <2>1. Len(w) = n
    OBVIOUS
  <2> QED BY <2>1 DEF Count
<1>7. KarmarkarKarp(w, k, e) = CHOOSE s \in queues[last] : TRUE
  BY <1>6 DEF KarmarkarKarp
<1> HIDE DEF queues
<1> QED BY <1>5, <1>7 DEF Merged

\* Its result is a state of all rows.
LEMMA KarmarkarKarpIs ==
  ASSUME NEW n \in Nat, NEW w \in [1 .. n -> Nat], NEW k \in Nat \ {0}, NEW d \in Int, NEW e \in BOOLEAN,
         Fits(n, k, e), Apart(w, n, d)
  PROVE  StateWith(w, n, k, d, e, 1 .. n, KarmarkarKarp(w, k, e))
<1> DEFINE count == Count(n, k, e)
           last  == count - 1
<1>1. count \in Nat \ {0}
  BY CountIs
<1> HIDE DEF count
<1>2. last \in Nat
  BY <1>1
<1> HIDE DEF last
<1>3. PICK after : /\ after = [m \in 0 .. last |->
                               IF m = 0 THEN FirstStates(w, k, e) ELSE MergeTwo(w, after[m - 1])]
                   /\ KarmarkarKarp(w, k, e) = CHOOSE s \in after[last] : TRUE
  <2>1. last = Count(n, k, e) - 1
    BY DEF last, count
  <2>2. Merged(w, k, e, last)
    BY <1>2, <2>1, KarmarkarKarpHas
  <2> QED BY <2>2 DEF Merged
<1>4. after[0] = FirstStates(w, k, e) /\ \A m \in 1 .. last : after[m] = MergeTwo(w, after[m - 1])
  BY <1>2, <1>3
<1> DEFINE Q(m) == Queue(w, n, k, d, e, count - m, after[m])
           N == {m \in Nat : m <= last => Q(m)}
<1>5. Q(0)
  <2>1. Queue(w, n, k, d, e, count, FirstStates(w, k, e))
    <3>1. CASE e = TRUE
      BY <3>1, EqualStates DEF count, Count
    <3>2. CASE e = FALSE
      BY <3>2, UnequalStates DEF count, Count
    <3> QED BY <3>1, <3>2
  <2>2. count - 0 = count
    BY <1>1
  <2> QED BY <1>4, <2>1, <2>2
<1>6. ASSUME NEW m \in Nat, m + 1 <= last, Q(m) PROVE Q(m + 1)
  <2> DEFINE c == count - m
             X == after[m]
  <2>1. c \in Nat /\ c > 1 /\ c - 1 = count - (m + 1)
    BY <1>1, <1>2, <1>6 DEF last
  <2>2. after[m + 1] = MergeTwo(w, X)
    <3>1. m + 1 \in 1 .. last /\ (m + 1) - 1 = m
      BY <1>2, <1>6
    <3> QED BY <1>4, <3>1
  <2>3. Queue(w, n, k, d, e, c, X)
    BY <1>6
  <2> HIDE DEF c, X
  <2>4. Queue(w, n, k, d, e, c - 1, MergeTwo(w, X))
    BY <2>1, <2>3, MergeTwoIs
  <2> QED BY <2>1, <2>2, <2>4
<1> HIDE DEF Q
<1>7. N = Nat
  <2>1. 0 \in N /\ N \in SUBSET Nat
    BY <1>5
  <2>2. ASSUME NEW m \in N PROVE m + 1 \in N
    <3>1. CASE m + 1 <= last
      BY <1>2, <1>6, <3>1
    <3> QED BY <3>1
  <2> HIDE DEF N
  <2> QED BY <2>1, <2>2, Upward
<1>8. Q(last)
  BY <1>2, <1>7
<1> DEFINE X == after[last]
           s == KarmarkarKarp(w, k, e)
<1>9. Queue(w, n, k, d, e, 1, X)
  <2>1. count - last = 1
    BY <1>1 DEF last
  <2> QED BY <1>8, <2>1 DEF Q
<1>10. s = CHOOSE x \in X : TRUE
  BY <1>3
<1> HIDE DEF X, s
<1>11. /\ X \in SUBSET States(w, n, k, d, e) /\ IsFiniteSet(X) /\ Cardinality(X) = 1
       /\ \A o \in 1 .. n : \E t \in X : o \in AllRows(t)
  BY <1>9 DEF Queue
<1>12. PICK t : X = {t}
  BY <1>11, FS_Singleton
<1>13. s = t
  BY <1>10, <1>12
<1>14. s \in States(w, n, k, d, e) /\ 1 .. n \subseteq AllRows(s)
  BY <1>11, <1>12, <1>13
<1>15. AllRows(s) \subseteq 1 .. n
  <2> SUFFICES ASSUME NEW x \in AllRows(s) PROVE x \in 1 .. n
    OBVIOUS
  <2>1. s \in [1 .. k -> Seq(1 .. n)]
    BY <1>14 DEF States
  <2>2. PICK i \in 1 .. k : x \in ToSet(s[i])
    BY <2>1 DEF AllRows
  <2> DEFINE a == s[i]
  <2>3. a \in Seq(1 .. n) /\ x \in ToSet(a)
    BY <2>1, <2>2
  <2> HIDE DEF a
  <2> QED BY <2>3 DEF ToSet
<1>16. StateWith(w, n, k, d, e, 1 .. n, s)
  BY <1>14, <1>15 DEF StateWith
<1> QED BY <1>16 DEF s

-----------------------------------------------------------------------------
\* Partitions.

\* Rows of a list.
LEMMA RowsIn ==
  ASSUME NEW R, NEW a \in Seq(R)
  PROVE  ToSet(a) \subseteq R
BY DEF ToSet

MovedBy(p, m, a, b) == b = [i \in 1 .. m |-> a[p[i]]]

\* Another order of a list keeps its rows.
LEMMA Moved ==
  ASSUME NEW R, NEW m \in Nat, NEW a \in [1 .. m -> R], NEW p \in Orders(m), NEW b,
         MovedBy(p, m, a, b)
  PROVE  b \in Seq(R) /\ Len(b) = m /\ ToSet(b) = ToSet(a) /\ (Distinct(a) => Distinct(b))
<1>1. /\ p \in [1 .. m -> 1 .. m] /\ \A i, j \in 1 .. m : p[i] = p[j] => i = j
      /\ \A j \in 1 .. m : \E i \in 1 .. m : p[i] = j
  BY DEF Orders
<1>2. DOMAIN a = 1 .. m /\ DOMAIN b = 1 .. m /\ \A i \in 1 .. m : b[i] = a[p[i]] /\ p[i] \in 1 .. m
  BY <1>1 DEF MovedBy
<1>3. b \in [1 .. m -> R]
  BY <1>1 DEF MovedBy
<1>4. b \in Seq(R) /\ Len(b) = m
  BY <1>3
<1>5. ToSet(b) = ToSet(a)
  <2>1. ASSUME NEW x \in ToSet(b) PROVE x \in ToSet(a)
    <3>1. PICK i \in 1 .. m : x = b[i]
      BY <1>2 DEF ToSet
    <3>2. p[i] \in DOMAIN a /\ x = a[p[i]]
      BY <1>2, <3>1
    <3> QED BY <3>2 DEF ToSet
  <2>2. ASSUME NEW x \in ToSet(a) PROVE x \in ToSet(b)
    <3>1. PICK j \in 1 .. m : x = a[j]
      BY <1>2 DEF ToSet
    <3>2. PICK i \in 1 .. m : p[i] = j
      BY <1>1
    <3>3. i \in DOMAIN b /\ x = b[i]
      BY <1>2, <3>1, <3>2
    <3> QED BY <3>3 DEF ToSet
  <2> QED BY <2>1, <2>2
<1>6. ASSUME Distinct(a) PROVE Distinct(b)
  <2>1. ASSUME NEW i \in 1 .. m, NEW j \in 1 .. m, b[i] = b[j] PROVE i = j
    <3>1. a[p[i]] = a[p[j]] /\ p[i] \in DOMAIN a /\ p[j] \in DOMAIN a
      BY <1>2, <2>1
    <3>2. p[i] = p[j]
      BY <1>6, <3>1 DEF Distinct
    <3> QED BY <1>1, <3>2
  <2> QED BY <1>2, <2>1 DEF Distinct
<1> QED BY <1>4, <1>5, <1>6

\* The rows of a list in increasing order.
Climbing(b) == \A i, j \in DOMAIN b : i < j => b[i] < b[j]

\* Increasing keeps the rows, and puts them in that order.
LEMMA IncreasingIs ==
  ASSUME NEW R \in SUBSET Int, NEW a \in Seq(R), Distinct(a)
  PROVE  /\ Increasing(a) \in Seq(R) /\ Len(Increasing(a)) = Len(a)
         /\ ToSet(Increasing(a)) = ToSet(a) /\ Distinct(Increasing(a)) /\ Climbing(Increasing(a))
<1> DEFINE m == Len(a)
           smaller == {p \in Pairs(a) : a[p[1]] < a[p[2]]}
           b == Increasing(a)
<1>1. m \in Nat /\ DOMAIN a = 1 .. m /\ a \in [1 .. m -> R] /\ \A i \in 1 .. m : a[i] \in Int
  <2>1. m \in Nat /\ DOMAIN a = 1 .. m /\ a \in [1 .. m -> R]
    OBVIOUS
  <2>2. \A i \in 1 .. m : a[i] \in R
    BY <2>1
  <2> QED BY <2>1, <2>2
<1>2. \A i, j \in 1 .. m : <<i, j>> \in smaller <=> a[i] < a[j]
  BY <1>1 DEF Pairs
<1>3. b = Sorted(a, smaller)
  BY DEF Increasing
<1> HIDE DEF m, smaller, b
<1>4. ByNumber(m, a, a, b)
  BY <1>1, <1>2, <1>3, SortedByNumber
<1>5. PICK p \in Orders(m) : /\ b = [i \in 1 .. m |-> a[p[i]]]
                             /\ \A i, j \in 1 .. m : i < j => a[p[i]] <= a[p[j]]
  BY <1>4 DEF ByNumber
<1>6. b \in Seq(R) /\ Len(b) = m /\ ToSet(b) = ToSet(a) /\ Distinct(b)
  <2>1. a \in [1 .. m -> R] /\ MovedBy(p, m, a, b)
    BY <1>1, <1>5 DEF MovedBy
  <2>2. b \in Seq(R) /\ Len(b) = m /\ ToSet(b) = ToSet(a) /\ (Distinct(a) => Distinct(b))
    BY <1>1, <2>1, Moved
  <2> QED BY <2>2
<1>7. Climbing(b)
  <2>1. ASSUME NEW i \in 1 .. m, NEW j \in 1 .. m, i < j PROVE b[i] < b[j]
    <3>1. b[i] = a[p[i]] /\ b[j] = a[p[j]] /\ b[i] <= b[j]
      BY <1>5, <2>1
    <3>2. DOMAIN b = 1 .. m /\ b[i] \in Int /\ b[j] \in Int /\ i # j
      <4>1. DOMAIN b = 1 .. m /\ b[i] \in R /\ b[j] \in R /\ i # j
        BY <1>1, <1>6, <2>1
      <4> QED BY <4>1
    <3>3. b[i] # b[j]
      BY <1>6, <3>2 DEF Distinct
    <3> QED BY <3>1, <3>2, <3>3
  <2>2. DOMAIN b = 1 .. m
    BY <1>6
  <2> QED BY <2>1, <2>2 DEF Climbing
<1> QED BY <1>6, <1>7 DEF b, m

\* What a state of all rows comes to.
Partitioned(w, n, k, d, e, s) ==
  /\ s \in [1 .. k -> Seq(1 .. n)]
  /\ \A i \in 1 .. k : s[i] # <<>> /\ Distinct(s[i])
  /\ \A i, j \in 1 .. k : i # j => ToSet(s[i]) \cap ToSet(s[j]) = {}
  /\ \A o \in 1 .. n : \E i \in 1 .. k : o \in ToSet(s[i])
  /\ e => /\ \A i \in 1 .. k : Len(s[i]) * k = n
          /\ \A i, j \in 1 .. k : Load(w, s[i]) - Load(w, s[j]) <= d

\* No set of such a state is empty.
LEMMA NoneEmpty ==
  ASSUME NEW n \in Nat, NEW w, NEW k \in Nat \ {0}, NEW d, NEW e \in BOOLEAN,
         Fits(n, k, e), NEW s, StateWith(w, n, k, d, e, 1 .. n, s)
  PROVE  \A i \in 1 .. k : s[i] # <<>>
<1>1. /\ s \in [1 .. k -> Seq(1 .. n)] /\ s[1] # <<>> /\ AllRows(s) = 1 .. n
      /\ (e => Even(w, d, s)) /\ (~e => Filled(s))
  BY DEF StateWith, States, Balanced
<1>2. DOMAIN s = 1 .. k /\ 1 \in 1 .. k
  BY <1>1
<1>3. \A i \in 1 .. k : Len(s[i]) \in Nat /\ (Len(s[i]) = 0 <=> s[i] = <<>>) /\ s[i] \in Seq(1 .. n)
  BY <1>1, FirstRow
<1>4. CASE e
  <2>1. ASSUME NEW i \in 1 .. k PROVE s[i] # <<>>
    <3>1. Len(s[i]) = Len(s[1])
      BY <1>1, <1>2, <1>4 DEF Even
    <3>2. Len(s[1]) # 0
      BY <1>1, <1>2, <1>3
    <3> QED BY <1>3, <3>1, <3>2
  <2> QED BY <2>1
<1>5. CASE \A i \in 1 .. k : s[i] # <<>>
  BY <1>5
<1>6. CASE \A i \in 1 .. k : Len(s[i]) <= 1
  <2> SUFFICES ASSUME NEW i \in 1 .. k, s[i] = <<>> PROVE FALSE
    OBVIOUS
  <2>0. IsFiniteSet(1 .. n) /\ Cardinality(1 .. n) = n
    BY FS_Interval
  <2> DEFINE S == 1 .. n
             T == (1 .. k) \ {i}
             f == [o \in S |-> CHOOSE j \in 1 .. k : o \in ToSet(s[j])]
  <2>1. ToSet(s[i]) = {}
    BY DEF ToSet
  <2>2. ASSUME NEW o \in S PROVE f[o] \in T /\ o \in ToSet(s[f[o]])
    <3>1. \E j \in 1 .. k : o \in ToSet(s[j])
      BY <1>1, <1>2 DEF AllRows
    <3>2. f[o] \in 1 .. k /\ o \in ToSet(s[f[o]])
      BY <3>1
    <3> QED BY <2>1, <3>2
  <2>3. IsFiniteSet(S) /\ Cardinality(S) = n
    BY <2>0
  <2>4. IsFiniteSet(1 .. k) /\ Cardinality(1 .. k) = k
    BY FS_Interval
  <2>5. IsFiniteSet(T) /\ Cardinality(T) = k - 1
    BY <2>4, FS_RemoveElement
  <2>6. k - 1 < n
    BY DEF Fits
  <2>7. f \in [S -> T]
    BY <2>2
  <2> HIDE DEF f, S, T
  <2>8. PICK x \in S, y \in S : x # y /\ f[x] = f[y]
    BY <2>3, <2>5, <2>6, <2>7, FS_PigeonHole
  <2> DEFINE j == f[x]
  <2>9. j \in 1 .. k /\ x \in ToSet(s[j]) /\ y \in ToSet(s[j])
    BY <2>2, <2>8 DEF T
  <2> HIDE DEF j
  <2> DEFINE a == s[j]
  <2>10. Len(a) \in Nat /\ Len(a) <= 1 /\ a \in Seq(1 .. n)
    BY <1>3, <1>6, <2>9
  <2> HIDE DEF a
  <2>11. \A v \in ToSet(a) : v = a[1]
    <3>1. DOMAIN a \subseteq {1}
      BY <2>10
    <3> QED BY <3>1 DEF ToSet
  <2> QED BY <2>8, <2>9, <2>11 DEF a
<1> QED BY <1>1, <1>2, <1>4, <1>5, <1>6 DEF Filled

EquallyMany(n, k, s) == \A i \in 1 .. k : Len(s[i]) * k = n

\* With equal sizes each set has its share of the rows.
LEMMA EqualShares ==
  ASSUME NEW n \in Nat, NEW w, NEW k \in Nat \ {0}, NEW d,
         NEW s, StateWith(w, n, k, d, TRUE, 1 .. n, s)
  PROVE  EquallyMany(n, k, s)
<1>1. s \in [1 .. k -> Seq(1 .. n)] /\ AllRows(s) = 1 .. n /\ Even(w, d, s) /\ Simple(s)
  BY DEF StateWith, States, Balanced
<1> DEFINE L == Len(s[1])
<1>2. DOMAIN s = 1 .. k /\ 1 \in 1 .. k /\ L \in Nat
  BY <1>1
<1>3. ASSUME NEW i \in 1 .. k PROVE Len(s[i]) = L /\ DOMAIN s[i] = 1 .. L /\ s[i] \in [1 .. L -> 1 .. n]
  <2>1. Len(s[i]) = L
    BY <1>1, <1>2 DEF Even
  <2> QED BY <1>1, <2>1
<1> HIDE DEF L
<1> DEFINE I == 1 .. k
           J == 1 .. L
           C == I \X J
           N == 1 .. n
           f == [c \in C |-> s[c[1]][c[2]]]
<1>4. \A i \in I, j \in J : <<i, j>> \in C /\ f[<<i, j>>] = s[i][j]
  OBVIOUS
<1>5. \A c \in C : \E i \in I, j \in J : c = <<i, j>>
  OBVIOUS
<1>6. f \in [C -> N]
  <2>1. \A i \in I, j \in J : s[i][j] \in N
    BY <1>3
  <2> QED BY <2>1
<1> HIDE DEF C, f
<1>7. ASSUME NEW i \in I, NEW j \in J, NEW a \in I, NEW b \in J, s[i][j] = s[a][b] PROVE i = a /\ j = b
  <2>1. s[i][j] \in ToSet(s[i]) /\ s[a][b] \in ToSet(s[a])
    BY <1>3 DEF ToSet
  <2>2. i = a
    BY <1>1, <1>2, <1>7, <2>1 DEF Simple
  <2>3. Distinct(s[i])
    BY <1>1, <1>2 DEF Simple
  <2>4. j = b
    BY <1>3, <1>7, <2>2, <2>3 DEF Distinct
  <2> QED BY <2>2, <2>4
<1>8. \A c1, c2 \in C : f[c1] = f[c2] => c1 = c2
  BY <1>4, <1>5, <1>7
<1>9. ASSUME NEW o \in N PROVE \E c \in C : f[c] = o
  <2>1. PICK i \in I : o \in ToSet(s[i])
    BY <1>1, <1>2 DEF AllRows
  <2>2. PICK j \in J : o = s[i][j]
    BY <1>3, <2>1 DEF ToSet
  <2> QED BY <1>4, <2>2
<1>10. f \in Bijection(C, N)
  BY <1>6, <1>8, <1>9 DEF Bijection, Injection, Surjection, IsInjective
<1>11. IsFiniteSet(I) /\ Cardinality(I) = k /\ IsFiniteSet(J) /\ Cardinality(J) = L
  BY <1>2, FS_Interval
<1>12. IsFiniteSet(C) /\ Cardinality(C) = k * L
  <2> HIDE DEF I, J
  <2> QED BY <1>11, FS_Product DEF C
<1>13. Cardinality(N) = Cardinality(C)
  BY <1>10, <1>12, FS_Bijection DEF ExistsBijection
<1>14. Cardinality(N) = n
  BY FS_Interval
<1>15. k * L = n /\ L * k = k * L
  BY <1>2, <1>12, <1>13, <1>14
<1> QED BY <1>3, <1>15 DEF EquallyMany

\* Sorting the rows of each set changes none of this.
LEMMA SortedPartitions ==
  ASSUME NEW n \in Nat, NEW w \in [1 .. n -> Nat], NEW k \in Nat \ {0}, NEW d \in Int, NEW e \in BOOLEAN,
         Fits(n, k, e), Apart(w, n, d)
  PROVE  /\ Partitioned(w, n, k, d, e, BalancedPartitions(w, k, e))
         /\ \A i \in 1 .. k : Climbing(BalancedPartitions(w, k, e)[i])
<1> DEFINE s == KarmarkarKarp(w, k, e)
           b == BalancedPartitions(w, k, e)
<1>1. StateWith(w, n, k, d, e, 1 .. n, s)
  BY KarmarkarKarpIs
<1> HIDE DEF s
<1>2. /\ s \in [1 .. k -> Seq(1 .. n)] /\ AllRows(s) = 1 .. n /\ Simple(s) /\ (e => Even(w, d, s))
  BY <1>1 DEF StateWith, States, Balanced
<1>3. DOMAIN s = 1 .. k /\ \A i \in 1 .. k : s[i] # <<>>
  BY <1>1, <1>2, NoneEmpty
<1>4. ASSUME e PROVE \A i \in 1 .. k : Len(s[i]) * k = n
  <2>1. e = TRUE
    BY <1>4
  <2>2. StateWith(w, n, k, d, TRUE, 1 .. n, s)
    BY <1>1, <2>1
  <2>3. EquallyMany(n, k, s)
    BY <2>2, EqualShares
  <2> QED BY <2>3 DEF EquallyMany
<1>5. b = [i \in 1 .. k |-> Increasing(s[i])]
  BY <1>3 DEF BalancedPartitions, s
<1> HIDE DEF b
<1>6. ASSUME NEW i \in 1 .. k
      PROVE  /\ b[i] \in Seq(1 .. n) /\ Len(b[i]) = Len(s[i]) /\ ToSet(b[i]) = ToSet(s[i])
             /\ Distinct(b[i]) /\ Climbing(b[i]) /\ b[i] # <<>> /\ Load(w, b[i]) = Load(w, s[i])
  <2> DEFINE a == s[i]
             c == b[i]
  <2>1. a \in Seq(1 .. n) /\ Distinct(a) /\ a # <<>> /\ c = Increasing(a)
    BY <1>2, <1>3, <1>5 DEF Simple
  <2> HIDE DEF a, c
  <2>2. /\ c \in Seq(1 .. n) /\ Len(c) = Len(a) /\ ToSet(c) = ToSet(a) /\ Distinct(c) /\ Climbing(c)
    <3> DEFINE R == 1 .. n
    <3>1. R \in SUBSET Int /\ a \in Seq(R)
      BY <2>1
    <3> HIDE DEF R
    <3>2. /\ Increasing(a) \in Seq(R) /\ Len(Increasing(a)) = Len(a)
          /\ ToSet(Increasing(a)) = ToSet(a) /\ Distinct(Increasing(a)) /\ Climbing(Increasing(a))
      BY <2>1, <3>1, IncreasingIs
    <3> QED BY <2>1, <3>2 DEF R
  <2>3. c # <<>>
    BY <2>1, <2>2, FirstRow
  <2>4. Load(w, c) = Load(w, a)
    <3> DEFINE R == 1 .. n
    <3>1. a \in Seq(R) /\ c \in Seq(R) /\ w \in [R -> Nat]
      BY <2>1, <2>2
    <3> HIDE DEF R
    <3> QED BY <2>1, <2>2, <3>1, LoadOfRows
  <2> QED BY <2>2, <2>3, <2>4 DEF a, c
<1>7. b \in [1 .. k -> Seq(1 .. n)]
  <2>1. b = [i \in 1 .. k |-> b[i]]
    BY <1>5
  <2> QED BY <1>6, <2>1
<1>8. \A i, j \in 1 .. k : i # j => ToSet(b[i]) \cap ToSet(b[j]) = {}
  BY <1>2, <1>3, <1>6 DEF Simple
<1>9. \A o \in 1 .. n : \E i \in 1 .. k : o \in ToSet(b[i])
  BY <1>2, <1>3, <1>6 DEF AllRows
<1>10. e => /\ \A i \in 1 .. k : Len(b[i]) * k = n
            /\ \A i, j \in 1 .. k : Load(w, b[i]) - Load(w, b[j]) <= d
  BY <1>2, <1>3, <1>4, <1>6 DEF Even
<1>11. Partitioned(w, n, k, d, e, b)
  BY <1>6, <1>7, <1>8, <1>9, <1>10 DEF Partitioned
<1> QED BY <1>6, <1>11 DEF b

\* Weights have a bound.
LEMMA Bounded ==
  ASSUME NEW n \in Nat, NEW w \in [1 .. n -> Nat]
  PROVE  \E d \in Nat : Apart(w, n, d)
<1> DEFINE N == {m \in Nat : m <= n => \E d \in Nat : \A i \in 1 .. m : w[i] <= d}
<1>1. 0 \in N
  OBVIOUS
<1>2. ASSUME NEW m \in N PROVE m + 1 \in N
  <2>1. CASE m + 1 <= n
    <3>1. PICK d \in Nat : \A i \in 1 .. m : w[i] <= d
      BY <2>1
    <3>2. w[m + 1] \in Nat
      BY <2>1
    <3>3. \A i \in 1 .. m + 1 : i = m + 1 \/ i \in 1 .. m
      OBVIOUS
    <3>4. \A i \in 1 .. m + 1 : w[i] \in Nat
      BY <2>1
    <3>5. d + w[m + 1] \in Nat /\ \A i \in 1 .. m + 1 : w[i] <= d + w[m + 1]
      BY <3>1, <3>2, <3>3, <3>4
    <3> QED BY <3>5
  <2> QED BY <2>1
<1>3. N = Nat
  <2>1. N \in SUBSET Nat
    OBVIOUS
  <2> HIDE DEF N
  <2> QED BY <1>1, <1>2, <2>1, Upward
<1>4. PICK d \in Nat : \A i \in 1 .. n : w[i] <= d
  <2>1. n \in N
    BY <1>3
  <2> QED BY <2>1
<1>5. \A i \in 1 .. n : w[i] \in Nat
  OBVIOUS
<1>6. Apart(w, n, d)
  BY <1>4, <1>5 DEF Apart
<1> QED BY <1>6

-----------------------------------------------------------------------------
\* What get_seqlen_balanced_partitions promises.

\* Wherever it may be called at all, none of its assertions fires: it returns as many
\* partitions as asked for, none of them empty, that have all rows between them; and each
\* row is in one partition only, which lists its rows in order.  With equal sizes they have
\* equally many.
THEOREM PartitionsCover ==
  ASSUME NEW w \in Seq(Nat), NEW k \in Nat \ {0}, NEW equalSize \in BOOLEAN,
         CanPartition(w, k, equalSize)
  PROVE  LET parts == BalancedPartitions(w, k, equalSize)
         IN  /\ DOMAIN parts = 1 .. k
             /\ IsPartition(parts, Len(w))
             /\ \A i, j \in 1 .. k : i # j => ToSet(parts[i]) \cap ToSet(parts[j]) = {}
             /\ \A i \in 1 .. k : Climbing(parts[i])
             /\ equalSize => \A i \in 1 .. k : Len(parts[i]) * k = Len(w)
<1> DEFINE parts == BalancedPartitions(w, k, equalSize)
           n == Len(w)
<1>1. n \in Nat /\ w \in [1 .. n -> Nat]
  OBVIOUS
<1>2. Fits(n, k, equalSize)
  BY DEF CanPartition, Fits
<1> HIDE DEF n
<1>3. PICK d \in Nat : Apart(w, n, d)
  BY <1>1, Bounded
<1>4. d \in Int
  OBVIOUS
<1>5. Partitioned(w, n, k, d, equalSize, parts) /\ \A i \in 1 .. k : Climbing(parts[i])
  BY <1>1, <1>2, <1>3, <1>4, SortedPartitions
<1> HIDE DEF parts
<1>6. /\ parts \in [1 .. k -> Seq(1 .. n)]
      /\ \A i \in 1 .. k : parts[i] # <<>>
      /\ \A i, j \in 1 .. k : i # j => ToSet(parts[i]) \cap ToSet(parts[j]) = {}
      /\ \A o \in 1 .. n : \E i \in 1 .. k : o \in ToSet(parts[i])
      /\ equalSize => \A i \in 1 .. k : Len(parts[i]) * k = n
  BY <1>5 DEF Partitioned
<1>7. DOMAIN parts = 1 .. k
  BY <1>6
<1>8. UNION {ToSet(parts[p]) : p \in DOMAIN parts} = 1 .. n
  <2>1. ASSUME NEW i \in 1 .. k, NEW x \in ToSet(parts[i]) PROVE x \in 1 .. n
    <3> DEFINE a == parts[i]
               R == 1 .. n
    <3>1. a \in Seq(R) /\ x \in ToSet(a)
      BY <1>6
    <3> HIDE DEF a, R
    <3>2. x \in R
      BY <3>1, RowsIn
    <3> QED BY <3>2 DEF R
  <2> QED BY <1>6, <1>7, <2>1
<1>9. IsPartition(parts, n)
  BY <1>6, <1>7, <1>8 DEF IsPartition
<1> QED BY <1>5, <1>6, <1>7, <1>9 DEF parts, n

\* And with equal sizes the loads of two partitions differ by no more than two single rows
\* do, whatever the lengths: Karmarkar and Karp's differencing adds up no differences.
THEOREM PartitionsBalanced ==
  ASSUME NEW w \in Seq(Nat), NEW k \in Nat \ {0}, CanPartition(w, k, TRUE),
         NEW d \in Nat, \A a, b \in DOMAIN w : w[a] - w[b] <= d
  PROVE  LET parts == BalancedPartitions(w, k, TRUE)
         IN  \A i, j \in 1 .. k : Load(w, parts[i]) - Load(w, parts[j]) <= d
<1> DEFINE parts == BalancedPartitions(w, k, TRUE)
           n == Len(w)
<1>1. n \in Nat /\ w \in [1 .. n -> Nat] /\ d \in Int
  OBVIOUS
<1>2. Fits(n, k, TRUE) /\ Apart(w, n, d)
  BY <1>1 DEF CanPartition, Fits, Apart
<1> HIDE DEF n
<1>3. Partitioned(w, n, k, d, TRUE, parts)
  BY <1>1, <1>2, SortedPartitions
<1> HIDE DEF parts
<1>4. \A i, j \in 1 .. k : Load(w, parts[i]) - Load(w, parts[j]) <= d
  BY <1>3 DEF Partitioned
<1> QED BY <1>4 DEF parts
=============================================================================
