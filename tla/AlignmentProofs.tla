--------------------------- MODULE AlignmentProofs ---------------------------
(***************************************************************************)
(* Theorems about DataParallel, for every configuration and all shapes of  *)
(* responses: what a rank computed for a token of a response stands, and   *)
(* is compared, at that token, and the tokens a step trains are the ones   *)
(* that were selected.  The sections follow the tokens of a row through    *)
(* the packed forward of a group of ranks, and back; then their ranking    *)
(* and the mask from the driver and the ranks to the optimizers' steps.    *)
(***************************************************************************)
EXTENDS DataParallelProofs

-----------------------------------------------------------------------------
\* Lists put one after the other, whatever their lengths.

\* Where each of k lists of these lengths begins, counted from zero, and where the last ends.
Offsets(l, k, o) == o[0] = 0 /\ \A i \in 1 .. k : o[i] = o[i - 1] + l[i]

\* A sum that is taken along the lists says where they begin.
LEMMA OffsetsAre ==
  ASSUME NEW k \in Nat, NEW l, \A i \in 1 .. k : l[i] \in Nat, NEW o, Offsets(l, k, o)
  PROVE  \A i \in 0 .. k : o[i] \in Nat
<1> DEFINE N == {n \in Nat : n <= k => o[n] \in Nat}
<1>1. 0 \in N
  BY DEF Offsets
<1>2. ASSUME NEW n \in N PROVE n + 1 \in N
  <2>1. CASE n + 1 <= k
    <3>1. n + 1 \in 1 .. k /\ (n + 1) - 1 = n /\ o[n] \in Nat
      BY <2>1
    <3>2. o[n + 1] = o[n] + l[n + 1] /\ l[n + 1] \in Nat
      BY <3>1 DEF Offsets
    <3> QED BY <3>1, <3>2
  <2>2. CASE ~(n + 1 <= k)
    BY <2>2
  <2> QED BY <2>1, <2>2
<1>3. N = Nat
  <2>1. N \in SUBSET Nat
    OBVIOUS
  <2> HIDE DEF N
  <2> QED BY <1>1, <1>2, <2>1, Upward
<1> QED BY <1>3

\* There is one.
LEMMA OffsetsExist ==
  ASSUME NEW k \in Nat, NEW l, \A i \in 1 .. k : l[i] \in Nat
  PROVE  \E o : Offsets(l, k, o)
<1> DEFINE Upto(n) == \E o : Offsets(l, n, o)
           N == {n \in Nat : Upto(n)}
<1>1. 0 \in N
  <2> DEFINE g == [i \in 0 .. 0 |-> 0]
  <2>1. g[0] = 0 /\ \A i \in 1 .. 0 : g[i] = g[i - 1] + l[i]
    OBVIOUS
  <2> HIDE DEF g
  <2> QED BY <2>1 DEF Offsets
<1>2. ASSUME NEW n \in N PROVE n + 1 \in N
  <2>1. PICK o : Offsets(l, n, o)
    OBVIOUS
  <2> DEFINE g == [i \in 0 .. n + 1 |-> IF i = n + 1 THEN o[n] + l[n + 1] ELSE o[i]]
  <2>2. g[0] = 0
    BY <2>1 DEF Offsets
  <2>3. ASSUME NEW i \in 1 .. n + 1 PROVE g[i] = g[i - 1] + l[i]
    <3>1. CASE i = n + 1
      BY <3>1
    <3>2. CASE i # n + 1
      <4>1. i \in 1 .. n
        BY <3>2
      <4> QED BY <2>1, <4>1 DEF Offsets
    <3> QED BY <3>1, <3>2
  <2> HIDE DEF g
  <2>4. Upto(n + 1)
    BY <2>2, <2>3 DEF Offsets
  <2> HIDE DEF Upto
  <2> QED BY <2>4
<1>3. N = Nat
  <2>1. N \in SUBSET Nat
    OBVIOUS
  <2> HIDE DEF N
  <2> QED BY <1>1, <1>2, <2>1, Upward
<1> QED BY <1>3

\* The lists do not overlap, and leave no gap.
LEMMA PlacesAre ==
  ASSUME NEW k \in Nat, NEW l, \A i \in 1 .. k : l[i] \in Nat, NEW o, Offsets(l, k, o)
  PROVE  /\ \A i \in 1 .. k : \A j \in 1 .. l[i] : o[i - 1] + j \in 1 .. o[k]
         /\ \A p \in 1 .. o[k] : \E i \in 1 .. k : \E j \in 1 .. l[i] : p = o[i - 1] + j
<1>0. \A i \in 0 .. k : o[i] \in Nat
  BY OffsetsAre
<1> DEFINE Inside(n)  == \A i \in 1 .. n : \A j \in 1 .. l[i] : o[i - 1] + j \in 1 .. o[n]
           Covered(n) == \A p \in 1 .. o[n] : \E i \in 1 .. n : \E j \in 1 .. l[i] : p = o[i - 1] + j
           N == {n \in Nat : n <= k => Inside(n) /\ Covered(n)}
<1>1. 0 \in N
  BY DEF Offsets
<1>2. ASSUME NEW n \in N PROVE n + 1 \in N
  <2>1. CASE n + 1 <= k
    <3>1. n + 1 \in 1 .. k /\ n \in 0 .. k /\ n + 1 \in 0 .. k /\ (n + 1) - 1 = n /\ n <= k
      BY <2>1
    <3>2. o[n + 1] = o[n] + l[n + 1] /\ l[n + 1] \in Nat /\ o[n] \in Nat
      BY <1>0, <3>1 DEF Offsets
    <3>3. Inside(n) /\ Covered(n)
      BY <3>1
    <3>4. ASSUME NEW i \in 1 .. n + 1, NEW j \in 1 .. l[i] PROVE o[i - 1] + j \in 1 .. o[n + 1]
      <4>1. CASE i = n + 1
        BY <3>1, <3>2, <4>1
      <4>2. CASE i # n + 1
        <5>1. i \in 1 .. n
          BY <4>2
        <5>2. o[i - 1] + j \in 1 .. o[n]
          BY <3>3, <5>1
        <5> QED BY <3>2, <5>2
      <4> QED BY <4>1, <4>2
    <3>5. ASSUME NEW p \in 1 .. o[n + 1]
          PROVE  \E i \in 1 .. n + 1 : \E j \in 1 .. l[i] : p = o[i - 1] + j
      <4>1. CASE p <= o[n]
        <5>1. p \in 1 .. o[n]
          BY <3>2, <4>1
        <5>2. PICK i \in 1 .. n : \E j \in 1 .. l[i] : p = o[i - 1] + j
          BY <3>3, <5>1
        <5>3. i \in 1 .. n + 1
          OBVIOUS
        <5> QED BY <5>2, <5>3
      <4>2. CASE ~(p <= o[n])
        <5>1. p - o[n] \in 1 .. l[n + 1] /\ p = o[n] + (p - o[n]) /\ n + 1 \in 1 .. n + 1
          BY <3>2, <4>2
        <5> QED BY <3>1, <5>1
      <4> QED BY <4>1, <4>2
    <3>6. Inside(n + 1) /\ Covered(n + 1)
      BY <3>4, <3>5
    <3> HIDE DEF Inside, Covered
    <3> QED BY <3>6
  <2>2. CASE ~(n + 1 <= k)
    BY <2>2
  <2> QED BY <2>1, <2>2
<1>3. N = Nat
  <2>1. N \in SUBSET Nat
    OBVIOUS
  <2> HIDE DEF N
  <2> QED BY <1>1, <1>2, <2>1, Upward
<1>4. Inside(k) /\ Covered(k)
  <2> HIDE DEF Inside, Covered
  <2> QED BY <1>3
<1> QED BY <1>4

\* k lists of these lengths.
Lengthy(s, k, l) == Len(s) = k /\ \A i \in 1 .. k : Column(s[i], l[i])

\* x has them one after the other.
Strung(s, k, l, o, x) ==
  /\ Column(x, o[k])
  /\ \A i \in 1 .. k : \A j \in 1 .. l[i] : x[o[i - 1] + j] = s[i][j]

\* FlattenSeq strings its lists.
LEMMA FlattenStrings ==
  ASSUME NEW k \in Nat \ {0}, NEW l, \A i \in 1 .. k : l[i] \in Nat, NEW o, Offsets(l, k, o),
         NEW s, Lengthy(s, k, l)
  PROVE  Strung(s, k, l, o, FlattenSeq(s))
<1>0. \A i \in 0 .. k : o[i] \in Nat
  BY OffsetsAre
<1>1. PICK f : Flattens(s, k, f) /\ FlattenSeq(s) = f[k]
  BY FlattenIs DEF Lengthy
<1> DEFINE Done(n) == Strung(s, n, l, o, f[n])
           N == {n \in Nat : n + 1 <= k => Done(n + 1)}
<1>2. 0 \in N
  <2>1. f[1] = s[1] /\ 1 \in 1 .. k /\ Column(s[1], l[1])
    BY <1>1 DEF Flattens, Lengthy
  <2>2. o[0] = 0 /\ o[1] = l[1] /\ l[1] \in Nat
    <3>1. o[1] = o[1 - 1] + l[1] /\ 1 - 1 = 0 /\ o[0] = 0 /\ l[1] \in Nat
      BY <2>1 DEF Offsets
    <3> QED BY <3>1
  <2>3. ASSUME NEW i \in 1 .. 1, NEW j \in 1 .. l[i] PROVE f[1][o[i - 1] + j] = s[i][j]
    <3>1. i = 1 /\ o[i - 1] = 0 /\ o[i - 1] + j = j
      BY <2>2
    <3> QED BY <2>1, <3>1
  <2>4. Done(1)
    BY <2>1, <2>2, <2>3 DEF Strung
  <2> HIDE DEF Done
  <2> QED BY <2>4
<1>3. ASSUME NEW n \in N PROVE n + 1 \in N
  <2>1. CASE ~((n + 1) + 1 <= k)
    BY <2>1
  <2>2. CASE (n + 1) + 1 <= k
    <3> DEFINE m == n + 1
    <3>1. Done(m) /\ m \in Nat /\ m + 1 \in 2 .. k /\ m + 1 \in 1 .. k /\ (m + 1) - 1 = m /\ m \in 0 .. k
      BY <2>2
    <3> HIDE DEF m
    <3> DEFINE u == f[m]
               v == s[m + 1]
    <3>2. f[m + 1] = u \o v
      BY <1>1, <3>1 DEF Flattens
    <3>3. Column(u, o[m]) /\ Column(v, l[m + 1]) /\ o[m] \in Nat /\ l[m + 1] \in Nat
      BY <1>0, <3>1 DEF Strung, Lengthy
    <3>4. \A i \in 1 .. m : \A j \in 1 .. l[i] : u[o[i - 1] + j] = s[i][j]
      BY <3>1 DEF Strung
    <3>5. o[m + 1] = o[m] + l[m + 1]
      BY <3>1 DEF Offsets
    <3>6. Offsets(l, m, o) /\ \A i \in 1 .. m : l[i] \in Nat
      BY <3>1 DEF Offsets
    <3>7. \A i \in 1 .. m : \A j \in 1 .. l[i] : o[i - 1] + j \in 1 .. o[m]
      BY <3>1, <3>6, PlacesAre
    <3> HIDE DEF u, v
    <3>8. Joins(u, v, o[m], l[m + 1], u \o v)
      BY <3>3, ColumnsJoined
    <3>9. Column(f[m + 1], o[m + 1])
      BY <3>2, <3>5, <3>8 DEF Joins
    <3>10. ASSUME NEW i \in 1 .. m + 1, NEW j \in 1 .. l[i] PROVE f[m + 1][o[i - 1] + j] = s[i][j]
      <4>1. CASE i = m + 1
        BY <3>1, <3>2, <3>8, <4>1 DEF Joins, v
      <4>2. CASE i # m + 1
        <5>1. i \in 1 .. m
          BY <3>1, <4>2
        <5>2. o[i - 1] + j \in 1 .. o[m]
          BY <3>7, <5>1
        <5> QED BY <3>2, <3>4, <3>8, <5>1, <5>2 DEF Joins
      <4> QED BY <4>1, <4>2
    <3>11. Done(m + 1)
      BY <3>9, <3>10 DEF Strung
    <3> HIDE DEF Done
    <3> QED BY <3>1, <3>11 DEF m
  <2> QED BY <2>1, <2>2
<1>4. N = Nat
  <2>1. N \in SUBSET Nat
    OBVIOUS
  <2> HIDE DEF N
  <2> QED BY <1>2, <1>3, <2>1, Upward
<1>5. k - 1 \in N /\ (k - 1) + 1 = k
  <2> HIDE DEF N
  <2> QED BY <1>4
<1>6. Done(k)
  BY <1>5
<1> QED BY <1>1, <1>6

\* Lists x and y of n elements have those of the lists of s and of t, at the same places.
Beside(s, t, k, l, x, y, n) ==
  /\ Column(x, n) /\ Column(y, n)
  /\ \A p \in 1 .. n : \E i \in 1 .. k : \E j \in 1 .. l[i] : x[p] = s[i][j] /\ y[p] = t[i][j]

\* Two lists of lists of the same lengths are gone through side by side.
LEMMA SideBySide ==
  ASSUME NEW k \in Nat \ {0}, NEW l, \A i \in 1 .. k : l[i] \in Nat,
         NEW s, Lengthy(s, k, l), NEW t, Lengthy(t, k, l)
  PROVE  \E n \in Nat : Beside(s, t, k, l, FlattenSeq(s), FlattenSeq(t), n)
<1> DEFINE x == FlattenSeq(s)
           y == FlattenSeq(t)
<1>1. PICK o : Offsets(l, k, o)
  BY OffsetsExist
<1>2. o[k] \in Nat
  BY <1>1, OffsetsAre
<1>3. Strung(s, k, l, o, x) /\ Strung(t, k, l, o, y)
  BY <1>1, FlattenStrings
<1>4. \A p \in 1 .. o[k] : \E i \in 1 .. k : \E j \in 1 .. l[i] : p = o[i - 1] + j
  BY <1>1, PlacesAre
<1> HIDE DEF x, y
<1>5. Column(x, o[k]) /\ Column(y, o[k])
  BY <1>3 DEF Strung
<1>6. ASSUME NEW p \in 1 .. o[k]
      PROVE  \E i \in 1 .. k : \E j \in 1 .. l[i] : x[p] = s[i][j] /\ y[p] = t[i][j]
  <2>1. PICK i \in 1 .. k : \E j \in 1 .. l[i] : p = o[i - 1] + j
    BY <1>4
  <2>2. PICK j \in 1 .. l[i] : p = o[i - 1] + j
    BY <2>1
  <2>3. x[p] = s[i][j] /\ y[p] = t[i][j]
    BY <1>3, <2>2 DEF Strung
  <2> QED BY <2>3
<1>7. Beside(s, t, k, l, x, y, o[k])
  BY <1>5, <1>6 DEF Beside
<1> QED BY <1>2, <1>7 DEF x, y

-----------------------------------------------------------------------------
\* The tokens of rows that are packed.

\* A response as the agent loop workers pad it: within the lengths of its columns.
Fitting(row) ==
  /\ row.prompt \in 1 .. PromptLength
  /\ row.response \in 1 .. ResponseLength
  /\ row.valid \subseteq 1 .. row.response

\* m of them, and how many tokens each has.
Fitted(rows, m) == Column(rows, m) /\ \A i \in 1 .. m : Fitting(rows[i])
Tokens(rows, m) == [i \in 1 .. m |-> rows[i].prompt + rows[i].response]

\* The token whose logits score position t of a response.
Before(row, t) == <<row.id, PromptLength + t - 1>>

\* Those of a row in order: the one before a response token stands before it.
AttendsTo(row) ==
  /\ row.prompt + row.response \in Nat
  /\ Column(Attended(row), row.prompt + row.response)
  /\ \A t \in 1 .. row.response :
       /\ row.prompt + t - 1 \in 1 .. row.prompt + row.response
       /\ row.prompt + t \in 1 .. row.prompt + row.response
       /\ Attended(row)[row.prompt + t - 1] = Before(row, t)
       /\ Attended(row)[row.prompt + t] = <<row.id, PromptLength + t>>
       /\ Attends(row, PromptLength + t - 1) /\ t \in 1 .. ResponseLength

\* Attended lists the tokens of a row like that.
LEMMA AttendedIs ==
  ASSUME NEW row, Fitting(row)
  PROVE  AttendsTo(row)
<1>1. row.prompt \in Nat \ {0} /\ row.response \in Nat \ {0} /\ PromptLength \in Nat /\ ResponseLength \in Nat
      /\ row.prompt <= PromptLength /\ row.response <= ResponseLength
  BY LengthsAssumption DEF Fitting
<1> DEFINE p == row.prompt
           q == row.response
           id == row.id
<1>2. Attended(row) = [i \in 1 .. p + q |-> <<id, PromptLength - p + i>>]
  BY DEF Attended
<1>3. \A t \in 1 .. q : Attends(row, PromptLength + t - 1) <=>
         (PromptLength + t - 1 > PromptLength - p /\ PromptLength + t - 1 <= PromptLength + q)
  BY DEF Attends
<1>4. \A t \in 1 .. q : Before(row, t) = <<id, PromptLength + t - 1>>
  BY DEF Before
<1>5. p \in Nat \ {0} /\ q \in Nat \ {0} /\ q <= ResponseLength
  BY <1>1
<1> HIDE DEF p, q, id
<1>6. p + q \in Nat /\ Column(Attended(row), p + q)
  BY <1>2, <1>5 DEF Column
<1>7. ASSUME NEW t \in 1 .. q
      PROVE  /\ p + t - 1 \in 1 .. p + q /\ p + t \in 1 .. p + q
             /\ PromptLength - p + (p + t - 1) = PromptLength + t - 1
             /\ PromptLength - p + (p + t) = PromptLength + t
             /\ Attends(row, PromptLength + t - 1) /\ t \in 1 .. ResponseLength
  BY <1>1, <1>3, <1>5
<1>8. ASSUME NEW t \in 1 .. q
      PROVE  /\ Attended(row)[p + t - 1] = Before(row, t)
             /\ Attended(row)[p + t] = <<id, PromptLength + t>>
  BY <1>2, <1>4, <1>7
<1> QED BY <1>6, <1>7, <1>8 DEF AttendsTo, p, q, id

\* The lists FlattenSeq puts together.
AllAttended(rows) == [i \in DOMAIN rows |-> Attended(rows[i])]

\* As lists they have the lengths of their rows.
LEMMA AttendedLists ==
  ASSUME NEW m \in Nat, NEW rows, Fitted(rows, m)
  PROVE  /\ \A i \in 1 .. m : Tokens(rows, m)[i] \in Nat
         /\ Lengthy(AllAttended(rows), m, Tokens(rows, m))
         /\ DOMAIN rows = 1 .. m /\ Len(rows) = m
         /\ \A i \in 1 .. m : AllAttended(rows)[i] = Attended(rows[i])
<1>1. DOMAIN rows = 1 .. m /\ Len(rows) = m
  BY ColumnIs DEF Fitted
<1>2. AllAttended(rows) = [i \in 1 .. m |-> Attended(rows[i])]
  BY <1>1 DEF AllAttended
<1>3. Len(AllAttended(rows)) = m /\ \A i \in 1 .. m : AllAttended(rows)[i] = Attended(rows[i])
  BY <1>2
<1>4. ASSUME NEW i \in 1 .. m
      PROVE  Tokens(rows, m)[i] \in Nat /\ Column(Attended(rows[i]), Tokens(rows, m)[i])
  <2>1. AttendsTo(rows[i])
    BY AttendedIs DEF Fitted
  <2>2. Tokens(rows, m)[i] = rows[i].prompt + rows[i].response
    BY DEF Tokens
  <2> QED BY <2>1, <2>2 DEF AttendsTo
<1> QED BY <1>1, <1>3, <1>4 DEF Lengthy

\* Packed strings them, and as many rows from the front as one likes.
LEMMA PackedIs ==
  ASSUME NEW m \in Nat \ {0}, NEW rows, Fitted(rows, m), NEW o, Offsets(Tokens(rows, m), m, o)
  PROVE  /\ Strung(AllAttended(rows), m, Tokens(rows, m), o, Packed(rows))
         /\ \A i \in 1 .. m : o[i - 1] \in Nat /\ Len(Packed(SubSeq(rows, 1, i - 1))) = o[i - 1]
<1>1. /\ \A i \in 1 .. m : Tokens(rows, m)[i] \in Nat
      /\ Lengthy(AllAttended(rows), m, Tokens(rows, m))
  BY AttendedLists
<1>2. Strung(AllAttended(rows), m, Tokens(rows, m), o, Packed(rows))
  BY <1>1, FlattenStrings DEF Packed, AllAttended
<1>3. ASSUME NEW i \in 1 .. m
      PROVE  o[i - 1] \in Nat /\ Len(Packed(SubSeq(rows, 1, i - 1))) = o[i - 1]
  <2> DEFINE n == i - 1
             some == SubSeq(rows, 1, n)
  <2>1. n \in Nat /\ n <= m /\ n \in 0 .. m /\ 0 + n <= m /\ 0 + 1 = 1 /\ 0 + n = n
    OBVIOUS
  <2>2. some = [x \in 1 .. n |-> rows[0 + x]]
    <3> HIDE DEF n
    <3>1. SubSeq(rows, 0 + 1, 0 + n) = [x \in 1 .. n |-> rows[0 + x]]
      BY <2>1, SubSeqIs DEF Fitted
    <3> QED BY <2>1, <3>1
  <2>3. o[n] \in Nat
    BY <1>1, <2>1, OffsetsAre
  <2> HIDE DEF n, some
  <2>4. \A x \in 1 .. n : some[x] = rows[x] /\ x \in 1 .. m
    BY <2>1, <2>2
  <2>5. DOMAIN some = 1 .. n /\ Fitted(some, n)
    BY <2>1, <2>2, <2>4 DEF Fitted, Column
  <2>6. Len(Packed(some)) = o[n]
    <3>1. CASE n = 0
      <4>1. AllAttended(some) = <<>>
        BY <2>5, <3>1 DEF AllAttended
      <4>2. Packed(some) = FlattenSeq(<<>>)
        BY <4>1 DEF Packed, AllAttended
      <4>3. Packed(some) = <<>>
        BY <4>2 DEF FlattenSeq
      <4> QED BY <3>1, <4>3 DEF Offsets
    <3>2. CASE n # 0
      <4>1. n \in Nat \ {0}
        BY <2>1, <3>2
      <4>2. \A x \in 1 .. n : Tokens(some, n)[x] = Tokens(rows, m)[x]
        BY <2>4 DEF Tokens
      <4>3. Offsets(Tokens(some, n), n, o)
        BY <2>4, <4>2 DEF Offsets
      <4>4. /\ \A x \in 1 .. n : Tokens(some, n)[x] \in Nat
            /\ Lengthy(AllAttended(some), n, Tokens(some, n))
        BY <2>1, <2>5, AttendedLists
      <4>5. Strung(AllAttended(some), n, Tokens(some, n), o, Packed(some))
        BY <4>1, <4>3, <4>4, FlattenStrings DEF Packed, AllAttended
      <4> QED BY <2>3, <4>5, ColumnIs DEF Strung
    <3> QED BY <3>1, <3>2
  <2> QED BY <2>3, <2>6 DEF n, some
<1> QED BY <1>2, <1>3

\* The tokens of row i are packed at these places.
PlaceOf(rows, o, i, t) == o[i - 1] + (rows[i].prompt + t - 1)

\* ResponsePart takes for a response token what stands at the place of the one before.
LEMMA ResponsePartIs ==
  ASSUME NEW m \in Nat \ {0}, NEW rows, Fitted(rows, m), NEW o, Offsets(Tokens(rows, m), m, o),
         NEW packed
  PROVE  \A i \in 1 .. m : \A t \in 1 .. rows[i].response :
           ResponsePart(rows, packed)[i][t] = packed[PlaceOf(rows, o, i, t)]
<1> SUFFICES ASSUME NEW i \in 1 .. m, NEW t \in 1 .. rows[i].response
             PROVE  ResponsePart(rows, packed)[i][t] = packed[PlaceOf(rows, o, i, t)]
  OBVIOUS
<1>1. DOMAIN rows = 1 .. m
  BY AttendedLists
<1>2. o[i - 1] \in Nat /\ Len(Packed(SubSeq(rows, 1, i - 1))) = o[i - 1]
  BY PackedIs
<1>3. Fitting(rows[i]) /\ AttendsTo(rows[i])
  BY AttendedIs DEF Fitted
<1>4. t \in 1 .. ResponseLength /\ Attends(rows[i], PromptLength + t - 1)
  BY <1>3 DEF AttendsTo
<1> DEFINE place == Len(Packed(SubSeq(rows, 1, i - 1))) + (PromptLength + t - 1) - (PromptLength - rows[i].prompt)
<1>5. ResponsePart(rows, packed)[i][t] = packed[place]
  BY <1>1, <1>4 DEF ResponsePart
<1>6. place = PlaceOf(rows, o, i, t)
  <2>1. rows[i].prompt \in Nat /\ rows[i].response \in Nat /\ PromptLength \in Nat
    BY <1>3, LengthsAssumption DEF Fitting
  <2>2. place = o[i - 1] + (PromptLength + t - 1) - (PromptLength - rows[i].prompt)
    BY <1>2
  <2> HIDE DEF place
  <2> DEFINE p == rows[i].prompt
             q == rows[i].response
             b == o[i - 1]
  <2>3. p \in Nat /\ q \in Nat /\ b \in Nat /\ t \in 1 .. q /\ place = b + (PromptLength + t - 1) - (PromptLength - p)
    BY <1>2, <2>1, <2>2
  <2> HIDE DEF p, q, b
  <2>4. place = b + (p + t - 1)
    BY <2>1, <2>3
  <2> QED BY <2>4 DEF PlaceOf, p, b
<1> QED BY <1>5, <1>6

-----------------------------------------------------------------------------
\* The slices of a sequence-parallel group.

\* How many tokens each of sp ranks has of n of them, and how much padding there is.
PaddingOf(n, sp) == (sp - (n % sp)) % sp
SliceSize(n, sp) == (n + PaddingOf(n, sp)) \div sp

\* The padding is less than one token per rank, and the slices are equally long.
LEMMA SliceSizes ==
  ASSUME NEW n \in Nat, NEW sp \in Nat \ {0}
  PROVE  /\ PaddingOf(n, sp) \in 0 .. sp - 1 /\ SliceSize(n, sp) \in Nat
         /\ sp * SliceSize(n, sp) = n + PaddingOf(n, sp)
<1> DEFINE d == n \div sp
           r == n % sp
           p == PaddingOf(n, sp)
<1>1. d \in Nat /\ r \in 0 .. sp - 1 /\ n = (d * sp) + r
  BY Lines
<1>2. p = (sp - r) % sp
  BY DEF PaddingOf
<1>3. SliceSize(n, sp) = (n + p) \div sp
  BY DEF SliceSize
<1> HIDE DEF d, r, p
<1>4. CASE r = 0
  <2>1. p = 0
    BY <1>2, <1>4
  <2>2. d * sp \in Nat /\ n + p = d * sp /\ d * sp = sp * d
    BY <1>1, <1>4, <2>1
  <2>3. SliceSize(n, sp) = d
    BY <1>1, <1>3, <2>2, Multiple
  <2> QED BY <1>1, <2>1, <2>2, <2>3 DEF p
<1>5. CASE r # 0
  <2>1. p = sp - r /\ p \in 0 .. sp - 1
    BY <1>1, <1>2, <1>5
  <2>2. d + 1 \in Nat /\ (d + 1) * sp = d * sp + sp /\ d * sp \in Nat /\ (d + 1) * sp = sp * (d + 1)
    BY <1>1
  <2>3. n + p = (d + 1) * sp
    BY <1>1, <2>1, <2>2
  <2>4. SliceSize(n, sp) = d + 1
    BY <1>3, <2>2, <2>3, Multiple
  <2> QED BY <2>1, <2>2, <2>3, <2>4 DEF p
<1> QED BY <1>4, <1>5

\* Slice s of n tokens.
SlicedAt(tokens, n, sp, s) ==
  LET part == SliceSize(n, sp) IN
    /\ Column(SliceOf(tokens, sp, s - 1), part)
    /\ \A j \in 1 .. part : (s - 1) * part + j <= n =>
         SliceOf(tokens, sp, s - 1)[j] = tokens[(s - 1) * part + j]

\* SliceOf takes it.
LEMMA SliceIs ==
  ASSUME NEW n \in Nat, NEW sp \in Nat \ {0}, NEW tokens, Column(tokens, n), NEW s \in 1 .. sp
  PROVE  SlicedAt(tokens, n, sp, s)
<1> DEFINE pad == PaddingOf(n, sp)
           part == SliceSize(n, sp)
           pads == [i \in 1 .. pad |-> Pad]
           padded == tokens \o pads
<1>1. pad \in Nat /\ part \in Nat /\ sp * part = n + pad
  BY SliceSizes
<1>2. Len(tokens) = n
  BY ColumnIs
<1>3. Padded(tokens, sp) = padded
  BY <1>2 DEF Padded, PadSize, PaddingOf
<1>4. Column(pads, pad)
  BY DEF Column
<1> HIDE DEF pad, part, pads
<1>5. Joins(tokens, pads, n, pad, padded)
  BY <1>1, <1>4, ColumnsJoined
<1> HIDE DEF padded
<1>6. Column(padded, sp * part) /\ \A i \in 1 .. n : padded[i] = tokens[i]
  BY <1>1, <1>5 DEF Joins
<1> DEFINE whole == sp * part
           from == (s - 1) * part
<1>7. whole \in Nat /\ whole \div sp = part
  <2>1. part * sp \in Nat /\ (part * sp) \div sp = part
    BY <1>1, Multiple
  <2>2. part * sp = sp * part
    BY <1>1
  <2> QED BY <2>1, <2>2
<1>8. from \in Nat /\ from + part <= whole /\ s * part = from + part
  <2>1. s - 1 \in Nat /\ sp \in Nat /\ s - 1 < sp /\ s \in Nat
    OBVIOUS
  <2>2. from \in Nat /\ s * part = from + part /\ part * s = s * part
    BY <1>1, <2>1
  <2>3. CASE part = 0
    BY <1>1, <2>2, <2>3
  <2>4. CASE part # 0
    <3>1. from + part <= whole
      BY <1>1, <2>1, <2>4, NextLine
    <3> QED BY <2>2, <3>1
  <2> QED BY <2>3, <2>4
<1>9. Len(padded) = whole
  BY <1>6, <1>7, ColumnIs
<1>10. SliceOf(tokens, sp, s - 1) = SubSeq(padded, from + 1, from + part)
  <2>1. (s - 1) + 1 = s
    OBVIOUS
  <2>2. Len(padded) \div sp = part
    BY <1>7, <1>9
  <2>3. SliceOf(tokens, sp, s - 1) = SubSeq(padded, (s - 1) * part + 1, ((s - 1) + 1) * part)
    BY <1>3, <2>2, Zenon DEF SliceOf
  <2> QED BY <1>8, <2>1, <2>3
<1> HIDE DEF whole, from
<1>11. SubSeq(padded, from + 1, from + part) = [i \in 1 .. part |-> padded[from + i]]
  BY <1>1, <1>6, <1>7, <1>8, SubSeqIs DEF whole
<1>12. SliceOf(tokens, sp, s - 1) = [i \in 1 .. part |-> padded[from + i]]
  BY <1>10, <1>11
<1>13. Column(SliceOf(tokens, sp, s - 1), part)
  BY <1>12 DEF Column
<1>14. ASSUME NEW j \in 1 .. part, from + j <= n PROVE SliceOf(tokens, sp, s - 1)[j] = tokens[from + j]
  <2>1. from + j \in 1 .. n
    BY <1>1, <1>8, <1>14
  <2> QED BY <1>6, <1>12, <2>1
<1> QED BY <1>13, <1>14 DEF SlicedAt, part, from

\* Gathered and without their padding, the shares are one list again.
LEMMA GatherIs ==
  ASSUME NEW n \in Nat, NEW sp \in Nat \ {0}, NEW shares, Lists(shares, sp, SliceSize(n, sp))
  PROVE  \A s \in 1 .. sp : \A j \in 1 .. SliceSize(n, sp) :
           (s - 1) * SliceSize(n, sp) + j <= n =>
             GatheredShares(shares, PaddingOf(n, sp))[(s - 1) * SliceSize(n, sp) + j] = shares[s][j]
<1> DEFINE pad == PaddingOf(n, sp)
           part == SliceSize(n, sp)
           all == FlattenSeq(shares)
           whole == sp * part
<1>1. pad \in Nat /\ part \in Nat /\ whole = n + pad
  BY SliceSizes
<1>2. Grid(shares, sp, part, all)
  BY <1>1, FlattenGrid
<1>3. GatheredShares(shares, pad) = SubSeq(all, 1, Len(all) - pad)
  BY DEF GatheredShares
<1> HIDE DEF pad, all, whole
<1>4. Column(all, whole)
  BY <1>2 DEF Grid, whole
<1>5. Len(all) = whole /\ Len(all) - pad = n /\ 0 + 1 = 1 /\ 0 + n = n
  <2>1. whole \in Nat
    BY <1>1
  <2>2. Len(all) = whole
    BY <1>4, <2>1, ColumnIs
  <2> QED BY <1>1, <2>2
<1>6. SubSeq(all, 0 + 1, 0 + n) = [i \in 1 .. n |-> all[0 + i]]
  <2>1. whole \in Nat /\ 0 \in Nat /\ 0 + n <= whole
    BY <1>1
  <2> QED BY <1>4, <2>1, SubSeqIs
<1>7. GatheredShares(shares, pad) = [i \in 1 .. n |-> all[0 + i]]
  BY <1>3, <1>5, <1>6
<1> SUFFICES ASSUME NEW s \in 1 .. sp, NEW j \in 1 .. part, (s - 1) * part + j <= n
             PROVE  GatheredShares(shares, pad)[(s - 1) * part + j] = shares[s][j]
  BY DEF pad
<1>8. all[(s - 1) * part + j] = shares[s][j]
  BY <1>2 DEF Grid
<1> DEFINE x == (s - 1) * part + j
<1>9. x \in 1 .. n /\ 0 + x = x
  <2>1. s - 1 \in Nat
    OBVIOUS
  <2>2. (s - 1) * part \in Nat
    BY <1>1, <2>1
  <2> QED BY <1>1, <2>2
<1> HIDE DEF x
<1>10. GatheredShares(shares, pad)[x] = all[x]
  BY <1>7, <1>9
<1> QED BY <1>8, <1>10 DEF x

\* The packed tokens at the place of a response token, and one further.
PackedThere(rows, o, n, i, t) ==
  LET place == PlaceOf(rows, o, i, t) IN
    /\ place \in 1 .. n - 1
    /\ Packed(rows)[place] = Before(rows[i], t)
    /\ Rolled(Packed(rows))[place] = <<rows[i].id, PromptLength + t>>

\* torch.roll puts a token's label beside it.
LEMMA PackedPlaces ==
  ASSUME NEW m \in Nat \ {0}, NEW rows, Fitted(rows, m), NEW o, Offsets(Tokens(rows, m), m, o)
  PROVE  /\ o[m] \in Nat /\ Column(Packed(rows), o[m]) /\ Column(Rolled(Packed(rows)), o[m])
         /\ \A i \in 1 .. m : \A t \in 1 .. rows[i].response : PackedThere(rows, o, o[m], i, t)
<1> DEFINE n == o[m]
           tokens == Packed(rows)
<1>1. Strung(AllAttended(rows), m, Tokens(rows, m), o, tokens)
  BY PackedIs
<1>2. \A i \in 1 .. m : Tokens(rows, m)[i] \in Nat /\ AllAttended(rows)[i] = Attended(rows[i])
  BY AttendedLists
<1>3. n \in Nat
  <2>1. m \in 0 .. m
    OBVIOUS
  <2> QED BY <1>2, <2>1, OffsetsAre
<1>4. Column(tokens, n)
  BY <1>1 DEF Strung
<1>5. \A i \in 1 .. m : \A j \in 1 .. Tokens(rows, m)[i] : o[i - 1] + j \in 1 .. n
  BY <1>2, PlacesAre
<1>6. DOMAIN tokens = 1 .. n /\ Len(tokens) = n
  BY <1>3, <1>4, ColumnIs
<1> HIDE DEF n, tokens
<1>7. Rolled(tokens) = [x \in 1 .. n |-> tokens[(x % n) + 1]]
  BY <1>6 DEF Rolled
<1>8. Column(Rolled(tokens), n)
  BY <1>7 DEF Column
<1>9. ASSUME NEW i \in 1 .. m, NEW t \in 1 .. rows[i].response PROVE PackedThere(rows, o, n, i, t)
  <2> DEFINE row == rows[i]
             j == row.prompt + t - 1
             x == o[i - 1] + j
  <2>1. AttendsTo(row) /\ Fitting(row)
    BY AttendedIs DEF Fitted
  <2>2. Tokens(rows, m)[i] = row.prompt + row.response
    BY DEF Tokens
  <2>3. j \in 1 .. Tokens(rows, m)[i] /\ row.prompt + t \in 1 .. Tokens(rows, m)[i]
    BY <2>1, <2>2 DEF AttendsTo
  <2>4. o[i - 1] + j \in 1 .. n /\ o[i - 1] + (row.prompt + t) \in 1 .. n
    BY <1>5, <2>3
  <2>5. tokens[o[i - 1] + j] = Before(row, t) /\ tokens[o[i - 1] + (row.prompt + t)] = <<row.id, PromptLength + t>>
    <3>1. /\ tokens[o[i - 1] + j] = Attended(row)[j]
          /\ tokens[o[i - 1] + (row.prompt + t)] = Attended(row)[row.prompt + t]
      BY <1>1, <1>2, <2>3 DEF Strung
    <3> QED BY <2>1, <3>1 DEF AttendsTo
  <2>6. o[i - 1] \in Nat /\ row.prompt \in Nat /\ t \in Nat
    <3>1. i - 1 \in 0 .. m
      OBVIOUS
    <3>2. o[i - 1] \in Nat
      BY <1>2, <3>1, OffsetsAre
    <3>3. row.prompt \in Nat /\ t \in Nat
      BY <2>1, LengthsAssumption DEF Fitting
    <3> QED BY <3>2, <3>3
  <2>7. o[i - 1] + (row.prompt + t) = x + 1 /\ x \in Nat
    BY <2>6
  <2>8. PlaceOf(rows, o, i, t) = x
    BY DEF PlaceOf
  <2>9. tokens[x] = Before(row, t) /\ x \in 1 .. n
    BY <2>4, <2>5
  <2>10. tokens[x + 1] = <<row.id, PromptLength + t>> /\ x + 1 \in 1 .. n
    BY <2>4, <2>5, <2>7
  <2> HIDE DEF x
  <2>11. x % n = x /\ x \in 1 .. n - 1
    BY <1>3, <2>7, <2>9, <2>10
  <2>12. Rolled(tokens)[x] = tokens[x + 1]
    BY <1>7, <2>9, <2>11
  <2> QED BY <2>8, <2>9, <2>10, <2>11, <2>12 DEF PackedThere, tokens
<1> QED BY <1>3, <1>4, <1>8, <1>9 DEF n, tokens

\* Slices of all of n tokens, one share per rank, whatever was computed of them.
Slices(shares, n, sp) == Lists(shares, sp, SliceSize(n, sp))

\* The place a group takes a response token from: rank s of it computed it at x.
OwnLands(rows, o, n, sp, i, t, s, x) ==
  /\ s \in 1 .. sp /\ x \in 1 .. SliceSize(n, sp)
  /\ (s - 1) * SliceSize(n, sp) + x = PlaceOf(rows, o, i, t)
  /\ OwnLogits(rows, sp, s - 1)[x] = Before(rows[i], t)
  /\ OwnLogProbs(rows, sp, s - 1)[x] = Expected(rows[i], t)
  /\ \A shares : Slices(shares, n, sp) =>
       ResponsePart(rows, GatheredShares(shares, PadSize(Packed(rows), sp)))[i][t] = shares[s][x]

\* There is one for every token, and every rank has a slice.
LEMMA OwnLandsAre ==
  ASSUME NEW m \in Nat \ {0}, NEW rows, Fitted(rows, m), NEW o, Offsets(Tokens(rows, m), m, o),
         NEW sp \in Nat \ {0}
  PROVE  /\ o[m] \in Nat
         /\ \A s \in 1 .. sp : /\ Column(OwnLogits(rows, sp, s - 1), SliceSize(o[m], sp))
                               /\ Column(OwnLogProbs(rows, sp, s - 1), SliceSize(o[m], sp))
         /\ \A i \in 1 .. m : \A t \in 1 .. rows[i].response : \E s, x :
              OwnLands(rows, o, o[m], sp, i, t, s, x)
<1> DEFINE n == o[m]
           tokens == Packed(rows)
           labels == Rolled(tokens)
           part == SliceSize(n, sp)
<1>1. /\ n \in Nat /\ Column(tokens, n) /\ Column(labels, n)
      /\ \A i \in 1 .. m : \A t \in 1 .. rows[i].response : PackedThere(rows, o, n, i, t)
  BY PackedPlaces
<1>2. part \in Nat /\ sp * part = n + PaddingOf(n, sp) /\ PaddingOf(n, sp) \in Nat
  <2> HIDE DEF n
  <2>1. PaddingOf(n, sp) \in 0 .. sp - 1 /\ part \in Nat /\ sp * part = n + PaddingOf(n, sp)
    BY <1>1, SliceSizes
  <2>2. PaddingOf(n, sp) \in Nat
    BY <2>1
  <2> QED BY <2>1, <2>2
<1>3. PadSize(tokens, sp) = PaddingOf(n, sp)
  BY <1>1, ColumnIs DEF PadSize, PaddingOf
<1> HIDE DEF n, tokens, labels
<1>4. ASSUME NEW s \in 1 .. sp
      PROVE  /\ Column(OwnLogits(rows, sp, s - 1), part) /\ Column(OwnLogProbs(rows, sp, s - 1), part)
             /\ \A x \in 1 .. part : (s - 1) * part + x <= n =>
                  /\ OwnLogits(rows, sp, s - 1)[x] = tokens[(s - 1) * part + x]
                  /\ OwnLogProbs(rows, sp, s - 1)[x] = <<tokens[(s - 1) * part + x], labels[(s - 1) * part + x]>>
  <2> DEFINE a == SliceOf(tokens, sp, s - 1)
             b == SliceOf(labels, sp, s - 1)
  <2>1. SlicedAt(tokens, n, sp, s) /\ SlicedAt(labels, n, sp, s)
    BY <1>1, SliceIs
  <2>2. OwnLogits(rows, sp, s - 1) = a
    BY DEF OwnLogits, tokens
  <2>3. OwnLogProbs(rows, sp, s - 1) = LogProbs(a, b)
    BY <2>2 DEF OwnLogProbs, tokens, labels
  <2>4. /\ Column(a, part)
        /\ \A x \in 1 .. part : (s - 1) * part + x <= n =>
             a[x] = tokens[(s - 1) * part + x] /\ b[x] = labels[(s - 1) * part + x]
    BY <2>1 DEF SlicedAt
  <2> HIDE DEF a, b, part
  <2>5. DOMAIN a = 1 .. part
    BY <1>2, <2>4, ColumnIs
  <2>6. LogProbs(a, b) = [x \in 1 .. part |-> <<a[x], b[x]>>]
    BY <2>5 DEF LogProbs
  <2>7. Column(LogProbs(a, b), part)
    BY <2>6 DEF Column
  <2> QED BY <2>2, <2>3, <2>4, <2>6, <2>7
<1>5. ASSUME NEW i \in 1 .. m, NEW t \in 1 .. rows[i].response
      PROVE  \E s, x : OwnLands(rows, o, n, sp, i, t, s, x)
  <2> DEFINE place == PlaceOf(rows, o, i, t)
  <2>1. /\ place \in 1 .. n - 1 /\ tokens[place] = Before(rows[i], t)
        /\ labels[place] = <<rows[i].id, PromptLength + t>>
    BY <1>1 DEF PackedThere, tokens, labels
  <2> HIDE DEF place
  <2>2. \E s \in 1 .. sp : \E x \in 1 .. part : place = (s - 1) * part + x
    <3>1. place \in 1 .. sp * part
      BY <1>1, <1>2, <2>1
    <3>2. part \in Nat \ {0}
      <4>1. CASE part = 0
        <5>1. sp * part = 0
          BY <4>1
        <5> QED BY <3>1, <5>1
      <4> QED BY <1>2, <4>1
    <3> HIDE DEF part
    <3>6. sp \in Nat
      OBVIOUS
    <3>7. \A y \in 1 .. sp * part : \E u \in 0 .. sp - 1 : \E x \in 1 .. part : y = u * part + x
      BY <3>2, <3>6, LineAndPlace
    <3>3. \E u \in 0 .. sp - 1 : \E x \in 1 .. part : place = u * part + x
      BY <3>1, <3>7, Zenon
    <3>5. PICK u \in 0 .. sp - 1 : \E x \in 1 .. part : place = u * part + x
      BY <3>3
    <3>4. u + 1 \in 1 .. sp /\ (u + 1) - 1 = u
      OBVIOUS
    <3> QED BY <3>4, <3>5
  <2>3. PICK s \in 1 .. sp : \E x \in 1 .. part : place = (s - 1) * part + x
    BY <2>2
  <2>4. PICK x \in 1 .. part : place = (s - 1) * part + x
    BY <2>3
  <2>5. place <= n
    BY <1>1, <2>1
  <2>6. /\ OwnLogits(rows, sp, s - 1)[x] = Before(rows[i], t)
        /\ OwnLogProbs(rows, sp, s - 1)[x] = Expected(rows[i], t)
    <3>1. /\ OwnLogits(rows, sp, s - 1)[x] = tokens[place]
          /\ OwnLogProbs(rows, sp, s - 1)[x] = <<tokens[place], labels[place]>>
      BY <1>4, <2>4, <2>5
    <3> QED BY <2>1, <3>1 DEF Expected, Before
  <2>7. ASSUME NEW shares, Slices(shares, n, sp)
        PROVE  ResponsePart(rows, GatheredShares(shares, PadSize(Packed(rows), sp)))[i][t] = shares[s][x]
    <3> DEFINE all == GatheredShares(shares, PaddingOf(n, sp))
    <3>1. all[(s - 1) * part + x] = shares[s][x]
      <4>1. Lists(shares, sp, part)
        BY <2>7 DEF Slices
      <4>2. (s - 1) * part + x <= n
        BY <2>4, <2>5
      <4> QED BY <1>1, <4>1, <4>2, GatherIs
    <3>2. PadSize(Packed(rows), sp) = PaddingOf(n, sp)
      BY <1>3 DEF tokens
    <3> HIDE DEF all, part
    <3>3. ResponsePart(rows, all)[i][t] = all[place]
      BY ResponsePartIs DEF place
    <3> QED BY <2>4, <3>1, <3>2, <3>3 DEF all
  <2>8. OwnLands(rows, o, n, sp, i, t, s, x)
    BY <2>4, <2>6, <2>7 DEF OwnLands, place
  <2> QED BY <2>8
<1> QED BY <1>1, <1>4, <1>5 DEF n

\* Ids given for the responses stand where the tokens before them do.
LEMMA GivenIdsAre ==
  ASSUME NEW m \in Nat \ {0}, NEW rows, Fitted(rows, m), NEW o, Offsets(Tokens(rows, m), m, o), NEW ids
  PROVE  /\ Len(GivenIds(rows, ids)) = o[m]
         /\ \A i \in 1 .. m : \A t \in 1 .. rows[i].response :
              GivenIds(rows, ids)[PlaceOf(rows, o, i, t)] = ids[i][t]
<1> DEFINE list(i) == [j \in 1 .. rows[i].prompt + rows[i].response |->
                        LET t == j - rows[i].prompt + 1
                        IN  IF t \in 1 .. ResponseLength THEN ids[i][t] ELSE Zero]
           lists == [i \in DOMAIN rows |-> list(i)]
<1>1. /\ \A i \in 1 .. m : Tokens(rows, m)[i] \in Nat
      /\ DOMAIN rows = 1 .. m
  BY AttendedLists
<1>2. GivenIds(rows, ids) = FlattenSeq(lists)
  BY DEF GivenIds, IdsPlaced
<1>3. \A i \in 1 .. m : Column(list(i), Tokens(rows, m)[i])
  BY DEF Column, Tokens
<1>4. ASSUME NEW i \in 1 .. m, NEW t \in 1 .. rows[i].response
      PROVE  /\ rows[i].prompt + t - 1 \in 1 .. Tokens(rows, m)[i]
             /\ list(i)[rows[i].prompt + t - 1] = ids[i][t]
  <2> DEFINE p == rows[i].prompt
             q == rows[i].response
             j == p + t - 1
  <2>1. AttendsTo(rows[i]) /\ p \in Nat
    BY AttendedIs, LengthsAssumption DEF Fitted, Fitting
  <2>2. j \in 1 .. p + q /\ t \in 1 .. ResponseLength
    BY <2>1 DEF AttendsTo
  <2>3. t \in Nat /\ j - p + 1 = t
    <3>1. t \in Nat
      BY <2>1, <2>2, LengthsAssumption
    <3> HIDE DEF p
    <3> QED BY <2>1, <3>1
  <2>4. list(i)[j] = IF j - p + 1 \in 1 .. ResponseLength THEN ids[i][j - p + 1] ELSE Zero
    BY <2>2
  <2>5. Tokens(rows, m)[i] = p + q
    BY DEF Tokens
  <2> HIDE DEF list, p, q
  <2> QED BY <2>2, <2>3, <2>4, <2>5 DEF p
<1> HIDE DEF list
<1>5. Lengthy(lists, m, Tokens(rows, m)) /\ \A i \in 1 .. m : lists[i] = list(i)
  <2>1. lists = [i \in 1 .. m |-> list(i)]
    BY <1>1
  <2>2. Len(lists) = m /\ \A i \in 1 .. m : lists[i] = list(i)
    BY <2>1
  <2> HIDE DEF lists
  <2> QED BY <1>3, <2>2 DEF Lengthy
<1> HIDE DEF lists
<1>6. Strung(lists, m, Tokens(rows, m), o, GivenIds(rows, ids))
  BY <1>1, <1>2, <1>5, FlattenStrings
<1>7. Len(GivenIds(rows, ids)) = o[m]
  <2>1. m \in 0 .. m
    OBVIOUS
  <2>2. o[m] \in Nat
    BY <1>1, <2>1, OffsetsAre
  <2> QED BY <1>6, <2>2, ColumnIs DEF Strung
<1>8. ASSUME NEW i \in 1 .. m, NEW t \in 1 .. rows[i].response
      PROVE  GivenIds(rows, ids)[PlaceOf(rows, o, i, t)] = ids[i][t]
  BY <1>4, <1>5, <1>6 DEF Strung, PlaceOf
<1> QED BY <1>7, <1>8

\* As many ids as tokens are too many for one of several ranks.
LEMMA NoneGathers ==
  ASSUME NEW n \in Nat, n > 1, NEW sp \in Nat \ {0}, n <= SliceSize(n, sp)
  PROVE  sp = 1 /\ SliceSize(n, sp) = n
<1> DEFINE q == SliceSize(n, sp)
           p == PaddingOf(n, sp)
<1>1. p \in 0 .. sp - 1 /\ q \in Nat /\ sp * q = n + p /\ n <= q
  BY SliceSizes
<1> HIDE DEF q, p
<1>2. CASE sp = 1
  BY <1>1, <1>2 DEF q
<1>3. CASE sp # 1
  <2> DEFINE k == sp - 2
             a == k * q
  <2>1. k \in Nat /\ sp = k + 2
    BY <1>3
  <2>2. sp * q = a + 2 * q /\ a \in Nat
    BY <1>1, <2>1
  <2>3. k * 1 <= k * q
    <3>1. q >= 1
      BY <1>1
    <3> HIDE DEF k
    <3> QED BY <1>1, <2>1, <3>1
  <2> HIDE DEF a, k
  <2>4. k <= a
    BY <2>1, <2>3 DEF a
  <2>5. FALSE
    BY <1>1, <2>1, <2>2, <2>4
  <2> QED BY <2>5
<1> QED BY <1>2, <1>3

\* The packed rows have at least two tokens.
LEMMA TwoTokens ==
  ASSUME NEW m \in Nat \ {0}, NEW rows, Fitted(rows, m), NEW o, Offsets(Tokens(rows, m), m, o)
  PROVE  o[m] \in Nat /\ o[m] > 1
<1>1. o[m] \in Nat /\ \A t \in 1 .. rows[m].response : PackedThere(rows, o, o[m], m, t)
  BY PackedPlaces
<1>2. 1 \in 1 .. rows[m].response
  <2>1. Fitting(rows[m])
    BY DEF Fitted
  <2> QED BY <2>1, LengthsAssumption DEF Fitting
<1>3. PlaceOf(rows, o, m, 1) \in 1 .. o[m] - 1
  BY <1>1, <1>2 DEF PackedThere
<1> QED BY <1>1, <1>3

-----------------------------------------------------------------------------
\* The chunks of a context-parallel group.

\* What each rank has of a row.
ShareLength(row, tp, cp) == AlignedLength(row, tp, cp) \div cp

\* A row of len tokens is padded to one length for each rank, of two halves where there are several.
AlignedTo(row, len, tp, cp) ==
  LET length == AlignedLength(row, tp, cp)
      half   == Half(row, tp, cp)
  IN  /\ length \in Nat /\ len <= length
      /\ ShareLength(row, tp, cp) \in Nat /\ length = ShareLength(row, tp, cp) * cp
      /\ cp # 1 => /\ half \in Nat /\ length = half * (2 * cp)
                   /\ ShareLength(row, tp, cp) = half + half

\* AlignedLength rounds up to that.
LEMMA AlignedLengthIs ==
  ASSUME NEW row, NEW len \in Nat, Len(Attended(row)) = len, NEW tp \in Nat \ {0}, NEW cp \in Nat \ {0}
  PROVE  AlignedTo(row, len, tp, cp)
<1> DEFINE size == AlignSize(tp, cp)
           k == (len + size - 1) \div size
           length == AlignedLength(row, tp, cp)
           h == k * tp
<1>1. length = k * size
  BY DEF AlignedLength
<1>2. 2 * tp \in Nat \ {0} /\ 2 * cp \in Nat \ {0}
  OBVIOUS
<1>3. size \in Nat \ {0}
  <2>1. (2 * tp) * cp \in Nat \ {0}
    BY <1>2, Factors
  <2> QED BY <2>1 DEF AlignSize
<1>4. k \in Nat /\ len <= k * size
  <2> HIDE DEF size
  <2>1. len + size - 1 \in Nat
    BY <1>3
  <2>2. k \in Nat /\ len + size - 1 = k * size + ((len + size - 1) % size) /\ (len + size - 1) % size \in 0 .. size - 1
    BY <1>3, <2>1, Lines
  <2> HIDE DEF k
  <2>3. k * size \in Nat
    BY <1>3, <2>2
  <2> QED BY <1>3, <2>2, <2>3
<1>5. CASE cp = 1
  <2>1. size = tp
    BY <1>5 DEF AlignSize
  <2> HIDE DEF k, size
  <2>2. k * size \in Nat
    BY <1>3, <1>4
  <2>3. length \in Nat /\ length \div 1 = length /\ length * 1 = length
    BY <1>1, <2>2
  <2> HIDE DEF length
  <2> QED BY <1>1, <1>4, <1>5, <2>3 DEF AlignedTo, ShareLength, length
<1>6. CASE cp # 1
  <2>1. size = 2 * tp * cp
    BY <1>6 DEF AlignSize
  <2> HIDE DEF k, size
  <2>2. h \in Nat /\ k * size \in Nat
    BY <1>3, <1>4
  <2>3. k * size = h * (2 * cp)
    <3>1. size = tp * (2 * cp)
      BY <2>1
    <3>2. k * (tp * (2 * cp)) = (k * tp) * (2 * cp)
      BY <1>2, <1>4, Regroup
    <3> QED BY <3>1, <3>2
  <2> HIDE DEF h
  <2>4. (h * (2 * cp)) \div (2 * cp) = h
    BY <1>2, <2>2, Multiple
  <2>5. h * (2 * cp) = (h + h) * cp /\ h + h \in Nat
    BY <2>2
  <2>6. ((h + h) * cp) \div cp = h + h
    BY <2>5, Multiple
  <2>7. Half(row, tp, cp) = h
    BY <1>1, <2>3, <2>4 DEF Half
  <2>8. ShareLength(row, tp, cp) = h + h
    BY <1>1, <2>3, <2>5, <2>6 DEF ShareLength
  <2>9. length \in Nat /\ len <= length
    BY <1>1, <1>4, <2>2
  <2>10. length = h * (2 * cp) /\ length = (h + h) * cp
    BY <1>1, <2>3, <2>5
  <2> HIDE DEF length
  <2> QED BY <2>2, <2>5, <2>7, <2>8, <2>9, <2>10 DEF AlignedTo, length
<1> QED BY <1>5, <1>6

\* The rank and the place in its share that JoinedChunks takes token j of a row from.
ChunkOf(row, tp, cp, j) == (j - 1) \div Half(row, tp, cp)
Within(row, tp, cp, j) == ((j - 1) % Half(row, tp, cp)) + 1
TakenFrom(row, tp, cp, j, s, y) ==
  IF cp = 1 THEN s = 1 /\ y = j
  ELSE IF ChunkOf(row, tp, cp, j) < cp
         THEN s = ChunkOf(row, tp, cp, j) + 1 /\ y = Within(row, tp, cp, j)
         ELSE s = 2 * cp - ChunkOf(row, tp, cp, j) /\ y = Half(row, tp, cp) + Within(row, tp, cp, j)

\* len tokens fill no more than twice cp chunks of h, and token j is at place w of chunk c.
Halves(h, cp, len) == len <= h * (2 * cp)
InChunk(h, cp, j, c, w) ==
  h \in Nat \ {0} /\ c \in 0 .. 2 * cp - 1 /\ w \in 1 .. h /\ j = c * h + w

\* A token's chunk is one of those there are.
LEMMA ChunkIsOne ==
  ASSUME NEW h \in Nat, NEW cp \in Nat \ {0}, NEW len \in Nat, Halves(h, cp, len), NEW j \in 1 .. len
  PROVE  InChunk(h, cp, j, (j - 1) \div h, ((j - 1) % h) + 1)
<1> DEFINE k == 2 * cp
           c == (j - 1) \div h
           w == (j - 1) % h
<1>1. k \in Nat /\ k = 2 * cp /\ len <= h * k
  BY DEF Halves
<1> HIDE DEF k
<1>2. h # 0
  <2> SUFFICES ASSUME h = 0 PROVE FALSE
    OBVIOUS
  <2>1. h * k = 0
    BY <1>1
  <2> QED BY <1>1, <2>1
<1>3. c \in Nat /\ w \in 0 .. h - 1 /\ j - 1 = (c * h) + w
  <2> DEFINE x == j - 1
  <2>1. x \in Nat /\ h \in Nat \ {0}
    BY <1>2
  <2> HIDE DEF x
  <2>2. x \div h \in Nat /\ x % h \in 0 .. h - 1 /\ x = ((x \div h) * h) + (x % h)
    BY <2>1, Lines
  <2> QED BY <2>2 DEF x
<1> HIDE DEF c, w
<1>4. c < k
  <2> SUFFICES ASSUME k <= c PROVE FALSE
    BY <1>1, <1>3
  <2>1. k * h <= c * h
    BY <1>1, <1>3
  <2>2. k * h = h * k /\ k * h \in Nat /\ c * h \in Nat
    BY <1>1, <1>3
  <2> QED BY <1>1, <1>3, <2>1, <2>2
<1>5. j = c * h + (w + 1)
  <2>1. c * h \in Nat
    BY <1>3
  <2> QED BY <1>3, <2>1
<1>6. c \in 0 .. 2 * cp - 1 /\ w + 1 \in 1 .. h /\ h \in Nat \ {0}
  BY <1>1, <1>2, <1>3, <1>4
<1> QED BY <1>5, <1>6 DEF c, w, InChunk

\* The chunks of a rank have the length of its share.
LEMMA ChunksLength ==
  ASSUME NEW row, NEW len \in Nat, Len(Attended(row)) = len, NEW tp \in Nat \ {0}, NEW cp \in Nat \ {0},
         NEW values, Column(values, len), NEW rank \in 0 .. cp - 1
  PROVE  /\ Column(ChunksOf(row, values, tp, cp, rank), ShareLength(row, tp, cp))
         /\ cp = 1 => \A j \in 1 .. len : ChunksOf(row, values, tp, cp, rank)[j] = values[j]
         /\ cp # 1 =>
              LET half  == Half(row, tp, cp)
                  front == FrontOf(row, values, tp, cp, rank)
                  from  == half * (2 * cp - 1 - rank)
              IN  /\ \A i \in 1 .. half : ChunksOf(row, values, tp, cp, rank)[i] =
                                            IF Len(front) = 1 THEN front[1] ELSE front[i]
                  /\ \A i \in 1 .. half : from + i <= len =>
                       ChunksOf(row, values, tp, cp, rank)[half + i] = values[from + i]
<1> DEFINE length == AlignedLength(row, tp, cp)
           pad == length - len
           pads == [i \in 1 .. pad |-> Pad]
           padded == values \o pads
           x == ChunksOf(row, values, tp, cp, rank)
<1>1. AlignedTo(row, len, tp, cp)
  BY AlignedLengthIs
<1>2. length \in Nat /\ pad \in Nat /\ len + pad = length
  BY <1>1 DEF AlignedTo
<1>3. Column(pads, pad)
  BY DEF Column
<1>4. Len(values) = len
  BY ColumnIs
<1>5. x = IF cp = 1 THEN padded
          ELSE [i \in 1 .. Half(row, tp, cp) |->
                  IF Len(FrontOf(row, values, tp, cp, rank)) = 1 THEN FrontOf(row, values, tp, cp, rank)[1]
                  ELSE FrontOf(row, values, tp, cp, rank)[i]]
               \o SubSeq(padded, length - Half(row, tp, cp) * (rank + 1) + 1, length - Half(row, tp, cp) * rank)
  BY <1>4 DEF ChunksOf
<1> HIDE DEF length, pad, pads, x
<1>6. Joins(values, pads, len, pad, padded)
  BY <1>2, <1>3, ColumnsJoined
<1> HIDE DEF padded
<1>7. Column(padded, length) /\ \A i \in 1 .. len : padded[i] = values[i]
  BY <1>2, <1>6 DEF Joins
<1>8. CASE cp = 1
  <2>1. x = padded
    BY <1>5, <1>8
  <2>2. ShareLength(row, tp, cp) = length
    <3>1. length \div 1 = length
      BY <1>2
    <3> QED BY <1>8, <3>1 DEF ShareLength, length
  <2> QED BY <1>7, <1>8, <2>1, <2>2 DEF x
<1>9. CASE cp # 1
  <2> DEFINE half == Half(row, tp, cp)
             share == ShareLength(row, tp, cp)
             front == FrontOf(row, values, tp, cp, rank)
             u == [i \in 1 .. half |-> IF Len(front) = 1 THEN front[1] ELSE front[i]]
             from == half * (2 * cp - 1 - rank)
             v == SubSeq(padded, length - half * (rank + 1) + 1, length - half * rank)
  <2>1. half \in Nat /\ share = half + half /\ length = half * (2 * cp)
    BY <1>1, <1>9 DEF AlignedTo, length
  <2>2. x = u \o v
    BY <1>5, <1>9
  <2>3. Column(u, half)
    BY DEF Column
  <2>9. \A i \in 1 .. half : u[i] = IF Len(front) = 1 THEN front[1] ELSE front[i]
    OBVIOUS
  <2> HIDE DEF half, share, u, front
  <2>4. from \in Nat /\ from + half <= length /\ length - half * (rank + 1) = from /\ length - half * rank = from + half
    <3> DEFINE a == half * rank
               b == half * cp
    <3>1. rank \in Nat /\ rank + 1 <= cp
      OBVIOUS
    <3>2. a \in Nat /\ b \in Nat /\ half * (rank + 1) = a + half
      BY <2>1, <3>1
    <3>3. half * (2 * cp) = b + b /\ from = (b + b) - half - a
      BY <2>1, <3>1
    <3>4. a + half <= b
      <4>1. half * (rank + 1) <= half * cp
        BY <2>1, <3>1
      <4> QED BY <3>2, <4>1
    <3> HIDE DEF a, b
    <3>5. length = b + b
      BY <2>1, <3>3
    <3>6. half * rank = a
      BY DEF a
    <3> HIDE DEF from
    <3> QED BY <2>1, <3>2, <3>3, <3>4, <3>5, <3>6
  <2>5. v = [i \in 1 .. half |-> padded[from + i]]
    <3> HIDE DEF from
    <3>1. SubSeq(padded, from + 1, from + half) = [i \in 1 .. half |-> padded[from + i]]
      BY <1>2, <1>7, <2>1, <2>4, SubSeqIs
    <3> QED BY <2>4, <3>1
  <2> HIDE DEF from, v
  <2>6. Column(v, half) /\ \A i \in 1 .. half : v[i] = padded[from + i]
    BY <2>5 DEF Column
  <2>7. Joins(u, v, half, half, x)
    BY <2>1, <2>2, <2>3, <2>6, ColumnsJoined
  <2>8. ASSUME NEW i \in 1 .. half, from + i <= len PROVE x[half + i] = values[from + i]
    <3>1. from + i \in 1 .. len
      BY <2>1, <2>4, <2>8
    <3> QED BY <1>7, <2>6, <2>7, <3>1 DEF Joins
  <2>10. Column(x, share) /\ \A i \in 1 .. half : x[i] = IF Len(front) = 1 THEN front[1] ELSE front[i]
    BY <2>1, <2>7, <2>9 DEF Joins
  <2> QED BY <1>9, <2>8, <2>10 DEF half, share, front, from, x
<1> QED BY <1>8, <1>9

\* Token j of a row of len is taken from place y of the share of rank s, where it stands.
HeldAt(row, len, tp, cp, j, s, y) ==
  /\ s \in 1 .. cp /\ y \in 1 .. ShareLength(row, tp, cp)
  /\ TakenFrom(row, tp, cp, j, s, y)
  /\ \A values : Column(values, len) => ChunksOf(row, values, tp, cp, s - 1)[y] = values[j]

\* A token stands in the chunk it is taken from.
LEMMA ChunksHold ==
  ASSUME NEW row, NEW len \in Nat, Len(Attended(row)) = len, NEW tp \in Nat \ {0}, NEW cp \in Nat \ {0},
         NEW j \in 1 .. len
  PROVE  \E s, y : HeldAt(row, len, tp, cp, j, s, y)
<1> SUFFICES \E s \in 1 .. cp : \E y \in 1 .. ShareLength(row, tp, cp) :
               /\ TakenFrom(row, tp, cp, j, s, y)
               /\ \A values : Column(values, len) => ChunksOf(row, values, tp, cp, s - 1)[y] = values[j]
  BY DEF HeldAt
<1>1. AlignedTo(row, len, tp, cp)
  BY AlignedLengthIs
<1>2. CASE cp = 1
  <2>1. ShareLength(row, tp, cp) \in Nat /\ len <= ShareLength(row, tp, cp)
    <3>1. AlignedLength(row, tp, cp) \in Nat /\ len <= AlignedLength(row, tp, cp)
      BY <1>1 DEF AlignedTo
    <3>2. AlignedLength(row, tp, cp) \div 1 = AlignedLength(row, tp, cp)
      BY <3>1
    <3> QED BY <1>2, <3>1, <3>2 DEF ShareLength
  <2>2. 1 \in 1 .. cp /\ j \in 1 .. ShareLength(row, tp, cp) /\ 1 - 1 = 0 /\ 0 \in 0 .. cp - 1
    BY <1>2, <2>1
  <2>3. TakenFrom(row, tp, cp, j, 1, j)
    BY <1>2 DEF TakenFrom
  <2>4. \A values : Column(values, len) => ChunksOf(row, values, tp, cp, 0)[j] = values[j]
    <3> SUFFICES ASSUME NEW values, Column(values, len) PROVE ChunksOf(row, values, tp, cp, 0)[j] = values[j]
      OBVIOUS
    <3>1. cp = 1 => \A i \in 1 .. len : ChunksOf(row, values, tp, cp, 0)[i] = values[i]
      BY <2>2, ChunksLength
    <3> QED BY <1>2, <3>1
  <2> QED BY <2>2, <2>3, <2>4
<1>3. CASE cp # 1
  <2> DEFINE half == Half(row, tp, cp)
             c == (j - 1) \div half
             w == ((j - 1) % half) + 1
  <2>1. half \in Nat /\ ShareLength(row, tp, cp) = half + half /\ len <= half * (2 * cp)
    BY <1>1, <1>3 DEF AlignedTo
  <2>2. half \in Nat \ {0} /\ c \in 0 .. 2 * cp - 1 /\ w \in 1 .. half /\ j = c * half + w
    <3> HIDE DEF half
    <3>1. Halves(half, cp, len)
      BY <2>1 DEF Halves
    <3>2. InChunk(half, cp, j, c, w)
      BY <2>1, <3>1, ChunkIsOne
    <3> HIDE DEF c, w
    <3> QED BY <3>2 DEF InChunk
  <2>3. ChunkOf(row, tp, cp, j) = c /\ Within(row, tp, cp, j) = w
    BY DEF ChunkOf, Within
  <2>4. TakenFrom(row, tp, cp, j, IF c < cp THEN c + 1 ELSE 2 * cp - c, IF c < cp THEN w ELSE half + w)
    BY <1>3, <2>3 DEF TakenFrom
  <2> HIDE DEF half, c, w
  <2>5. w \in 1 .. ShareLength(row, tp, cp) /\ half + w \in 1 .. ShareLength(row, tp, cp)
    BY <2>1, <2>2
  <2>6. CASE c < cp
    <3>1. c + 1 \in 1 .. cp /\ (c + 1) - 1 = c /\ c \in 0 .. cp - 1 /\ c \in Nat
      BY <2>2, <2>6
    <3>2. ASSUME NEW values, Column(values, len)
          PROVE  ChunksOf(row, values, tp, cp, c)[w] = values[j]
      <4> DEFINE front == FrontOf(row, values, tp, cp, c)
                 from == half * c
                 end == half * (c + 1)
                 last == IF end < len THEN end ELSE len
                 m == last - from
      <4>1. Len(values) = len
        BY <3>2, ColumnIs
      <4>2. front = SubSeq(values, from + 1, last)
        BY <4>1 DEF FrontOf, half
      <4>3. from \in Nat /\ end = from + half /\ j = from + w
        BY <2>2, <3>1
      <4> HIDE DEF from, end, front
      <4>4. m \in Nat /\ from + m = last /\ last <= len /\ w \in 1 .. m
        BY <2>2, <4>3
      <4> HIDE DEF last, m
      <4>5. SubSeq(values, from + 1, from + m) = [i \in 1 .. m |-> values[from + i]]
        BY <3>2, <4>3, <4>4, SubSeqIs
      <4>6. front = [i \in 1 .. m |-> values[from + i]]
        BY <4>2, <4>4, <4>5
      <4>7. Len(front) = m /\ front[w] = values[j]
        BY <4>3, <4>4, <4>6
      <4>8. (IF Len(front) = 1 THEN front[1] ELSE front[w]) = values[j]
        <5>1. Len(front) = 1 => w = 1
          BY <4>4, <4>7
        <5> QED BY <4>7, <5>1
      <4>9. ChunksOf(row, values, tp, cp, c)[w] = IF Len(front) = 1 THEN front[1] ELSE front[w]
        BY <1>3, <2>2, <3>1, <3>2, ChunksLength DEF front, half
      <4> QED BY <4>8, <4>9
    <3> QED BY <2>4, <2>5, <2>6, <3>1, <3>2
  <2>7. CASE ~(c < cp)
    <3> DEFINE rank == 2 * cp - c - 1
    <3>1. 2 * cp - c \in 1 .. cp /\ (2 * cp - c) - 1 = rank /\ rank \in 0 .. cp - 1 /\ 2 * cp - 1 - rank = c
      BY <2>2, <2>7
    <3> HIDE DEF rank
    <3>2. ASSUME NEW values, Column(values, len)
          PROVE  ChunksOf(row, values, tp, cp, rank)[half + w] = values[j]
      <4>1. half * (2 * cp - 1 - rank) + w = j
        <5>1. half * c = c * half
          BY <2>2
        <5> QED BY <2>2, <3>1, <5>1
      <4>2. \A i \in 1 .. half : half * (2 * cp - 1 - rank) + i <= len =>
              ChunksOf(row, values, tp, cp, rank)[half + i] = values[half * (2 * cp - 1 - rank) + i]
        BY <1>3, <3>1, <3>2, ChunksLength DEF half
      <4>3. j <= len
        OBVIOUS
      <4> QED BY <2>2, <4>1, <4>2, <4>3
    <3> QED BY <2>4, <2>5, <2>7, <3>1, <3>2
  <2> QED BY <2>6, <2>7
<1> QED BY <1>2, <1>3

\* The shares of all rows, and the chunks of one rank of what stands at their columns.
ShareLengths(rows, m, tp, cp) == [i \in 1 .. m |-> ShareLength(rows[i], tp, cp)]
AllChunks(rows, values, tp, cp, rank) == [i \in DOMAIN rows |-> ChunksOf(rows[i], values[i], tp, cp, rank)]

\* The number of tokens of a row, as Attended and Tokens have it.
LEMMA TokensAre ==
  ASSUME NEW m \in Nat, NEW rows, Fitted(rows, m), NEW i \in 1 .. m
  PROVE  /\ Tokens(rows, m)[i] \in Nat /\ Len(Attended(rows[i])) = Tokens(rows, m)[i]
         /\ DOMAIN Attended(rows[i]) = 1 .. Tokens(rows, m)[i]
<1>1. AttendsTo(rows[i])
  BY AttendedIs DEF Fitted
<1>2. Tokens(rows, m)[i] = rows[i].prompt + rows[i].response
  BY DEF Tokens
<1>3. Tokens(rows, m)[i] \in Nat /\ Column(Attended(rows[i]), Tokens(rows, m)[i])
  BY <1>1, <1>2 DEF AttendsTo
<1> QED BY <1>3, ColumnIs

\* PackedChunks strings them.
LEMMA PackedChunksAre ==
  ASSUME NEW m \in Nat \ {0}, NEW rows, Fitted(rows, m), NEW tp \in Nat \ {0}, NEW cp \in Nat \ {0},
         NEW o, Offsets(ShareLengths(rows, m, tp, cp), m, o), NEW rank \in 0 .. cp - 1,
         NEW values, \A i \in 1 .. m : Column(values[i], Tokens(rows, m)[i])
  PROVE  Strung(AllChunks(rows, values, tp, cp, rank), m, ShareLengths(rows, m, tp, cp), o,
                PackedChunks(rows, values, tp, cp, rank))
<1> DEFINE l == ShareLengths(rows, m, tp, cp)
           s == AllChunks(rows, values, tp, cp, rank)
<1>1. DOMAIN rows = 1 .. m
  BY AttendedLists
<1>2. ASSUME NEW i \in 1 .. m
      PROVE  l[i] \in Nat /\ Column(ChunksOf(rows[i], values[i], tp, cp, rank), l[i])
  <2>1. Tokens(rows, m)[i] \in Nat /\ Len(Attended(rows[i])) = Tokens(rows, m)[i]
    BY TokensAre
  <2>2. l[i] = ShareLength(rows[i], tp, cp)
    BY DEF ShareLengths
  <2>3. Column(ChunksOf(rows[i], values[i], tp, cp, rank), ShareLength(rows[i], tp, cp))
    BY <2>1, ChunksLength
  <2>4. ShareLength(rows[i], tp, cp) \in Nat
    <3>1. AlignedTo(rows[i], Tokens(rows, m)[i], tp, cp)
      BY <2>1, AlignedLengthIs
    <3> QED BY <3>1 DEF AlignedTo
  <2> QED BY <2>2, <2>3, <2>4
<1>3. s = [i \in 1 .. m |-> ChunksOf(rows[i], values[i], tp, cp, rank)]
  BY <1>1 DEF AllChunks
<1>4. Lengthy(s, m, l)
  <2>1. Len(s) = m /\ \A i \in 1 .. m : s[i] = ChunksOf(rows[i], values[i], tp, cp, rank)
    BY <1>3
  <2> HIDE DEF s, l
  <2> QED BY <1>2, <2>1 DEF Lengthy
<1>5. PackedChunks(rows, values, tp, cp, rank) = FlattenSeq(s)
  BY DEF PackedChunks, AllChunks
<1> HIDE DEF s, l
<1>6. Strung(s, m, l, o, FlattenSeq(s))
  BY <1>2, <1>4, FlattenStrings DEF l
<1> QED BY <1>5, <1>6 DEF s, l

\* The lists JoinedChunks puts together: each token from its chunk.
TakesFrom(rows, m, shares, tp, cp, o, lists) ==
  \A i \in 1 .. m : \A j \in 1 .. Tokens(rows, m)[i] : \A s, y :
    TakenFrom(rows[i], tp, cp, j, s, y) => lists[i][j] = shares[s][o[i - 1] + y]

\* It puts such lists together.
LEMMA JoinedChunksAre ==
  ASSUME NEW m \in Nat \ {0}, NEW rows, Fitted(rows, m), NEW tp \in Nat \ {0}, NEW cp \in Nat \ {0},
         NEW o, Offsets(ShareLengths(rows, m, tp, cp), m, o), NEW shares
  PROVE  \E lists : /\ Lengthy(lists, m, Tokens(rows, m))
                    /\ TakesFrom(rows, m, shares, tp, cp, o, lists)
                    /\ JoinedChunks(rows, shares, tp, cp) = FlattenSeq(lists)
<1> DEFINE l == ShareLengths(rows, m, tp, cp)
           k == Len(rows)
           Padding(f) == f = [i \in 0 .. k |-> IF i = 0 THEN 0 ELSE f[i - 1] + AlignedLength(rows[i], tp, cp)]
           cu == CHOOSE f : Padding(f)
<1>1. DOMAIN rows = 1 .. m /\ k = m
  BY AttendedLists
<1>2. \A i \in 1 .. m : l[i] \in Nat /\ AlignedLength(rows[i], tp, cp) = l[i] * cp
  <2> SUFFICES ASSUME NEW i \in 1 .. m PROVE l[i] \in Nat /\ AlignedLength(rows[i], tp, cp) = l[i] * cp
    OBVIOUS
  <2>1. AlignedTo(rows[i], Tokens(rows, m)[i], tp, cp)
    BY TokensAre, AlignedLengthIs
  <2>2. l[i] = ShareLength(rows[i], tp, cp)
    BY DEF ShareLengths
  <2> QED BY <2>1, <2>2 DEF AlignedTo
<1> HIDE DEF l, k
<1>3. \A i \in 0 .. m : o[i] \in Nat
  BY <1>2, OffsetsAre DEF l
<1>4. Padding(cu)
  <2> DEFINE g == [i \in 0 .. k |-> o[i] * cp]
  <2>1. ASSUME NEW i \in 0 .. k
        PROVE  g[i] = IF i = 0 THEN 0 ELSE g[i - 1] + AlignedLength(rows[i], tp, cp)
    <3>1. CASE i = 0
      <4>1. g[0] = o[0] * cp /\ o[0] = 0
        BY <1>1 DEF Offsets
      <4> QED BY <3>1, <4>1
    <3>2. CASE i # 0
      <4>1. i \in 1 .. m /\ i - 1 \in 0 .. k /\ i \in 0 .. k /\ i - 1 \in 0 .. m
        BY <1>1, <3>2
      <4>2. o[i] = o[i - 1] + l[i] /\ o[i - 1] \in Nat /\ l[i] \in Nat
        BY <1>2, <1>3, <4>1 DEF Offsets, l
      <4>3. o[i] * cp = o[i - 1] * cp + l[i] * cp
        BY <4>2
      <4>4. g[i] = o[i] * cp /\ g[i - 1] = o[i - 1] * cp
        BY <4>1
      <4> QED BY <1>2, <3>2, <4>1, <4>3, <4>4
    <3> QED BY <3>1, <3>2
  <2>2. DOMAIN g = 0 .. k
    OBVIOUS
  <2>3. Padding(g)
    <3>1. g = [i \in 0 .. k |-> g[i]]
      OBVIOUS
    <3> HIDE DEF g
    <3> QED BY <2>1, <3>1
  <2> HIDE DEF g, Padding
  <2> QED BY <2>3
<1>5. \A i \in 0 .. m : cu[i] = o[i] * cp
  <2> DEFINE N == {n \in Nat : n <= m => cu[n] = o[n] * cp}
  <2> HIDE DEF cu
  <2>1. \A i \in 0 .. m : cu[i] = IF i = 0 THEN 0 ELSE cu[i - 1] + AlignedLength(rows[i], tp, cp)
    BY <1>1, <1>4
  <2>2. 0 \in N
    <3>1. cu[0] = 0 /\ o[0] = 0
      BY <2>1 DEF Offsets
    <3> QED BY <3>1
  <2>3. ASSUME NEW n \in N PROVE n + 1 \in N
    <3>1. CASE ~(n + 1 <= m)
      BY <3>1
    <3>2. CASE n + 1 <= m
      <4> DEFINE i == n + 1
      <4>1. i \in 1 .. m /\ i - 1 = n /\ i \in 0 .. m /\ n \in 0 .. m /\ i # 0 /\ i \in Nat
        BY <3>2
      <4>2. cu[n] = o[n] * cp
        BY <3>2
      <4> HIDE DEF i
      <4>3. cu[i] = cu[n] + l[i] * cp
        BY <1>2, <2>1, <4>1
      <4>4. o[i] = o[n] + l[i] /\ o[n] \in Nat /\ l[i] \in Nat
        BY <1>2, <1>3, <4>1 DEF Offsets, l
      <4>5. o[i] * cp = o[n] * cp + l[i] * cp
        BY <4>4
      <4>6. cu[i] = o[i] * cp
        BY <4>2, <4>3, <4>5
      <4> QED BY <4>1, <4>6 DEF i
    <3> QED BY <3>1, <3>2
  <2>4. N = Nat
    <3>1. N \in SUBSET Nat
      OBVIOUS
    <3> HIDE DEF N
    <3> QED BY <2>2, <2>3, <3>1, Upward
  <2> QED BY <2>4
<1>6. \A i \in 1 .. m : cu[i - 1] \div cp = o[i - 1]
  <2> HIDE DEF cu
  <2> SUFFICES ASSUME NEW i \in 1 .. m PROVE cu[i - 1] \div cp = o[i - 1]
    OBVIOUS
  <2>1. i - 1 \in 0 .. m
    OBVIOUS
  <2>2. cu[i - 1] = o[i - 1] * cp /\ o[i - 1] \in Nat
    BY <1>3, <1>5, <2>1
  <2> QED BY <2>2, Multiple
<1> DEFINE start(i) == cu[i - 1] \div cp
           half(i) == Half(rows[i], tp, cp)
           chunk(i, j) == (j - 1) \div half(i)
           within(i, j) == ((j - 1) % half(i)) + 1
           Token(i, j) ==
             IF cp = 1 THEN shares[1][start(i) + j]
             ELSE IF chunk(i, j) < cp
                    THEN shares[chunk(i, j) + 1][start(i) + within(i, j)]
                    ELSE shares[2 * cp - chunk(i, j)][start(i) + half(i) + within(i, j)]
           lists == [i \in DOMAIN rows |-> [j \in DOMAIN Attended(rows[i]) |-> Token(i, j)]]
<1>7. JoinedChunks(rows, shares, tp, cp) = FlattenSeq(lists)
  BY DEF JoinedChunks, k
<1> HIDE DEF cu
<1>8. ASSUME NEW i \in 1 .. m, NEW j \in 1 .. Tokens(rows, m)[i], NEW s, NEW y,
             TakenFrom(rows[i], tp, cp, j, s, y)
      PROVE  Token(i, j) = shares[s][o[i - 1] + y]
  <2>1. start(i) = o[i - 1] /\ o[i - 1] \in Nat
    <3>1. i - 1 \in 0 .. m
      OBVIOUS
    <3> QED BY <1>3, <1>6, <3>1
  <2>2. CASE cp = 1
    BY <1>8, <2>1, <2>2 DEF TakenFrom
  <2>3. CASE cp # 1
    <3>1. IF chunk(i, j) < cp THEN s = chunk(i, j) + 1 /\ y = within(i, j)
          ELSE s = 2 * cp - chunk(i, j) /\ y = half(i) + within(i, j)
      BY <1>8, <2>3 DEF TakenFrom, ChunkOf, Within
    <3>2. CASE chunk(i, j) < cp
      <4> HIDE DEF chunk, within, start
      <4> QED BY <2>1, <2>3, <3>1, <3>2
    <3>3. CASE ~(chunk(i, j) < cp)
      <4>1. half(i) \in Nat /\ j \in Nat
        <5>1. AlignedTo(rows[i], Tokens(rows, m)[i], tp, cp)
          BY TokensAre, AlignedLengthIs
        <5> QED BY <2>3, <5>1 DEF AlignedTo
      <4>2. within(i, j) \in Int
        <5>1. half(i) # 0
          <6>1. AlignedTo(rows[i], Tokens(rows, m)[i], tp, cp) /\ Tokens(rows, m)[i] \in Nat
            BY TokensAre, AlignedLengthIs
          <6>2. Halves(half(i), cp, Tokens(rows, m)[i])
            BY <2>3, <6>1 DEF AlignedTo, Halves
          <6>3. InChunk(half(i), cp, j, (j - 1) \div half(i), ((j - 1) % half(i)) + 1)
            BY <4>1, <6>1, <6>2, ChunkIsOne
          <6> QED BY <6>3 DEF InChunk
        <5> HIDE DEF half
        <5> QED BY <4>1, <5>1
      <4> HIDE DEF chunk, within, start, half
      <4>3. start(i) + half(i) + within(i, j) = o[i - 1] + y
        BY <2>1, <3>1, <3>3, <4>1, <4>2
      <4> QED BY <2>3, <3>1, <3>3, <4>3
    <3> QED BY <3>2, <3>3
  <2> QED BY <2>2, <2>3
<1> HIDE DEF Token
<1>9. ASSUME NEW i \in 1 .. m
      PROVE  /\ Column(lists[i], Tokens(rows, m)[i])
             /\ \A j \in 1 .. Tokens(rows, m)[i] : lists[i][j] = Token(i, j)
  <2>1. Tokens(rows, m)[i] \in Nat /\ DOMAIN Attended(rows[i]) = 1 .. Tokens(rows, m)[i]
    BY TokensAre
  <2>2. lists[i] = [j \in 1 .. Tokens(rows, m)[i] |-> Token(i, j)]
    BY <1>1, <2>1
  <2>3. Column(lists[i], Tokens(rows, m)[i])
    BY <2>2 DEF Column
  <2> HIDE DEF lists
  <2> QED BY <2>2, <2>3
<1>10. Lengthy(lists, m, Tokens(rows, m))
  <2>1. lists = [i \in 1 .. m |-> lists[i]]
    BY <1>1
  <2> HIDE DEF lists
  <2>2. Len(lists) = m
    BY <2>1
  <2> QED BY <1>9, <2>2 DEF Lengthy
<1>11. TakesFrom(rows, m, shares, tp, cp, o, lists)
  <2> HIDE DEF lists
  <2>1. ASSUME NEW i \in 1 .. m, NEW j \in 1 .. Tokens(rows, m)[i], NEW s, NEW y,
               TakenFrom(rows[i], tp, cp, j, s, y)
        PROVE  lists[i][j] = shares[s][o[i - 1] + y]
    <3>1. Token(i, j) = shares[s][o[i - 1] + y]
      BY ONLY <1>8, <2>1
    <3> QED BY <1>9, <3>1
  <2> QED BY <2>1 DEF TakesFrom
<1> QED BY <1>7, <1>10, <1>11

\* The columns of all rows, and the labels that stand at them.
LabelsAt(rows) == [i \in DOMAIN rows |-> [j \in DOMAIN Attended(rows[i]) |-> LabelOf(Attended(rows[i])[j])]]

\* A column of the packed chunks of every rank holds each token at the place the chunks give it.
ChunkHeld(rows, o, values, tp, cp, i, j, s, y) ==
  PackedChunks(rows, values, tp, cp, s - 1)[o[i - 1] + y] = values[i][j]

\* What stands at the columns is found in the packed chunks.
LEMMA ChunkHolds ==
  ASSUME NEW m \in Nat \ {0}, NEW rows, Fitted(rows, m), NEW tp \in Nat \ {0}, NEW cp \in Nat \ {0},
         NEW o, Offsets(ShareLengths(rows, m, tp, cp), m, o),
         NEW i \in 1 .. m, NEW j \in 1 .. Tokens(rows, m)[i]
  PROVE  \E s \in 1 .. cp : \E y \in 1 .. ShareLengths(rows, m, tp, cp)[i] :
           /\ TakenFrom(rows[i], tp, cp, j, s, y)
           /\ \A values : (\A k \in 1 .. m : Column(values[k], Tokens(rows, m)[k])) =>
                            ChunkHeld(rows, o, values, tp, cp, i, j, s, y)
<1>1. DOMAIN rows = 1 .. m
  BY AttendedLists
<1>2. Tokens(rows, m)[i] \in Nat /\ Len(Attended(rows[i])) = Tokens(rows, m)[i]
  BY TokensAre
<1>3. ShareLengths(rows, m, tp, cp)[i] = ShareLength(rows[i], tp, cp)
  BY DEF ShareLengths
<1>4. PICK s, y : HeldAt(rows[i], Tokens(rows, m)[i], tp, cp, j, s, y)
  <2> DEFINE len == Tokens(rows, m)[i]
             row == rows[i]
  <2>1. len \in Nat /\ Len(Attended(row)) = len /\ j \in 1 .. len
    BY <1>2
  <2> HIDE DEF len, row
  <2>2. \E s, y : HeldAt(row, len, tp, cp, j, s, y)
    BY <2>1, ChunksHold
  <2> QED BY <2>2 DEF len, row
<1>5. /\ s \in 1 .. cp /\ y \in 1 .. ShareLength(rows[i], tp, cp)
      /\ TakenFrom(rows[i], tp, cp, j, s, y)
      /\ \A values : Column(values, Tokens(rows, m)[i]) =>
                       ChunksOf(rows[i], values, tp, cp, s - 1)[y] = values[j]
  BY <1>4 DEF HeldAt
<1>6. s - 1 \in 0 .. cp - 1
  BY <1>5
<1>7. ASSUME NEW values, \A k \in 1 .. m : Column(values[k], Tokens(rows, m)[k])
      PROVE  ChunkHeld(rows, o, values, tp, cp, i, j, s, y)
  <2>1. Strung(AllChunks(rows, values, tp, cp, s - 1), m, ShareLengths(rows, m, tp, cp), o,
               PackedChunks(rows, values, tp, cp, s - 1))
    BY <1>6, <1>7, PackedChunksAre
  <2>2. PackedChunks(rows, values, tp, cp, s - 1)[o[i - 1] + y] = AllChunks(rows, values, tp, cp, s - 1)[i][y]
    BY <1>3, <1>5, <2>1 DEF Strung
  <2>3. AllChunks(rows, values, tp, cp, s - 1)[i] = ChunksOf(rows[i], values[i], tp, cp, s - 1)
    BY <1>1 DEF AllChunks
  <2>4. ChunksOf(rows[i], values[i], tp, cp, s - 1)[y] = values[i][j]
    BY <1>5, <1>7
  <2> QED BY <2>2, <2>3, <2>4 DEF ChunkHeld
<1> QED BY <1>3, <1>5, <1>6, <1>7

\* The place a context-parallel group takes a response token from: rank s of it computed it at x.
ChunkLands(rows, n, tp, cp, i, t, s, x) ==
  /\ s \in 1 .. cp /\ x \in 1 .. n
  /\ ChunkLogits(rows, tp, cp, s - 1)[x] = Before(rows[i], t)
  /\ ChunkLogProbs(rows, tp, cp, s - 1)[x] = Expected(rows[i], t)
  /\ \A shares : ResponsePart(rows, JoinedChunks(rows, shares, tp, cp))[i][t] = shares[s][x]

\* There is one for every token.
LEMMA ChunkLandsAre ==
  ASSUME NEW m \in Nat \ {0}, NEW rows, Fitted(rows, m), NEW tp \in Nat \ {0}, NEW cp \in Nat \ {0}
  PROVE  \E n \in Nat : \A i \in 1 .. m : \A t \in 1 .. rows[i].response : \E s, x :
           ChunkLands(rows, n, tp, cp, i, t, s, x)
<1> DEFINE l == ShareLengths(rows, m, tp, cp)
<1>1. /\ \A i \in 1 .. m : Tokens(rows, m)[i] \in Nat
      /\ DOMAIN rows = 1 .. m /\ \A i \in 1 .. m : AllAttended(rows)[i] = Attended(rows[i])
      /\ Lengthy(AllAttended(rows), m, Tokens(rows, m))
  BY AttendedLists
<1>2. \A i \in 1 .. m : l[i] \in Nat
  <2> SUFFICES ASSUME NEW i \in 1 .. m PROVE l[i] \in Nat
    OBVIOUS
  <2>1. AlignedTo(rows[i], Tokens(rows, m)[i], tp, cp)
    BY TokensAre, AlignedLengthIs
  <2>2. l[i] = ShareLength(rows[i], tp, cp)
    BY DEF ShareLengths
  <2> QED BY <2>1, <2>2 DEF AlignedTo
<1> HIDE DEF l
<1>3. PICK o : Offsets(Tokens(rows, m), m, o)
  BY <1>1, OffsetsExist
<1>4. PICK o2 : Offsets(l, m, o2)
  BY <1>2, OffsetsExist
<1>5. o2[m] \in Nat /\ \A i \in 1 .. m : \A y \in 1 .. l[i] : o2[i - 1] + y \in 1 .. o2[m]
  BY <1>2, <1>4, OffsetsAre, PlacesAre
<1>6. Offsets(ShareLengths(rows, m, tp, cp), m, o2)
  BY <1>4 DEF l
<1>7. ASSUME NEW i \in 1 .. m, NEW t \in 1 .. rows[i].response
      PROVE  \E s, x : ChunkLands(rows, o2[m], tp, cp, i, t, s, x)
  <2> DEFINE row == rows[i]
             j == row.prompt + t - 1
  <2>1. AttendsTo(row) /\ Fitting(row)
    BY AttendedIs DEF Fitted
  <2>2. Tokens(rows, m)[i] = row.prompt + row.response
    BY DEF Tokens
  <2>3. j \in 1 .. Tokens(rows, m)[i] /\ Attended(row)[j] = Before(row, t) /\ t \in 1 .. ResponseLength
    BY <2>1, <2>2 DEF AttendsTo
  <2> HIDE DEF j
  <2>4. PICK s \in 1 .. cp : \E y \in 1 .. l[i] :
          /\ TakenFrom(rows[i], tp, cp, j, s, y)
          /\ \A values : (\A k \in 1 .. m : Column(values[k], Tokens(rows, m)[k])) =>
                           ChunkHeld(rows, o2, values, tp, cp, i, j, s, y)
    BY <1>6, <2>3, ChunkHolds DEF l
  <2>5. PICK y \in 1 .. l[i] :
          /\ TakenFrom(rows[i], tp, cp, j, s, y)
          /\ \A values : (\A k \in 1 .. m : Column(values[k], Tokens(rows, m)[k])) =>
                           ChunkHeld(rows, o2, values, tp, cp, i, j, s, y)
    BY <2>4
  <2> DEFINE x == o2[i - 1] + y
             logits == ChunkLogits(rows, tp, cp, s - 1)
             labels == PackedChunks(rows, LabelsAt(rows), tp, cp, s - 1)
             Masked2(pair) == IF pair[2][2] = Pad[2] THEN Zero ELSE pair
  <2>6. x \in 1 .. o2[m]
    BY <1>5
  <2>7. logits[x] = Before(row, t)
    <3>1. \A k \in 1 .. m : Column(AllAttended(rows)[k], Tokens(rows, m)[k])
      BY <1>1 DEF Lengthy
    <3>2. ChunkHeld(rows, o2, AllAttended(rows), tp, cp, i, j, s, y)
      BY <2>5, <3>1
    <3>3. logits = PackedChunks(rows, AllAttended(rows), tp, cp, s - 1)
      BY DEF ChunkLogits, AllAttended
    <3> QED BY <1>1, <2>3, <3>2, <3>3 DEF ChunkHeld
  <2>8. DOMAIN logits = 1 .. o2[m]
    <3>1. \A k \in 1 .. m : Column(AllAttended(rows)[k], Tokens(rows, m)[k])
      BY <1>1 DEF Lengthy
    <3>2. s - 1 \in 0 .. cp - 1
      OBVIOUS
    <3>3. Strung(AllChunks(rows, AllAttended(rows), tp, cp, s - 1), m, ShareLengths(rows, m, tp, cp), o2,
                 PackedChunks(rows, AllAttended(rows), tp, cp, s - 1))
      BY <1>6, <3>1, <3>2, PackedChunksAre
    <3>4. logits = PackedChunks(rows, AllAttended(rows), tp, cp, s - 1)
      BY DEF ChunkLogits, AllAttended
    <3> QED BY <3>3, <3>4 DEF Strung, Column
  <2>9. labels[x] = <<row.id, PromptLength + t>>
    <3>1. ASSUME NEW k \in 1 .. m
          PROVE  /\ Column(LabelsAt(rows)[k], Tokens(rows, m)[k])
                 /\ \A c \in 1 .. Tokens(rows, m)[k] : LabelsAt(rows)[k][c] = LabelOf(Attended(rows[k])[c])
      <4>1. DOMAIN Attended(rows[k]) = 1 .. Tokens(rows, m)[k]
        BY TokensAre
      <4>2. LabelsAt(rows)[k] = [c \in 1 .. Tokens(rows, m)[k] |-> LabelOf(Attended(rows[k])[c])]
        BY <1>1, <4>1 DEF LabelsAt
      <4> QED BY <4>2 DEF Column
    <3>2. ChunkHeld(rows, o2, LabelsAt(rows), tp, cp, i, j, s, y)
      BY <2>5, <3>1
    <3>3. labels[x] = LabelOf(Before(row, t))
      BY <2>3, <3>1, <3>2 DEF ChunkHeld
    <3>4. PromptLength + t - 1 \in PromptLength .. PromptLength + ResponseLength - 1
          /\ PromptLength + t - 1 + 1 = PromptLength + t
      BY <2>3, LengthsAssumption
    <3>5. LabelOf(Before(row, t)) = <<row.id, PromptLength + t>>
      BY <3>4 DEF LabelOf, Before
    <3> QED BY <3>3, <3>5
  <2> HIDE DEF x, logits, labels
  <2>10. ChunkLogProbs(rows, tp, cp, s - 1)[x] = Expected(row, t)
    <3> DEFINE pairs == LogProbs(logits, labels)
    <3>1. ChunkLogProbs(rows, tp, cp, s - 1) = [c \in DOMAIN pairs |-> Masked2(pairs[c])]
      BY DEF ChunkLogProbs, LabelsAt, logits, labels
    <3>2. DOMAIN pairs = 1 .. o2[m] /\ pairs[x] = <<logits[x], labels[x]>>
      BY <2>6, <2>8 DEF LogProbs
    <3>3. pairs[x] = Expected(row, t)
      BY <2>7, <2>9, <3>2 DEF Expected, Before
    <3> HIDE DEF pairs
    <3>4. ChunkLogProbs(rows, tp, cp, s - 1)[x] = Masked2(pairs[x])
      BY <2>6, <3>1, <3>2
    <3>5. pairs[x][2][2] = PromptLength + t /\ PromptLength + t # 0
      BY <2>3, <3>3, LengthsAssumption DEF Expected
    <3>6. Pad[2] = 0
      BY DEF Pad
    <3> QED BY <3>3, <3>4, <3>5, <3>6
  <2>11. ASSUME NEW shares
         PROVE  ResponsePart(rows, JoinedChunks(rows, shares, tp, cp))[i][t] = shares[s][x]
    <3>1. PICK lists : /\ Lengthy(lists, m, Tokens(rows, m))
                       /\ TakesFrom(rows, m, shares, tp, cp, o2, lists)
                       /\ JoinedChunks(rows, shares, tp, cp) = FlattenSeq(lists)
      BY <1>6, JoinedChunksAre
    <3>2. Strung(lists, m, Tokens(rows, m), o, FlattenSeq(lists))
      BY <1>1, <1>3, <3>1, FlattenStrings
    <3>3. ResponsePart(rows, FlattenSeq(lists))[i][t] = FlattenSeq(lists)[PlaceOf(rows, o, i, t)]
      BY <1>3, ResponsePartIs
    <3>4. PlaceOf(rows, o, i, t) = o[i - 1] + j
      BY DEF PlaceOf, j
    <3>5. FlattenSeq(lists)[o[i - 1] + j] = lists[i][j]
      BY <2>3, <3>2 DEF Strung
    <3>6. lists[i][j] = shares[s][x]
      BY <2>3, <2>5, <3>1 DEF TakesFrom, x
    <3> QED BY <3>1, <3>3, <3>4, <3>5, <3>6
  <2>12. s \in 1 .. cp
    OBVIOUS
  <2>13. ChunkLands(rows, o2[m], tp, cp, i, t, s, x)
    BY <2>6, <2>7, <2>10, <2>11, <2>12 DEF ChunkLands, logits
  <2> QED BY <2>13
<1> QED BY <1>5, <1>7

-----------------------------------------------------------------------------
\* What a batch and the ranks have of a response.

PerToken == {"old_log_probs", "student_top_k_ids", "student_top_k_log_probs", "values"}
Told == PerToken \cup {"responses"}

\* What position t of a row has in a column the ranks computed, and in one of the batch.
ScoredAt(c, col, row, t) ==
  CASE col \in {"values", "vpreds"}      -> Before(row, t)
    [] col = "old_log_probs"             -> Expected(row, t)
    [] col = "student_top_k_ids"         -> <<"top", Before(row, t)>>
    [] col = "student_top_k_log_probs"   -> <<Before(row, t), <<"top", Before(row, t)>>>>
    [] col = "log_probs"                 -> IF c.topk THEN <<Before(row, t), <<"top", Before(row, t)>>>>
                                                      ELSE Expected(row, t)
StoredAt(c, col, row, t) ==
  IF col # "values" THEN ScoredAt(c, col, row, t)
  ELSE IF c.backend = "megatron" \/ t \in row.valid THEN Value(Before(row, t)) ELSE 0

\* n rows of a batch, each with its own.
RowSound(c, data, i) ==
  /\ Fitting(data.responses[i])
  /\ \A col \in PerToken \cap DOMAIN data : \A t \in 1 .. data.responses[i].response :
       data[col][i][t] = StoredAt(c, col, data.responses[i], t)
Sound(c, data, n) ==
  Table(data, n) /\ "responses" \in DOMAIN data /\ \A i \in 1 .. n : RowSound(c, data, i)

\* What the ranks compute, and what they need for it.
Asks(c, ph) ==
  CASE ph = "log_prob"      -> ScoredColumns(c)
    [] ph = "values"        -> {"values"}
    [] ph = "update_critic" -> {"vpreds"}
    [] ph = "update"        -> {"log_probs"}
Brings(c, ph) ==
  CASE ph = "update_critic" -> {"values"}
    [] ph = "update"        -> ScoredColumns(c)
    [] OTHER                -> {}

\* The micro-batches of a rank have each of its m rows once, one after the other where they
\* are not dynamic.
Reaches(c, parts, m) ==
  FlattenSeq(parts) \in Orders(m) /\ (~c.dynamic => FlattenSeq(parts) = [i \in 1 .. m |-> i])

\* An output of a rank, for the rows of its micro-batch.
OutOf(c, data, part, output, C) ==
  /\ DOMAIN output = C
  /\ \A col \in C :
       /\ Column(output[col], Len(part))
       /\ \A i \in 1 .. Len(part) : \A t \in 1 .. data.responses[part[i]].response :
            output[col][i][t] = ScoredAt(c, col, data.responses[part[i]], t)
Outs(c, x, C) == \A k \in DOMAIN x.out : OutOf(c, x.data, x.parts[k], x.out[k], C)

\* The ranks in a forward, each with m rows, and those of a group with the same.
RankAtWork(c, x, m, ph) ==
  /\ Sound(c, x.data, m) /\ Brings(c, ph) \subseteq DOMAIN x.data
  /\ Reaches(c, x.parts, m)
  /\ DOMAIN x.out \subseteq DOMAIN x.parts /\ Outs(c, x, Asks(c, ph))
AtWork(c, ws, m, ph) ==
  /\ \A r \in 0 .. c.world - 1 : RankAtWork(c, ws[r], m, ph)
  /\ \A r, q \in 0 .. c.world - 1 :
       DealtTo(c, r) = DealtTo(c, q) => ws[r].data = ws[q].data /\ ws[r].parts = ws[q].parts

\* The rows of micro-batches are among those of the rank.
LEMMA PartsReach ==
  ASSUME NEW c, NEW m \in Nat, NEW p \in Nat \ {0}, NEW parts, Parted(parts, p), Reaches(c, parts, m)
  PROVE  \A k \in 1 .. p : /\ Len(parts[k]) \in Nat /\ Column(parts[k], Len(parts[k]))
                           /\ \A i \in 1 .. Len(parts[k]) : parts[k][i] \in 1 .. m
<1> DEFINE l == [k \in 1 .. p |-> Len(parts[k])]
           x == FlattenSeq(parts)
<1>1. \A k \in 1 .. p : Len(parts[k]) \in Nat /\ Column(parts[k], Len(parts[k]))
  <2> SUFFICES ASSUME NEW k \in 1 .. p PROVE Len(parts[k]) \in Nat /\ Column(parts[k], Len(parts[k]))
    OBVIOUS
  <2>1. PICK n \in Nat : Column(parts[k], n)
    BY DEF Parted
  <2> QED BY <2>1, ColumnIs
<1>2. \A k \in 1 .. p : l[k] \in Nat /\ l[k] = Len(parts[k])
  BY <1>1
<1> HIDE DEF l
<1>3. Lengthy(parts, p, l)
  <2>1. Len(parts) = p
    BY ColumnIs DEF Parted
  <2> QED BY <1>1, <1>2, <2>1 DEF Lengthy
<1>4. PICK o : Offsets(l, p, o)
  BY <1>2, OffsetsExist
<1>5. Strung(parts, p, l, o, x)
  BY <1>2, <1>3, <1>4, FlattenStrings
<1>6. x \in Orders(m)
  BY DEF Reaches
<1>7. ASSUME NEW k \in 1 .. p, NEW i \in 1 .. Len(parts[k]) PROVE parts[k][i] \in 1 .. m
  <2>1. o[k - 1] + i \in 1 .. o[p]
    BY <1>2, <1>4, PlacesAre
  <2>2. x[o[k - 1] + i] = parts[k][i]
    BY <1>2, <1>5 DEF Strung
  <2>3. DOMAIN x = 1 .. o[p]
    BY <1>5 DEF Strung, Column
  <2>4. x \in [1 .. m -> 1 .. m]
    BY <1>6 DEF Orders
  <2> HIDE DEF x
  <2> QED BY <2>1, <2>2, <2>3, <2>4
<1> QED BY <1>1, <1>7

\* The ranks of a group are ranks that are dealt the same rows.
LEMMA GroupIs ==
  ASSUME cfg \in Configs, NEW r \in Ranks, NEW s \in 1 .. cfg.sp
  PROVE  /\ Group(r)[s] \in Ranks /\ DealtTo(cfg, Group(r)[s]) = DealtTo(cfg, r)
         /\ SpRank(r) + 1 \in 1 .. cfg.sp
<1> DEFINE a == cfg.tp
           b == cfg.sp
           k == a * b
           d == cfg.pp * Dp
           u == r \div k
           g == r % k
           v == g \div a
           w == g % a
<1>1. /\ a \in Nat \ {0} /\ b \in Nat \ {0} /\ k \in Nat \ {0} /\ d \in Nat \ {0}
      /\ r \in 0 .. d * k - 1 /\ Ranks = 0 .. d * k - 1
  <2>1. a \in Nat \ {0} /\ b \in Nat \ {0} /\ cfg.pp \in Nat \ {0}
    BY KnownConfig DEF Known
  <2>2. Dp \in Nat \ {0} /\ k \in Nat \ {0} /\ cfg.pp * (Dp * k) = cfg.world
    BY MeshIs DEF Meshed
  <2> HIDE DEF k
  <2>3. d \in Nat \ {0}
    BY <2>1, <2>2, Factors
  <2>4. (cfg.pp * Dp) * k = cfg.pp * (Dp * k)
    BY <2>1, <2>2, Regroup
  <2> QED BY <2>1, <2>2, <2>3, <2>4 DEF Ranks
<1>2. \A y : DealtTo(cfg, y) = (y \div k) % DpOf(cfg)
  BY DEF DealtTo
<1>3. SpRank(r) = (r \div a) % b /\ Group(r)[s] = r + (s - 1 - SpRank(r)) * a
  BY DEF SpRank, Group
<1> HIDE DEF d
<1>4. k = b * a /\ k \in Nat \ {0}
  BY <1>1
<1> HIDE DEF k, a, b
<1>5. u \in 0 .. d - 1 /\ g \in 0 .. k - 1 /\ r = u * k + g
  BY <1>1, FromZero
<1> HIDE DEF u, g
<1>6. v \in 0 .. b - 1 /\ w \in 0 .. a - 1 /\ g = v * a + w
  BY <1>1, <1>4, <1>5, FromZero
<1> HIDE DEF v, w
<1>7. SpRank(r) = v
  <2> DEFINE h == u * b + v
  <2>1. h \in Nat /\ LeavesOver(h, u, b, v)
    <3>1. u * b \in Nat
      BY <1>1, <1>5
    <3> QED BY <1>6, <3>1 DEF LeavesOver
  <2>2. LeavesOver(r, h, a, w)
    <3>1. u * k = (u * b) * a
      BY <1>1, <1>4, <1>5, Regroup
    <3>2. (u * b + v) * a = (u * b) * a + v * a
      <4>1. u * b \in Nat /\ v \in Nat /\ a \in Nat
        BY <1>1, <1>5, <1>6
      <4> DEFINE z == u * b
      <4> HIDE DEF z
      <4>2. (z + v) * a = z * a + v * a
        BY <4>1 DEF z
      <4> QED BY <4>2 DEF z
    <3>3. (u * b) * a \in Nat /\ v * a \in Nat
      <4>1. u * b \in Nat
        BY <1>1, <1>5
      <4> QED BY <1>1, <1>6, <4>1
    <3> QED BY <1>5, <1>6, <3>1, <3>2, <3>3 DEF LeavesOver
  <2> HIDE DEF h
  <2>3. r \div a = h
    BY <1>1, <1>6, <2>1, <2>2, Divided
  <2>4. h % b = v
    BY <1>1, <1>5, <1>6, <2>1, Divided
  <2> QED BY <1>3, <2>3, <2>4
<1> DEFINE e == s - 1
           j == e * a + w
           y == u * k + j
<1>8. e \in 0 .. b - 1 /\ e \in Nat
  BY <1>1 DEF b
<1> HIDE DEF e
<1>9. j \in 0 .. k - 1
  BY <1>1, <1>4, <1>6, <1>8, FromZero
<1>10. Group(r)[s] = y
  <2>1. (e - v) * a = e * a - v * a /\ e * a \in Nat /\ v * a \in Nat /\ u * k \in Nat
    BY <1>1, <1>5, <1>6, <1>8
  <2>2. Group(r)[s] = r + (e - v) * a
    BY <1>3, <1>7 DEF e
  <2> QED BY <1>5, <1>6, <2>1, <2>2
<1> HIDE DEF j
<1>11. y \in 0 .. d * k - 1 /\ LeavesOver(y, u, k, j)
  BY <1>1, <1>5, <1>9, FromZero DEF LeavesOver
<1> HIDE DEF y
<1>12. y \div k = u
  BY <1>1, <1>5, <1>9, <1>11, Divided
<1>13. r \div k = u
  BY DEF u
<1>14. SpRank(r) + 1 \in 1 .. cfg.sp
  BY <1>1, <1>6, <1>7 DEF b
<1> QED BY <1>1, <1>2, <1>10, <1>11, <1>12, <1>13, <1>14

-----------------------------------------------------------------------------
\* The forward of a group, whatever the backend.

\* The micro-batch a rank comes to, and its responses.
MicroPart(r) == work[r].parts[Len(work[r].out) + 1]
MicroRows(r) == CurrentMicro(r).responses

\* It has k rows of those of the rank.
MicroOf(r, m, k) ==
  /\ k = Len(MicroPart(r)) /\ Column(MicroPart(r), k)
  /\ \A i \in 1 .. k : MicroPart(r)[i] \in 1 .. m
  /\ Picked(work[r].data, MicroPart(r), k, CurrentMicro(r))
  /\ Fitted(MicroRows(r), k)
  /\ \A i \in 1 .. k : MicroRows(r)[i] = work[r].data.responses[MicroPart(r)[i]]

\* A rank that is at work has such a micro-batch.
LEMMA MicroHas ==
  ASSUME cfg \in Configs, InStep(cfg, work), NEW m \in Nat, NEW ph, AtWork(cfg, work, m, ph),
         NEW r \in Ranks, Len(work[r].out) < Len(work[r].parts)
  PROVE  \E k \in Nat : MicroOf(r, m, k)
<1> DEFINE x == work[r]
           q == MicroPart(r)
           k == Len(q)
<1>1. r \in 0 .. cfg.world - 1
  BY DEF Ranks
<1>2. PICK p \in Nat \ {0} : \E o \in Nat : Lined(cfg, work, p, o)
  BY DEF InStep
<1>3. PICK o \in Nat : Lined(cfg, work, p, o)
  BY <1>2
<1>4. AtPart(x, p, o)
  BY <1>1, <1>3 DEF Lined
<1>5. Parted(x.parts, p) /\ Len(x.parts) = p /\ Len(x.out) = o
  BY <1>4, ColumnIs DEF AtPart, Parted
<1>6. RankAtWork(cfg, x, m, ph)
  BY <1>1 DEF AtWork
<1>7. Reaches(cfg, x.parts, m) /\ Sound(cfg, x.data, m)
  BY <1>6 DEF RankAtWork
<1>8. Len(x.out) + 1 \in 1 .. p
  BY <1>5
<1>9. k \in Nat /\ Column(q, k) /\ \A i \in 1 .. k : q[i] \in 1 .. m
  BY <1>5, <1>7, <1>8, PartsReach DEF MicroPart
<1>10. DOMAIN x.data # {} /\ "responses" \in DOMAIN x.data
  BY <1>7 DEF Sound, Table
<1>11. Picked(x.data, q, k, CurrentMicro(r))
  <2>1. DOMAIN q = 1 .. k
    BY <1>9 DEF Column
  <2> HIDE DEF q, k
  <2>2. Picked(x.data, q, k, SelectIdxs(x.data, q))
    BY <1>9, <1>10, <2>1, SelectIdxsIs
  <2> QED BY <2>2 DEF CurrentMicro, q, MicroPart
<1>12. \A i \in 1 .. k : MicroRows(r)[i] = x.data.responses[q[i]]
  BY <1>10, <1>11 DEF Picked, MicroRows
<1>13. Fitted(MicroRows(r), k)
  <2>1. Column(MicroRows(r), k)
    BY <1>10, <1>11 DEF Picked, Table, MicroRows
  <2>2. \A i \in 1 .. m : Fitting(x.data.responses[i])
    BY <1>7 DEF Sound, RowSound
  <2> HIDE DEF x, q, k
  <2>3. \A i \in 1 .. k : Fitting(MicroRows(r)[i])
    BY <1>9, <1>12, <2>2
  <2> QED BY <2>1, <2>3 DEF Fitted
<1> QED BY <1>9, <1>11, <1>12, <1>13 DEF MicroOf

\* Ranks that are dealt the same rows come to the same micro-batch.
LEMMA AlikeMicro ==
  ASSUME cfg \in Configs, InStep(cfg, work), NEW m \in Nat, NEW ph, AtWork(cfg, work, m, ph),
         NEW r \in Ranks, NEW q \in Ranks, DealtTo(cfg, r) = DealtTo(cfg, q)
  PROVE  CurrentMicro(q) = CurrentMicro(r)
<1>1. r \in 0 .. cfg.world - 1 /\ q \in 0 .. cfg.world - 1
  BY DEF Ranks
<1>2. work[r].data = work[q].data /\ work[r].parts = work[q].parts
  BY <1>1 DEF AtWork
<1>3. PICK p \in Nat \ {0} : \E o \in Nat : Lined(cfg, work, p, o)
  BY DEF InStep
<1>4. PICK o \in Nat : Lined(cfg, work, p, o)
  BY <1>3
<1>5. Len(work[r].out) = o /\ Len(work[q].out) = o
  BY <1>1, <1>4, ColumnIs DEF Lined, AtPart
<1> QED BY <1>2, <1>5 DEF CurrentMicro

\* Shares a group can put together: Ulysses gathers slices of n tokens.
Sliced(shares, n) == Megatron \/ Lists(shares, cfg.sp, n)

\* The place a group takes a response token from, and that is the token before it.
Lands(r, n, i, t, s, x) ==
  /\ s \in 1 .. cfg.sp /\ x \in 1 .. n
  /\ LogitsOf(r, s)[x] = Before(MicroRows(r)[i], t)
  /\ LogProbsOf(r, s)[x] = Expected(MicroRows(r)[i], t)
  /\ \A shares : Sliced(shares, n) => InGroup(r, shares)[i][t] = shares[s][x]
  /\ cfg.topk /\ CanGather(r) => GivenTo(r)[x] = CurrentMicro(r).student_top_k_ids[i][t]

\* What each rank of a group computes of n tokens.
Computed(r, n) ==
  ~Megatron => \A s \in 1 .. cfg.sp : Column(LogitsOf(r, s), n) /\ Column(LogProbsOf(r, s), n)

\* Every response token of a micro-batch lands somewhere, with FSDP.
LEMMA SlicesLand ==
  ASSUME cfg \in Configs, ~Megatron, NEW r \in Ranks, NEW k \in Nat \ {0}, Fitted(MicroRows(r), k),
         \A s \in 1 .. cfg.sp : CurrentMicro(Group(r)[s]) = CurrentMicro(r)
  PROVE  \E n \in Nat : /\ Computed(r, n)
                        /\ \A i \in 1 .. k : \A t \in 1 .. MicroRows(r)[i].response : \E s, x : Lands(r, n, i, t, s, x)
<1> DEFINE rows == MicroRows(r)
           sp == cfg.sp
           G(shares) == GatheredShares(shares, PadSize(Packed(rows), sp))
<1>1. sp \in Nat \ {0}
  BY KnownConfig DEF Known
<1>2. \A s \in 1 .. sp : /\ LogitsOf(r, s) = OwnLogits(rows, sp, s - 1)
                         /\ LogProbsOf(r, s) = OwnLogProbs(rows, sp, s - 1)
  BY DEF LogitsOf, LogProbsOf, MicroRows
<1>3. \A shares : InGroup(r, shares) = ResponsePart(rows, G(shares))
  BY DEF InGroup, MicroRows
<1>4. \A i \in 1 .. k : Tokens(rows, k)[i] \in Nat
  BY AttendedLists
<1> HIDE DEF rows
<1>5. PICK o : Offsets(Tokens(rows, k), k, o)
  BY <1>4, OffsetsExist
<1>6. Fitted(rows, k)
  BY DEF rows
<1> HIDE DEF sp
<1>7. /\ o[k] \in Nat
      /\ \A s \in 1 .. sp : /\ Column(OwnLogits(rows, sp, s - 1), SliceSize(o[k], sp))
                            /\ Column(OwnLogProbs(rows, sp, s - 1), SliceSize(o[k], sp))
      /\ \A i \in 1 .. k : \A t \in 1 .. rows[i].response : \E s, x :
           OwnLands(rows, o, o[k], sp, i, t, s, x)
  BY <1>1, <1>5, <1>6, OwnLandsAre
<1> DEFINE n == SliceSize(o[k], sp)
<1>8. n \in Nat
  BY <1>1, <1>7, SliceSizes
<1>9. Computed(r, n)
  BY <1>2, <1>7 DEF Computed, sp
<1>10. ASSUME NEW i \in 1 .. k, NEW t \in 1 .. rows[i].response
       PROVE  \E s, x : Lands(r, n, i, t, s, x)
  <2>1. PICK s, x : OwnLands(rows, o, o[k], sp, i, t, s, x)
    BY <1>7
  <2>2. /\ s \in 1 .. sp /\ x \in 1 .. n
        /\ (s - 1) * n + x = PlaceOf(rows, o, i, t)
        /\ OwnLogits(rows, sp, s - 1)[x] = Before(rows[i], t)
        /\ OwnLogProbs(rows, sp, s - 1)[x] = Expected(rows[i], t)
        /\ \A shares : Slices(shares, o[k], sp) => ResponsePart(rows, G(shares))[i][t] = shares[s][x]
    BY <2>1 DEF OwnLands
  <2> HIDE DEF G
  <2>3. LogitsOf(r, s)[x] = Before(rows[i], t) /\ LogProbsOf(r, s)[x] = Expected(rows[i], t)
    BY <1>2, <2>2
  <2>4. \A shares : Sliced(shares, n) => InGroup(r, shares)[i][t] = shares[s][x]
    BY <1>3, <2>2 DEF Sliced, Slices, sp
  <2>5. ASSUME cfg.topk, CanGather(r)
        PROVE  GivenTo(r)[x] = CurrentMicro(r).student_top_k_ids[i][t]
    <3> DEFINE ids == CurrentMicro(r).student_top_k_ids
    <3>1. GivenTo(r) = GivenIds(rows, ids)
      BY DEF GivenTo, rows, MicroRows
    <3> HIDE DEF ids
    <3>2. Len(GivenTo(r)) = o[k] /\ GivenTo(r)[PlaceOf(rows, o, i, t)] = ids[i][t]
      BY <1>5, <1>6, <3>1, GivenIdsAre
    <3>3. Len(GivenTo(r)) <= n
      <4>1. SpRank(r) + 1 \in 1 .. sp
        <5>1. 1 \in 1 .. sp
          BY <1>1
        <5> QED BY <5>1, GroupIs DEF sp
      <4>2. Column(LogitsOf(r, SpRank(r) + 1), n)
        BY <1>9, <4>1 DEF Computed, sp
      <4>3. Len(LogitsOf(r, SpRank(r) + 1)) = n
        BY <1>8, <4>2, ColumnIs
      <4> QED BY <2>5, <4>3 DEF CanGather
    <3>4. o[k] > 1
      BY <1>5, <1>6, TwoTokens
    <3>5. sp = 1
      BY <1>1, <1>7, <3>2, <3>3, <3>4, NoneGathers
    <3>6. s - 1 = 0 /\ 0 * n = 0
      BY <1>8, <2>2, <3>5
    <3>7. x = PlaceOf(rows, o, i, t)
      <4> HIDE DEF n
      <4>1. (s - 1) * n = 0
        BY <1>8, <3>6
      <4> QED BY <2>2, <4>1
    <3> QED BY <3>2, <3>7 DEF ids
  <2> QED BY <2>2, <2>3, <2>4, <2>5 DEF Lands, rows, sp
<1> HIDE DEF n
<1> QED BY <1>8, <1>9, <1>10 DEF rows

\* And with Megatron.
LEMMA ChunksLand ==
  ASSUME cfg \in Configs, Megatron, NEW r \in Ranks, NEW k \in Nat \ {0}, Fitted(MicroRows(r), k),
         \A s \in 1 .. cfg.sp : CurrentMicro(Group(r)[s]) = CurrentMicro(r)
  PROVE  \E n \in Nat : /\ Computed(r, n)
                        /\ \A i \in 1 .. k : \A t \in 1 .. MicroRows(r)[i].response : \E s, x : Lands(r, n, i, t, s, x)
<1> DEFINE rows == MicroRows(r)
           sp == cfg.sp
           tp == cfg.tp
<1>1. sp \in Nat \ {0} /\ tp \in Nat \ {0}
  BY KnownConfig DEF Known
<1>2. \A s \in 1 .. sp : /\ LogitsOf(r, s) = ChunkLogits(rows, tp, sp, s - 1)
                         /\ LogProbsOf(r, s) = ChunkLogProbs(rows, tp, sp, s - 1)
  BY DEF LogitsOf, LogProbsOf, MicroRows
<1>3. \A shares : InGroup(r, shares) = ResponsePart(rows, JoinedChunks(rows, shares, tp, sp))
  BY DEF InGroup, MicroRows
<1>4. Fitted(rows, k)
  OBVIOUS
<1>5. ~cfg.topk
  BY ConfigsAssumption DEF Megatron
<1> HIDE DEF rows, sp, tp
<1>6. PICK n \in Nat : \A i \in 1 .. k : \A t \in 1 .. rows[i].response : \E s, x :
        ChunkLands(rows, n, tp, sp, i, t, s, x)
  BY <1>1, <1>4, ChunkLandsAre
<1>7. ASSUME NEW i \in 1 .. k, NEW t \in 1 .. rows[i].response
      PROVE  \E s, x : Lands(r, n, i, t, s, x)
  <2>1. PICK s, x : ChunkLands(rows, n, tp, sp, i, t, s, x)
    BY <1>6
  <2> QED BY <1>2, <1>3, <1>5, <2>1 DEF ChunkLands, Lands, rows, sp
<1>8. Computed(r, n)
  BY DEF Computed
<1> QED BY <1>7, <1>8 DEF rows

\* So whichever the backend is.
LEMMA LandsAre ==
  ASSUME cfg \in Configs, InStep(cfg, work), NEW m \in Nat, NEW ph, AtWork(cfg, work, m, ph),
         NEW r \in Ranks, NEW k \in Nat \ {0}, MicroOf(r, m, k)
  PROVE  \E n \in Nat : /\ Computed(r, n)
                        /\ \A i \in 1 .. k : \A t \in 1 .. MicroRows(r)[i].response : \E s, x : Lands(r, n, i, t, s, x)
<1>1. Fitted(MicroRows(r), k)
  BY DEF MicroOf
<1>2. ASSUME NEW s \in 1 .. cfg.sp PROVE CurrentMicro(Group(r)[s]) = CurrentMicro(r)
  <2>1. Group(r)[s] \in Ranks /\ DealtTo(cfg, Group(r)[s]) = DealtTo(cfg, r)
    BY GroupIs
  <2> QED BY <2>1, AlikeMicro
<1> QED BY <1>1, <1>2, SlicesLand, ChunksLand

\* A group's result has a place for every row.
LEMMA InGroupHas ==
  ASSUME NEW m \in Nat, NEW r, NEW k \in Nat, MicroOf(r, m, k), NEW shares
  PROVE  Column(InGroup(r, shares), k)
<1> DEFINE rows == CurrentMicro(r).responses
           packed == IF Megatron THEN JoinedChunks(rows, shares, cfg.tp, cfg.sp)
                     ELSE GatheredShares(shares, PadSize(Packed(rows), cfg.sp))
<1>1. InGroup(r, shares) = ResponsePart(rows, packed)
  BY DEF InGroup
<1>2. DOMAIN rows = 1 .. k
  BY DEF MicroOf, Fitted, Column, MicroRows
<1> HIDE DEF rows, packed
<1>3. Column(ResponsePart(rows, packed), k)
  BY <1>2 DEF ResponsePart, Column
<1> QED BY <1>1, <1>3

\* What a group puts together of what each of its ranks computes.
OwnShares(r)   == [s \in 1 .. cfg.sp |-> LogProbsOf(r, s)]
LogitShares(r) == [s \in 1 .. cfg.sp |-> LogitsOf(r, s)]
TopShares(r)   == [s \in 1 .. cfg.sp |-> TopIds(LogitsOf(r, s))]
TopOwnShares(r) == [s \in 1 .. cfg.sp |-> LogProbs(LogitsOf(r, s), TopIds(LogitsOf(r, s)))]
GivenShares(r) == [s \in 1 .. cfg.sp |-> LogProbs(LogitsOf(r, s), GivenTo(r))]

\* Of a token that lands it says what was computed at the token before it.
LEMMA GroupSays ==
  ASSUME cfg \in Configs, NEW r \in Ranks, NEW n \in Nat, Computed(r, n),
         NEW i, NEW t, NEW s, NEW x, Lands(r, n, i, t, s, x)
  PROVE  LET before == Before(MicroRows(r)[i], t) IN
         /\ InGroup(r, OwnShares(r))[i][t] = Expected(MicroRows(r)[i], t)
         /\ InGroup(r, LogitShares(r))[i][t] = before
         /\ cfg.topk => /\ InGroup(r, TopShares(r))[i][t] = <<"top", before>>
                        /\ InGroup(r, TopOwnShares(r))[i][t] = <<before, <<"top", before>>>>
         /\ cfg.topk /\ CanGather(r) =>
              InGroup(r, GivenShares(r))[i][t] = <<before, CurrentMicro(r).student_top_k_ids[i][t]>>
<1> DEFINE sp == cfg.sp
           before == Before(MicroRows(r)[i], t)
<1>1. sp \in Nat \ {0}
  BY KnownConfig DEF Known
<1>2. /\ s \in 1 .. sp /\ x \in 1 .. n
      /\ LogitsOf(r, s)[x] = before
      /\ LogProbsOf(r, s)[x] = Expected(MicroRows(r)[i], t)
      /\ \A shares : Sliced(shares, n) => InGroup(r, shares)[i][t] = shares[s][x]
      /\ cfg.topk /\ CanGather(r) => GivenTo(r)[x] = CurrentMicro(r).student_top_k_ids[i][t]
  BY DEF Lands
<1> HIDE DEF before
<1>3. ASSUME NEW f, ~Megatron => \A u \in 1 .. sp : Column(f[u], n), f = [u \in 1 .. sp |-> f[u]]
      PROVE  InGroup(r, f)[i][t] = f[s][x]
  <2>1. Len(f) = sp
    BY <1>1, <1>3
  <2>2. Sliced(f, n)
    BY <1>3, <2>1 DEF Sliced, Lists
  <2> QED BY <1>2, <2>2
<1>4. ~Megatron => \A u \in 1 .. sp : /\ Column(LogitsOf(r, u), n) /\ Column(LogProbsOf(r, u), n)
                                      /\ DOMAIN LogitsOf(r, u) = 1 .. n
  BY DEF Computed, Column
<1>5. InGroup(r, OwnShares(r))[i][t] = Expected(MicroRows(r)[i], t)
  <2> DEFINE f == OwnShares(r)
  <2>1. f = [u \in 1 .. sp |-> f[u]] /\ \A u \in 1 .. sp : f[u] = LogProbsOf(r, u)
    BY DEF OwnShares
  <2> HIDE DEF f
  <2>2. InGroup(r, f)[i][t] = f[s][x]
    BY <1>3, <1>4, <2>1
  <2> QED BY <1>2, <2>1, <2>2 DEF f
<1>6. InGroup(r, LogitShares(r))[i][t] = before
  <2> DEFINE f == LogitShares(r)
  <2>1. f = [u \in 1 .. sp |-> f[u]] /\ \A u \in 1 .. sp : f[u] = LogitsOf(r, u)
    BY DEF LogitShares
  <2> HIDE DEF f
  <2>2. InGroup(r, f)[i][t] = f[s][x]
    BY <1>3, <1>4, <2>1
  <2> QED BY <1>2, <2>1, <2>2 DEF f
<1>7. cfg.topk => ~Megatron
  BY ConfigsAssumption DEF Megatron
<1>8. ASSUME cfg.topk
      PROVE  InGroup(r, TopShares(r))[i][t] = <<"top", before>>
  <2> DEFINE f == TopShares(r)
  <2>1. f = [u \in 1 .. sp |-> f[u]] /\ \A u \in 1 .. sp : f[u] = TopIds(LogitsOf(r, u))
    BY DEF TopShares
  <2> HIDE DEF f
  <2>2. \A u \in 1 .. sp : f[u] = [j \in 1 .. n |-> <<"top", LogitsOf(r, u)[j]>>]
    BY <1>4, <1>7, <1>8, <2>1 DEF TopIds
  <2>3. \A u \in 1 .. sp : Column(f[u], n)
    BY <2>2 DEF Column
  <2>4. InGroup(r, f)[i][t] = f[s][x]
    BY <1>3, <2>1, <2>3
  <2>5. f[s][x] = <<"top", LogitsOf(r, s)[x]>>
    BY <1>2, <2>2
  <2> QED BY <1>2, <2>4, <2>5 DEF f
<1>9. ASSUME cfg.topk, NEW labels, NEW f,
             f = [u \in 1 .. sp |-> LogProbs(LogitsOf(r, u), labels[u])]
      PROVE  InGroup(r, f)[i][t] = <<before, labels[s][x]>>
  <2>1. f = [u \in 1 .. sp |-> f[u]] /\ \A u \in 1 .. sp : f[u] = LogProbs(LogitsOf(r, u), labels[u])
    BY <1>9
  <2>2. \A u \in 1 .. sp : f[u] = [j \in 1 .. n |-> <<LogitsOf(r, u)[j], labels[u][j]>>]
    BY <1>4, <1>7, <1>9, <2>1 DEF LogProbs
  <2>3. \A u \in 1 .. sp : Column(f[u], n)
    BY <2>2 DEF Column
  <2>4. InGroup(r, f)[i][t] = f[s][x]
    BY <1>3, <2>1, <2>3
  <2>5. f[s][x] = <<LogitsOf(r, s)[x], labels[s][x]>>
    BY <1>2, <2>2
  <2> QED BY <1>2, <2>4, <2>5
<1>10. ASSUME cfg.topk
       PROVE  InGroup(r, TopOwnShares(r))[i][t] = <<before, <<"top", before>>>>
  <2> DEFINE labels == [u \in 1 .. sp |-> TopIds(LogitsOf(r, u))]
  <2>1. TopOwnShares(r) = [u \in 1 .. sp |-> LogProbs(LogitsOf(r, u), labels[u])]
    BY DEF TopOwnShares
  <2>2. labels[s][x] = <<"top", before>>
    <3>1. labels[s] = [j \in 1 .. n |-> <<"top", LogitsOf(r, s)[j]>>]
      BY <1>2, <1>4, <1>7, <1>10 DEF TopIds
    <3> HIDE DEF labels
    <3> QED BY <1>2, <3>1
  <2> HIDE DEF labels
  <2> QED BY <1>9, <1>10, <2>1, <2>2
<1>11. ASSUME cfg.topk, CanGather(r)
       PROVE  InGroup(r, GivenShares(r))[i][t] = <<before, CurrentMicro(r).student_top_k_ids[i][t]>>
  <2> DEFINE labels == [u \in 1 .. sp |-> GivenTo(r)]
  <2>1. GivenShares(r) = [u \in 1 .. sp |-> LogProbs(LogitsOf(r, u), labels[u])]
    BY DEF GivenShares
  <2>2. labels[s] = GivenTo(r)
    BY <1>2
  <2> HIDE DEF labels
  <2>3. InGroup(r, GivenShares(r))[i][t] = <<before, labels[s][x]>>
    BY <1>9, <1>11, <2>1
  <2> QED BY <1>2, <1>11, <2>2, <2>3
<1> QED BY <1>5, <1>6, <1>8, <1>10, <1>11 DEF before

\* What a group says of row i of the micro-batch of rank r.
RowOfMicro(r, i) == work[r].data.responses[MicroPart(r)[i]]
Said(r, i, t) ==
  LET before == Before(RowOfMicro(r, i), t) IN
    /\ InGroup(r, OwnShares(r))[i][t] = Expected(RowOfMicro(r, i), t)
    /\ InGroup(r, LogitShares(r))[i][t] = before
    /\ cfg.topk => /\ InGroup(r, TopShares(r))[i][t] = <<"top", before>>
                   /\ InGroup(r, TopOwnShares(r))[i][t] = <<before, <<"top", before>>>>
    /\ cfg.topk /\ CanGather(r) =>
         InGroup(r, GivenShares(r))[i][t] = <<before, CurrentMicro(r).student_top_k_ids[i][t]>>

\* It says that of every token.
LEMMA AllSaid ==
  ASSUME cfg \in Configs, InStep(cfg, work), NEW m \in Nat, NEW ph, AtWork(cfg, work, m, ph),
         NEW r \in Ranks, NEW k \in Nat, MicroOf(r, m, k)
  PROVE  \A i \in 1 .. k : \A t \in 1 .. RowOfMicro(r, i).response : Said(r, i, t)
<1> SUFFICES ASSUME NEW i \in 1 .. k, NEW t \in 1 .. RowOfMicro(r, i).response
             PROVE  Said(r, i, t)
  OBVIOUS
<1>1. k \in Nat \ {0}
  OBVIOUS
<1>2. PICK n \in Nat : /\ Computed(r, n)
                       /\ \A j \in 1 .. k : \A u \in 1 .. MicroRows(r)[j].response :
                            \E s, x : Lands(r, n, j, u, s, x)
  BY <1>1, LandsAre
<1>3. MicroRows(r)[i] = RowOfMicro(r, i)
  BY DEF MicroOf, RowOfMicro
<1>4. PICK s, x : Lands(r, n, i, t, s, x)
  BY <1>2, <1>3
<1>5. LET before == Before(MicroRows(r)[i], t) IN
      /\ InGroup(r, OwnShares(r))[i][t] = Expected(MicroRows(r)[i], t)
      /\ InGroup(r, LogitShares(r))[i][t] = before
      /\ cfg.topk => /\ InGroup(r, TopShares(r))[i][t] = <<"top", before>>
                     /\ InGroup(r, TopOwnShares(r))[i][t] = <<before, <<"top", before>>>>
      /\ cfg.topk /\ CanGather(r) =>
           InGroup(r, GivenShares(r))[i][t] = <<before, CurrentMicro(r).student_top_k_ids[i][t]>>
  BY <1>2, <1>4, GroupSays
<1> QED BY <1>3, <1>5 DEF Said

\* An output of one column.
LEMMA OneOut ==
  ASSUME NEW c, NEW data, NEW part, NEW col, NEW column, Column(column, Len(part)),
         \A i \in 1 .. Len(part) : \A t \in 1 .. data.responses[part[i]].response :
           column[i][t] = ScoredAt(c, col, data.responses[part[i]], t),
         NEW output, DOMAIN output = {col}, output[col] = column
  PROVE  OutOf(c, data, part, output, {col})
  BY DEF OutOf

\* The log-probabilities of compute_log_prob, and its top-k ids.
LEMMA ScoredMicroSays ==
  ASSUME cfg \in Configs, InStep(cfg, work), NEW m \in Nat, NEW ph, AtWork(cfg, work, m, ph),
         NEW r \in Ranks, NEW k \in Nat, MicroOf(r, m, k)
  PROVE  OutOf(cfg, work[r].data, MicroPart(r), ScoredMicro(r), ScoredColumns(cfg))
<1> DEFINE a == InGroup(r, OwnShares(r))
           b == InGroup(r, TopShares(r))
           d == InGroup(r, TopOwnShares(r))
           x == ScoredMicro(r)
           y == [old_log_probs |-> a]
           z == IF cfg.topk THEN [student_top_k_ids |-> b, student_top_k_log_probs |-> d] ELSE <<>>
<1>1. x = Union(y, z)
  BY DEF ScoredMicro, OwnShares, TopShares, TopOwnShares
<1>2. Column(a, k) /\ Column(b, k) /\ Column(d, k)
  BY InGroupHas
<1>3. \A i \in 1 .. k : \A t \in 1 .. RowOfMicro(r, i).response :
        LET before == Before(RowOfMicro(r, i), t) IN
          /\ a[i][t] = Expected(RowOfMicro(r, i), t)
          /\ cfg.topk => b[i][t] = <<"top", before>> /\ d[i][t] = <<before, <<"top", before>>>>
  BY AllSaid DEF Said
<1>4. Len(MicroPart(r)) = k
  BY DEF MicroOf
<1> HIDE DEF a, b, d, x
<1>5. DOMAIN y = {"old_log_probs"} /\ y.old_log_probs = a
  OBVIOUS
<1>6. cfg.topk => /\ DOMAIN z = {"student_top_k_ids", "student_top_k_log_probs"}
                  /\ z.student_top_k_ids = b /\ z.student_top_k_log_probs = d
  OBVIOUS
<1>7. ~cfg.topk => DOMAIN z = {}
  OBVIOUS
<1> HIDE DEF y, z
<1>8. DOMAIN x = ScoredColumns(cfg)
  BY <1>1, <1>5, <1>6, <1>7 DEF Union, ScoredColumns
<1>9. x.old_log_probs = a
  BY <1>1, <1>5, <1>6, <1>7 DEF Union
<1>10. cfg.topk => x.student_top_k_ids = b /\ x.student_top_k_log_probs = d
  BY <1>1, <1>5, <1>6 DEF Union
<1>11. ASSUME NEW col \in ScoredColumns(cfg)
       PROVE  /\ Column(x[col], k)
              /\ \A i \in 1 .. k : \A t \in 1 .. RowOfMicro(r, i).response :
                   x[col][i][t] = ScoredAt(cfg, col, RowOfMicro(r, i), t)
  <2>1. CASE col = "old_log_probs"
    BY <1>2, <1>3, <1>9, <2>1 DEF ScoredAt
  <2>2. CASE col = "student_top_k_ids" /\ cfg.topk
    BY <1>2, <1>3, <1>10, <2>2 DEF ScoredAt
  <2>3. CASE col = "student_top_k_log_probs" /\ cfg.topk
    BY <1>2, <1>3, <1>10, <2>3 DEF ScoredAt
  <2> QED BY <2>1, <2>2, <2>3 DEF ScoredColumns
<1> QED BY <1>4, <1>8, <1>11 DEF OutOf, RowOfMicro, x

\* The critic's values.
LEMMA ValuesSay ==
  ASSUME cfg \in Configs, InStep(cfg, work), NEW m \in Nat, NEW ph, AtWork(cfg, work, m, ph),
         NEW r \in Ranks, NEW k \in Nat, MicroOf(r, m, k)
  PROVE  /\ OutOf(cfg, work[r].data, MicroPart(r), [values |-> ValuesOf(r)], {"values"})
         /\ OutOf(cfg, work[r].data, MicroPart(r), [vpreds |-> ValuesOf(r)], {"vpreds"})
<1>1. ValuesOf(r) = InGroup(r, LogitShares(r))
  BY DEF ValuesOf, LogitShares
<1>2. k = Len(MicroPart(r)) /\ Column(ValuesOf(r), Len(MicroPart(r)))
  BY <1>1, InGroupHas DEF MicroOf
<1>3. \A i \in 1 .. k : \A t \in 1 .. RowOfMicro(r, i).response :
        ValuesOf(r)[i][t] = Before(RowOfMicro(r, i), t)
  BY <1>1, AllSaid DEF Said
<1>4. \A row, t : ScoredAt(cfg, "values", row, t) = Before(row, t) /\ ScoredAt(cfg, "vpreds", row, t) = Before(row, t)
  BY DEF ScoredAt
<1>5. \A i \in 1 .. k : \A t \in 1 .. work[r].data.responses[MicroPart(r)[i]].response :
        /\ ValuesOf(r)[i][t] = ScoredAt(cfg, "values", work[r].data.responses[MicroPart(r)[i]], t)
        /\ ValuesOf(r)[i][t] = ScoredAt(cfg, "vpreds", work[r].data.responses[MicroPart(r)[i]], t)
  BY <1>3, <1>4 DEF RowOfMicro
<1> DEFINE u == [values |-> ValuesOf(r)]
           v == [vpreds |-> ValuesOf(r)]
<1>6. /\ DOMAIN u = {"values"} /\ u["values"] = ValuesOf(r)
      /\ DOMAIN v = {"vpreds"} /\ v["vpreds"] = ValuesOf(r)
  OBVIOUS
<1> HIDE DEF u, v
<1>7. OutOf(cfg, work[r].data, MicroPart(r), u, {"values"})
  BY <1>2, <1>5, <1>6, OneOut
<1>8. OutOf(cfg, work[r].data, MicroPart(r), v, {"vpreds"})
  BY <1>2, <1>5, <1>6, OneOut
<1> QED BY <1>7, <1>8 DEF u, v

\* The log-probabilities the actor's loss is made of.
LEMMA LossSays ==
  ASSUME cfg \in Configs, InStep(cfg, work), NEW m \in Nat, AtWork(cfg, work, m, "update"),
         NEW r \in Ranks, NEW k \in Nat, MicroOf(r, m, k), cfg.topk => CanGather(r)
  PROVE  OutOf(cfg, work[r].data, MicroPart(r), LossLogProbs(r), {"log_probs"})
<1> DEFINE column == LossLogProbs(r).log_probs
           Wanted(i, t) == ScoredAt(cfg, "log_probs", RowOfMicro(r, i), t)
<1>1. DOMAIN LossLogProbs(r) = {"log_probs"}
  BY DEF LossLogProbs
<1>2. cfg.topk => column = InGroup(r, GivenShares(r))
  BY DEF LossLogProbs, GivenShares
<1>3. ~cfg.topk => column = InGroup(r, OwnShares(r))
  BY DEF LossLogProbs, OwnShares
<1> HIDE DEF column
<1>4. k = Len(MicroPart(r)) /\ Column(column, k)
  BY <1>2, <1>3, InGroupHas DEF MicroOf
<1>5. ASSUME NEW i \in 1 .. k, NEW t \in 1 .. RowOfMicro(r, i).response
      PROVE  column[i][t] = Wanted(i, t)
  <2>1. Said(r, i, t)
    BY AllSaid
  <2>2. CASE ~cfg.topk
    BY <1>3, <2>1, <2>2 DEF Said, ScoredAt
  <2>3. CASE cfg.topk
    <3> DEFINE data == work[r].data
               j == MicroPart(r)[i]
    <3>1. RankAtWork(cfg, work[r], m, "update")
      BY DEF AtWork, Ranks
    <3>2. "student_top_k_ids" \in DOMAIN data
      BY <2>3, <3>1 DEF RankAtWork, Brings, ScoredColumns
    <3>3. j \in 1 .. m /\ CurrentMicro(r).student_top_k_ids[i] = data.student_top_k_ids[j]
      BY <3>2 DEF MicroOf, Picked
    <3>4. RowSound(cfg, data, j)
      BY <3>1, <3>3 DEF RankAtWork, Sound
    <3>5. data.student_top_k_ids[j][t] = <<"top", Before(RowOfMicro(r, i), t)>>
      <4>1. "student_top_k_ids" \in PerToken \cap DOMAIN data
        BY <3>2 DEF PerToken
      <4>2. t \in 1 .. data.responses[j].response /\ data.responses[j] = RowOfMicro(r, i)
        BY DEF RowOfMicro
      <4> DEFINE row == RowOfMicro(r, i)
      <4> HIDE DEF data, j, row
      <4>3. data["student_top_k_ids"][j][t] = StoredAt(cfg, "student_top_k_ids", data.responses[j], t)
        BY <3>4, <4>1, <4>2 DEF RowSound
      <4>4. StoredAt(cfg, "student_top_k_ids", data.responses[j], t) = <<"top", Before(data.responses[j], t)>>
        BY DEF StoredAt, ScoredAt
      <4> QED BY <4>2, <4>3, <4>4
    <3>6. column[i][t] = <<Before(RowOfMicro(r, i), t), CurrentMicro(r).student_top_k_ids[i][t]>>
      BY <1>2, <2>1, <2>3 DEF Said
    <3> QED BY <2>3, <3>3, <3>5, <3>6 DEF ScoredAt
  <2> QED BY <2>2, <2>3
<1>6. \A i \in 1 .. Len(MicroPart(r)) : \A t \in 1 .. work[r].data.responses[MicroPart(r)[i]].response :
        column[i][t] = ScoredAt(cfg, "log_probs", work[r].data.responses[MicroPart(r)[i]], t)
  BY <1>4, <1>5 DEF RowOfMicro
<1>7. LossLogProbs(r)["log_probs"] = column
  BY DEF column
<1> QED BY <1>1, <1>4, <1>6, <1>7, OneOut

-----------------------------------------------------------------------------
\* Micro-batches have every row of a rank once.

\* k lists of rows that have each of 1 .. n once.
Covering(s, k, n) ==
  /\ Column(s, k)
  /\ \A i \in 1 .. k : s[i] \in Seq(1 .. n) /\ Distinct(s[i])
  /\ \A i, j \in 1 .. k : i # j => ToSet(s[i]) \cap ToSet(s[j]) = {}
  /\ \A o \in 1 .. n : \E i \in 1 .. k : o \in ToSet(s[i])

\* A one-to-one sequence onto 1 .. n has n elements.
LEMMA OntoOrder ==
  ASSUME NEW n \in Nat, NEW N \in Nat, NEW x, Column(x, N),
         \A p \in 1 .. N : x[p] \in 1 .. n,
         \A p, q \in 1 .. N : x[p] = x[q] => p = q,
         \A o \in 1 .. n : \E p \in 1 .. N : x[p] = o
  PROVE  N = n /\ x \in Orders(n)
<1> DEFINE A == 1 .. N
           B == 1 .. n
<1>1. x \in [A -> B]
  BY DEF Column
<1>2. x \in Bijection(A, B)
  BY <1>1 DEF Bijection, Injection, IsInjective, Surjection
<1>3. /\ IsFiniteSet(A) /\ Cardinality(A) = IF 1 > N THEN 0 ELSE N - 1 + 1
      /\ IsFiniteSet(B) /\ Cardinality(B) = IF 1 > n THEN 0 ELSE n - 1 + 1
  <2>1. 1 \in Int /\ N \in Int /\ n \in Int
    OBVIOUS
  <2> QED BY <2>1, FS_Interval
<1>4. Cardinality(A) = N /\ Cardinality(B) = n
  BY <1>3
<1> HIDE DEF A, B
<1>5. ExistsBijection(A, B)
  BY <1>2 DEF ExistsBijection
<1>6. Cardinality(B) = Cardinality(A)
  BY <1>3, <1>5, FS_Bijection
<1>7. N = n
  BY <1>4, <1>6
<1> QED BY <1>1, <1>7 DEF Orders, A, B

\* One after the other they are an order of 1 .. n.
LEMMA CoveringOrders ==
  ASSUME NEW n \in Nat, NEW k \in Nat \ {0}, NEW s, Covering(s, k, n)
  PROVE  FlattenSeq(s) \in Orders(n)
<1> DEFINE l == [i \in 1 .. k |-> Len(s[i])]
           x == FlattenSeq(s)
<1>1. \A i \in 1 .. k : /\ l[i] \in Nat /\ Column(s[i], l[i]) /\ DOMAIN s[i] = 1 .. l[i]
                        /\ \A j \in 1 .. l[i] : s[i][j] \in 1 .. n /\ s[i][j] \in ToSet(s[i])
  <2> SUFFICES ASSUME NEW i \in 1 .. k
               PROVE  /\ l[i] \in Nat /\ Column(s[i], l[i]) /\ DOMAIN s[i] = 1 .. l[i]
                      /\ \A j \in 1 .. l[i] : s[i][j] \in 1 .. n /\ s[i][j] \in ToSet(s[i])
    OBVIOUS
  <2>1. s[i] \in Seq(1 .. n) /\ l[i] = Len(s[i])
    BY DEF Covering
  <2> HIDE DEF l
  <2>2. l[i] \in Nat /\ s[i] \in [1 .. l[i] -> 1 .. n]
    BY <2>1
  <2>3. Column(s[i], l[i])
    BY <2>2, ColumnMade
  <2> QED BY <2>2, <2>3 DEF ToSet
<1> HIDE DEF l
<1>2. Lengthy(s, k, l)
  BY <1>1, ColumnIs DEF Lengthy, Covering
<1>3. PICK o : Offsets(l, k, o)
  BY <1>1, OffsetsExist
<1>4. Strung(s, k, l, o, x)
  BY <1>1, <1>2, <1>3, FlattenStrings
<1> HIDE DEF x
<1>5. /\ o[k] \in Nat
      /\ \A i \in 1 .. k : \A j \in 1 .. l[i] : o[i - 1] + j \in 1 .. o[k]
      /\ \A p \in 1 .. o[k] : \E i \in 1 .. k : \E j \in 1 .. l[i] : p = o[i - 1] + j
  <2>1. \A i \in 1 .. k : l[i] \in Nat
    BY <1>1
  <2>2. \A i \in 0 .. k : o[i] \in Nat
    BY <1>3, <2>1, OffsetsAre
  <2>3. k \in 0 .. k
    OBVIOUS
  <2> QED BY <1>3, <2>1, <2>2, <2>3, PlacesAre
<1>6. \A i \in 1 .. k : \A j \in 1 .. l[i] : x[o[i - 1] + j] = s[i][j]
  BY <1>4 DEF Strung
<1>7. ASSUME NEW p \in 1 .. o[k] PROVE x[p] \in 1 .. n
  <2>1. PICK i \in 1 .. k : \E j \in 1 .. l[i] : p = o[i - 1] + j
    BY <1>5
  <2>2. PICK j \in 1 .. l[i] : p = o[i - 1] + j
    BY <2>1
  <2>3. x[p] = s[i][j]
    BY <1>6, <2>2
  <2> QED BY <1>1, <2>3
<1>8. ASSUME NEW p \in 1 .. o[k], NEW q \in 1 .. o[k], x[p] = x[q] PROVE p = q
  <2>1. PICK i \in 1 .. k : \E j \in 1 .. l[i] : p = o[i - 1] + j
    BY <1>5
  <2>2. PICK j \in 1 .. l[i] : p = o[i - 1] + j
    BY <2>1
  <2>3. PICK u \in 1 .. k : \E v \in 1 .. l[u] : q = o[u - 1] + v
    BY <1>5
  <2>4. PICK v \in 1 .. l[u] : q = o[u - 1] + v
    BY <2>3
  <2>5. s[i][j] = s[u][v]
    BY <1>6, <1>8, <2>2, <2>4
  <2>6. i = u
    <3>1. s[i][j] \in ToSet(s[i]) /\ s[u][v] \in ToSet(s[u])
      BY <1>1
    <3>2. i # u => ToSet(s[i]) \cap ToSet(s[u]) = {}
      BY DEF Covering
    <3> QED BY <2>5, <3>1, <3>2
  <2>7. j = v
    <3>1. s[i][j] = s[i][v] /\ j \in DOMAIN s[i] /\ v \in DOMAIN s[i]
      BY <1>1, <2>5, <2>6
    <3>2. Distinct(s[i])
      BY DEF Covering
    <3> QED BY <3>1, <3>2 DEF Distinct
  <2> QED BY <2>2, <2>4, <2>6, <2>7
<1>9. ASSUME NEW row \in 1 .. n PROVE \E p \in 1 .. o[k] : x[p] = row
  <2>1. PICK i \in 1 .. k : row \in ToSet(s[i])
    BY DEF Covering
  <2>2. PICK j \in 1 .. l[i] : s[i][j] = row
    BY <1>1, <2>1 DEF ToSet
  <2> QED BY <1>5, <1>6, <2>2
<1>10. Column(x, o[k])
  BY <1>4 DEF Strung
<1>11. x \in Orders(n)
  BY <1>5, <1>7, <1>8, <1>9, <1>10, OntoOrder
<1> QED BY <1>11 DEF x

\* In another order the lists have them still.
LEMMA CoveringMoved ==
  ASSUME NEW n \in Nat, NEW k \in Nat, NEW s, Covering(s, k, n), NEW q \in Orders(k),
         NEW t, t = [i \in 1 .. k |-> s[q[i]]]
  PROVE  Covering(t, k, n)
<1>1. /\ \A i \in 1 .. k : q[i] \in 1 .. k
      /\ \A i, j \in 1 .. k : q[i] = q[j] => i = j
      /\ \A j \in 1 .. k : \E i \in 1 .. k : q[i] = j
  BY DEF Orders
<1>2. Column(t, k) /\ \A i \in 1 .. k : t[i] = s[q[i]]
  BY DEF Column
<1>3. \A i \in 1 .. k : t[i] \in Seq(1 .. n) /\ Distinct(t[i])
  BY <1>1, <1>2 DEF Covering
<1>4. ASSUME NEW i \in 1 .. k, NEW j \in 1 .. k, i # j PROVE ToSet(t[i]) \cap ToSet(t[j]) = {}
  <2>1. q[i] \in 1 .. k /\ q[j] \in 1 .. k /\ q[i] # q[j]
    BY <1>1, <1>4
  <2>2. t[i] = s[q[i]] /\ t[j] = s[q[j]]
    BY <1>2
  <2>3. ToSet(s[q[i]]) \cap ToSet(s[q[j]]) = {}
    BY <2>1 DEF Covering
  <2> QED BY <2>2, <2>3
<1>5. ASSUME NEW o \in 1 .. n PROVE \E i \in 1 .. k : o \in ToSet(t[i])
  <2>1. PICK j \in 1 .. k : o \in ToSet(s[j])
    BY DEF Covering
  <2>2. PICK i \in 1 .. k : q[i] = j
    BY <1>1
  <2> QED BY <1>2, <2>1, <2>2
<1> QED BY <1>2, <1>3, <1>4, <1>5 DEF Covering

\* Light ones at both ends: the list in another order.
LEMMA EndsOrder ==
  ASSUME NEW k \in Nat \ {0}, NEW s, Column(s, k)
  PROVE  \E e \in Orders(k) : Reverse(EverySecond(s, 1)) \o EverySecond(s, 2) = [i \in 1 .. k |-> s[e[i]]]
<1> DEFINE a == (k - 1) \div 2 + 1
           b == (k - 2) \div 2 + 1
           u == EverySecond(s, 1)
           v == EverySecond(s, 2)
           z == Reverse(u)
           e == [i \in 1 .. k |-> IF i <= a THEN 2 * (a - i + 1) - 1 ELSE 2 * (i - a)]
<1>1. a \in Nat /\ b \in Nat /\ a + b = k /\ (2 * a = k \/ 2 * a = k + 1)
  OBVIOUS
<1>2. Len(s) = k
  BY ColumnIs
<1>3. u = [i \in 1 .. a |-> s[2 * i - 1]]
  BY <1>2 DEF EverySecond
<1>4. v = [i \in 1 .. b |-> s[2 * i]]
  BY <1>2 DEF EverySecond
<1> HIDE DEF a, b, u, v
<1>5. Len(u) = a /\ \A i \in 1 .. a : u[i] = s[2 * i - 1]
  BY <1>1, <1>3
<1>6. z = [i \in 1 .. a |-> u[a - i + 1]]
  BY <1>5 DEF Reverse
<1>7. \A i \in 1 .. a : z[i] = s[2 * (a - i + 1) - 1]
  BY <1>1, <1>5, <1>6
<1> HIDE DEF z
<1>8. Column(z, a) /\ Column(v, b)
  BY <1>4, <1>6 DEF Column
<1>9. Joins(z, v, a, b, z \o v)
  BY <1>1, <1>8, ColumnsJoined
<1> DEFINE x == z \o v
<1> HIDE DEF x
<1>10. Column(x, k) /\ (\A i \in 1 .. a : x[i] = z[i]) /\ (\A j \in 1 .. b : x[a + j] = v[j])
  BY <1>1, <1>9 DEF Joins, x
<1>11. \A i \in 1 .. k : IF i <= a THEN e[i] = 2 * (a - i + 1) - 1 ELSE e[i] = 2 * (i - a)
  OBVIOUS
<1>12. DOMAIN e = 1 .. k
  OBVIOUS
<1>13. e = [i \in 1 .. k |-> e[i]]
  OBVIOUS
<1> HIDE DEF e
<1>14. \A i \in 1 .. k : e[i] \in 1 .. k
  BY <1>1, <1>11
<1>15. \A i, j \in 1 .. k : e[i] = e[j] => i = j
  BY <1>1, <1>11
<1>16. ASSUME NEW j \in 1 .. k PROVE \E i \in 1 .. k : e[i] = j
  <2>1. CASE j % 2 = 1
    <3> DEFINE h == j \div 2
    <3>1. h \in Nat /\ j = 2 * h + 1
      BY <2>1
    <3> HIDE DEF h
    <3> DEFINE i == a - h
    <3>2. i \in 1 .. k /\ i <= a /\ 2 * (a - i + 1) - 1 = j
      BY <1>1, <3>1
    <3> HIDE DEF i
    <3>3. e[i] = j
      BY <1>11, <3>2
    <3> QED BY <3>2, <3>3
  <2>2. CASE j % 2 = 0
    <3> DEFINE h == j \div 2
    <3>1. h \in Nat /\ j = 2 * h /\ h > 0
      BY <2>2
    <3> HIDE DEF h
    <3> DEFINE i == a + h
    <3>2. i \in 1 .. k /\ ~(i <= a) /\ 2 * (i - a) = j
      BY <1>1, <3>1
    <3> HIDE DEF i
    <3>3. e[i] = j
      BY <1>11, <3>2
    <3> QED BY <3>2, <3>3
  <2>3. j % 2 \in 0 .. 1
    OBVIOUS
  <2> QED BY <2>1, <2>2, <2>3
<1>17. e \in Orders(k)
  BY <1>13, <1>14, <1>15, <1>16 DEF Orders
<1>18. ASSUME NEW i \in 1 .. k PROVE x[i] = s[e[i]]
  <2>1. CASE i <= a
    <3>1. i \in 1 .. a
      BY <1>1, <2>1
    <3> QED BY <1>7, <1>10, <1>11, <2>1, <3>1
  <2>2. CASE ~(i <= a)
    <3>1. i - a \in 1 .. b /\ i = a + (i - a)
      BY <1>1, <2>2
    <3>2. v[i - a] = s[2 * (i - a)] /\ x[i] = v[i - a]
      BY <1>4, <1>10, <3>1
    <3> QED BY <1>11, <2>2, <3>2
  <2> QED BY <2>1, <2>2
<1>19. x = [i \in 1 .. k |-> s[e[i]]]
  BY <1>10, <1>18 DEF Column
<1> QED BY <1>17, <1>19 DEF x, z, u, v

\* The micro-batches of a rank have each of its rows once.
LEMMA MicroBatchesReach ==
  ASSUME NEW n \in Nat, NEW lengths, Workloads(lengths) \in [1 .. n -> Nat],
         NEW k \in Nat \ {0}, k <= n
  PROVE  FlattenSeq(MicroBatches(lengths, k)) \in Orders(n)
<1> DEFINE w == Workloads(lengths)
           parts == BalancedPartitions(w, k, FALSE)
           Earlier(p, q) == \/ Load(w, p) > Load(w, q)
                            \/ Load(w, p) = Load(w, q) /\ p[1] > q[1]
           smaller == {p \in Pairs(parts) : Earlier(parts[p[1]], parts[p[2]])}
           sorted == Sorted(parts, smaller)
           ends == Reverse(EverySecond(sorted, 1)) \o EverySecond(sorted, 2)
<1>1. w \in [1 .. n -> Nat]
  OBVIOUS
<1>2. MicroBatches(lengths, k) = ends
  BY DEF MicroBatches
<1> HIDE DEF w
<1>3. PICK d \in Nat : Apart(w, n, d)
  BY <1>1, Bounded
<1>4. Fits(n, k, FALSE) /\ d \in Int
  BY DEF Fits
<1>5. Partitioned(w, n, k, d, FALSE, parts)
  BY <1>1, <1>3, <1>4, SortedPartitions
<1>6. parts \in [1 .. k -> Seq(1 .. n)] /\ \A i \in 1 .. k : parts[i] # <<>>
  BY <1>5 DEF Partitioned
<1> HIDE DEF parts
<1>7. DOMAIN parts = 1 .. k
  BY <1>6
<1>8. ASSUME NEW i \in 1 .. k PROVE Load(w, parts[i]) \in Nat /\ parts[i][1] \in Nat
  <2> DEFINE p == parts[i]
             R == 1 .. n
  <2>1. p \in Seq(R) /\ p # <<>> /\ w \in [R -> Nat]
    BY <1>1, <1>6
  <2> HIDE DEF p
  <2>2. p[1] \in Nat
    BY <2>1, FirstRow
  <2> HIDE DEF R
  <2>3. Load(w, p) \in Nat
    BY <2>1, LoadType
  <2> QED BY <2>2, <2>3 DEF p
<1>9. ASSUME NEW i \in 1 .. k, NEW j \in 1 .. k
      PROVE  <<i, j>> \in smaller <=> Earlier(parts[i], parts[j])
  BY <1>7 DEF Pairs
<1>10. ASSUME NEW i \in 1 .. k, NEW j \in 1 .. k, <<i, j>> \in smaller
       PROVE  <<j, i>> \notin smaller
  BY <1>8, <1>9, <1>10
<1>11. ASSUME NEW a \in 1 .. k, NEW b \in 1 .. k, NEW c \in 1 .. k, <<a, c>> \in smaller
       PROVE  <<a, b>> \in smaller \/ <<b, c>> \in smaller
  <2> DEFINE L(i) == Load(w, parts[i])
             F(i) == parts[i][1]
  <2>1. L(a) \in Nat /\ L(b) \in Nat /\ L(c) \in Nat /\ F(a) \in Nat /\ F(b) \in Nat /\ F(c) \in Nat
    BY <1>8
  <2>2. \A i, j \in 1 .. k : <<i, j>> \in smaller <=> L(i) > L(j) \/ (L(i) = L(j) /\ F(i) > F(j))
    BY <1>9
  <2> HIDE DEF L, F, smaller
  <2> QED BY <1>11, <2>1, <2>2
<1> HIDE DEF smaller
<1>12. SortedBy(k, parts, smaller, sorted)
  BY <1>7, <1>10, <1>11, SortedIs
<1> HIDE DEF sorted
<1>13. PICK q \in Orders(k) : sorted = [i \in 1 .. k |-> parts[q[i]]]
  BY <1>12 DEF SortedBy
<1>14. Covering(parts, k, n)
  BY <1>5, <1>6 DEF Partitioned, Covering, Column
<1>15. Covering(sorted, k, n)
  BY <1>13, <1>14, CoveringMoved
<1>16. Column(sorted, k)
  BY <1>15 DEF Covering
<1>17. PICK e \in Orders(k) : ends = [i \in 1 .. k |-> sorted[e[i]]]
  BY <1>16, EndsOrder
<1> HIDE DEF ends
<1>18. Covering(ends, k, n)
  BY <1>15, <1>17, CoveringMoved
<1> QED BY <1>2, <1>18, CoveringOrders

\* Rows that are cut one after the other are there in their order.
LEMMA ConsecutiveReach ==
  ASSUME NEW rows \in Nat \ {0}, NEW size \in Nat \ {0}
  PROVE  FlattenSeq(Consecutive(rows, size)) = [i \in 1 .. rows |-> i]
<1> DEFINE p == CeilDiv(rows, size)
           s == Consecutive(rows, size)
           x == FlattenSeq(s)
           lines(k) == Min({size, rows - (k - 1) * size})
           l == [k \in 1 .. p |-> lines(k)]
           o == [k \in 0 .. p |-> Min({k * size, rows})]
<1>1. p \in Nat \ {0}
  BY ConsecutiveIs
<1>2. s = [k \in 1 .. p |-> [i \in 1 .. lines(k) |-> (k - 1) * size + i]]
  BY DEF Consecutive
<1>3. Ceiling(rows, size, p)
  BY CeilDivIs
<1>4. /\ \A k \in 1 .. p : l[k] = lines(k)
      /\ \A k \in 0 .. p : o[k] = Min({k * size, rows})
  OBVIOUS
<1>5. \A k \in 1 .. p : s[k] = [i \in 1 .. lines(k) |-> (k - 1) * size + i]
  BY <1>2
<1>6. Column(s, p)
  BY <1>2 DEF Column
<1> HIDE DEF s, l, o, x
<1>7. ASSUME NEW k \in 1 .. p
      PROVE  /\ l[k] \in Nat /\ o[k - 1] = (k - 1) * size /\ o[k] = o[k - 1] + l[k]
             /\ (k - 1) * size \in Nat
  <2> DEFINE a == (k - 1) * size
             z == k * size
             h == PieceRows(rows, size, k)
  <2>1. h \in Nat \ {0} /\ a \in Nat /\ Min({z, rows}) = a + h /\ a + h <= rows
    BY PieceRowsAre
  <2>2. z = a + size /\ z \in Nat
    BY <1>1
  <2>3. l[k] = Min({size, rows - a}) /\ o[k] = Min({z, rows}) /\ k - 1 \in 0 .. p
    BY <1>1, <1>4
  <2>4. o[k - 1] = Min({a, rows})
    BY <1>4, <2>3
  <2> HIDE DEF a, z, h
  <2>5. Min({a, rows}) = a
    BY <2>1 DEF Min
  <2>6. Min({size, rows - a}) = h
    <3>1. Min({z, rows}) = IF z <= rows THEN z ELSE rows
      BY <2>2 DEF Min
    <3>2. rows - a \in Nat /\ (z <= rows <=> size <= rows - a)
      BY <2>1, <2>2
    <3> DEFINE left == rows - a
    <3>3. left \in Nat
      BY <3>2
    <3>4. rows = a + left
      BY <2>1
    <3> HIDE DEF left
    <3>5. Min({size, left}) = IF size <= left THEN size ELSE left
      BY <3>3 DEF Min
    <3>6. z <= rows <=> size <= left
      BY <2>1, <2>2, <3>3, <3>4
    <3>7. Min({size, left}) = h
      BY <2>1, <2>2, <3>1, <3>3, <3>4, <3>5, <3>6
    <3> QED BY <3>7 DEF left
  <2>7. l[k] = h
    BY <2>3, <2>6
  <2>8. o[k - 1] = a
    BY <2>4, <2>5
  <2>9. o[k] = a + h
    BY <2>1, <2>3
  <2> QED BY <2>1, <2>7, <2>8, <2>9 DEF a
<1>8. o[0] = 0 /\ o[p] = rows
  <2>1. 0 \in 0 .. p /\ p \in 0 .. p /\ 0 * size = 0
    BY <1>1
  <2>2. o[0] = Min({0, rows}) /\ o[p] = Min({p * size, rows})
    BY <1>4, <2>1
  <2>3. Min({0, rows}) = 0
    BY DEF Min
  <2> DEFINE z == p * size
  <2>4. z \in Nat /\ rows <= z
    BY <1>1, <1>3 DEF Ceiling
  <2> HIDE DEF z
  <2>5. Min({z, rows}) = rows
    BY <2>4 DEF Min
  <2> QED BY <2>2, <2>3, <2>5 DEF z
<1> HIDE DEF p
<1>9. Offsets(l, p, o)
  BY <1>7, <1>8 DEF Offsets
<1>10. ASSUME NEW k \in 1 .. p PROVE Column(s[k], l[k])
  BY <1>4, <1>5 DEF Column
<1>11. Lengthy(s, p, l)
  <2>1. Len(s) = p
    BY <1>1, <1>6, ColumnIs
  <2> QED BY <1>10, <2>1 DEF Lengthy
<1>12. \A k \in 1 .. p : l[k] \in Nat
  BY <1>7
<1>13. Strung(s, p, l, o, x)
  BY <1>1, <1>9, <1>11, <1>12, FlattenStrings DEF x
<1>14. ASSUME NEW q \in 1 .. rows PROVE x[q] = q
  <2>1. \A i \in 1 .. o[p] : \E k \in 1 .. p : \E j \in 1 .. l[k] : i = o[k - 1] + j
    BY <1>1, <1>9, <1>12, PlacesAre
  <2>2. PICK k \in 1 .. p : \E j \in 1 .. l[k] : q = o[k - 1] + j
    BY <1>8, <2>1
  <2>3. PICK j \in 1 .. l[k] : q = o[k - 1] + j
    BY <2>2
  <2>4. x[q] = s[k][j]
    BY <1>13, <2>3 DEF Strung
  <2>5. s[k][j] = (k - 1) * size + j
    BY <1>4, <1>5
  <2>6. o[k - 1] = (k - 1) * size
    BY <1>7
  <2> QED BY <2>3, <2>4, <2>5, <2>6
<1>15. Column(x, rows)
  BY <1>8, <1>13 DEF Strung
<1>16. x = [i \in 1 .. rows |-> i]
  BY <1>14, <1>15 DEF Column
<1> QED BY <1>16 DEF x, s

-----------------------------------------------------------------------------
\* The ranks stay at work.

\* The rank a result comes from has the same rows.
LEMMA DealtAlike ==
  ASSUME cfg \in Configs, NEW r \in Ranks
  PROVE  LastStage(r) \in Ranks /\ DealtTo(cfg, LastStage(r)) = DealtTo(cfg, r)
<1>1. LastStage(r) \in Ranks /\ DpRank(LastStage(r)) = DpRank(r)
  BY LastStageIs, DealtToIs
<1>2. \A x : DealtTo(cfg, x) = DpRank(x)
  BY DEF DealtTo, DpRank, DpOf, Dp
<1> QED BY <1>1, <1>2

\* A step of the ranks adds to each rank's results what the last stage had.
ForwardAdds(r, o, z) ==
  /\ work'[r].data = work[r].data /\ work'[r].parts = work[r].parts
  /\ Column(work[r].out, o) /\ work'[r].out = Append(work[r].out, z) /\ 1 .. o + 1 \subseteq DOMAIN work[r].parts

\* That is what every forward does.
LEMMA ForwardIs ==
  ASSUME cfg \in Configs, InStep(cfg, work), NEW results, Forward(results)
  PROVE  \E o \in Nat : \A r \in Ranks : ForwardAdds(r, o, results[LastStage(r)])
<1>1. PICK p \in Nat \ {0} : \E o \in Nat : Lined(cfg, work, p, o)
  BY DEF InStep
<1>2. PICK o \in Nat : Lined(cfg, work, p, o)
  BY <1>1
<1>3. work' = [r \in Ranks |-> [work[r] EXCEPT !.out = Append(@, results[LastStage(r)])]]
  BY DEF Forward
<1>4. ASSUME NEW r \in Ranks PROVE ForwardAdds(r, o, results[LastStage(r)])
  <2> DEFINE x == work[r]
             z == results[LastStage(r)]
  <2>1. AtPart(x, p, o)
    BY <1>2 DEF Lined, Ranks
  <2>2. work'[r] = [x EXCEPT !.out = Append(@, z)] /\ x = [data |-> x.data, parts |-> x.parts, out |-> x.out]
    BY <1>3, <2>1 DEF AtPart
  <2> HIDE DEF x, z
  <2>3. work'[r] = [data |-> x.data, parts |-> x.parts, out |-> Append(x.out, z)]
    BY <2>2
  <2>4. work'[r].data = x.data /\ work'[r].parts = x.parts /\ work'[r].out = Append(x.out, z)
    BY <2>3
  <2>5. 1 .. o + 1 \subseteq DOMAIN x.parts
    <3>1. Column(x.parts, p) /\ Column(x.out, o) /\ p \in Nat
      BY <2>1 DEF AtPart, Parted
    <3>2. Len(x.parts) = p /\ DOMAIN x.parts = 1 .. p /\ Len(x.out) = o
      BY <3>1, ColumnIs
    <3>3. Len(x.out) < Len(x.parts)
      BY DEF Forward, x
    <3> QED BY <3>1, <3>2, <3>3
  <2> QED BY <2>1, <2>4, <2>5 DEF ForwardAdds, AtPart, x, z
<1> QED BY <1>4

\* A list with one more at its end, entry by entry.
LEMMA OneLonger ==
  ASSUME NEW o \in Nat, NEW u, Column(u, o), NEW z, NEW v, v = Append(u, z)
  PROVE  DOMAIN v = 1 .. o + 1 /\ (\A k \in 1 .. o : v[k] = u[k]) /\ v[o + 1] = z
<1>1. Column(v, o + 1)
  BY ColumnLonger
<1>2. (\A k \in 1 .. o : v[k] = u[k]) /\ v[o + 1] = z
  <2>1. u \in Seq({u[i] : i \in 1 .. o}) /\ Len(u) = o
    BY ColumnIs
  <2> QED BY <2>1
<1>3. DOMAIN v = 1 .. o + 1
  BY ONLY <1>1 DEF Column
<1> QED BY <1>2, <1>3

\* If the micro-batch of each rank got what belongs to it, the ranks are at work as before.
Fulfils(results, C) == \A r \in Ranks : OutOf(cfg, work[r].data, MicroPart(r), results[r], C)

\* Then what they have done so far belongs to their rows.
LEMMA ForwardAligned ==
  ASSUME cfg \in Configs, InStep(cfg, work), NEW m \in Nat, NEW ph, AtWork(cfg, work, m, ph),
         NEW results, Forward(results), Fulfils(results, Asks(cfg, ph))
  PROVE  /\ AtWork(cfg, work', m, ph)
         /\ \A r \in Ranks : work'[r].data = work[r].data /\ work'[r].parts = work[r].parts
<1>1. PICK o \in Nat : \A r \in Ranks : ForwardAdds(r, o, results[LastStage(r)])
  BY ForwardIs
<1>2. \A r \in Ranks : /\ work'[r].data = work[r].data /\ work'[r].parts = work[r].parts
                       /\ Len(work[r].out) = o /\ DOMAIN work[r].out = 1 .. o
  BY <1>1, ColumnIs DEF ForwardAdds
<1>3. ASSUME NEW r \in Ranks PROVE RankAtWork(cfg, work'[r], m, ph)
  <2> DEFINE x == work[r]
             q == LastStage(r)
             z == results[q]
             C == Asks(cfg, ph)
             v == Append(x.out, z)
  <2>1. RankAtWork(cfg, x, m, ph)
    BY DEF AtWork, Ranks
  <2>2. q \in Ranks /\ DealtTo(cfg, q) = DealtTo(cfg, r)
    BY DealtAlike
  <2>3. work[q].data = x.data /\ work[q].parts = x.parts
    BY <2>2 DEF AtWork, Ranks
  <2>4. MicroPart(q) = x.parts[o + 1]
    BY <1>2, <2>2, <2>3 DEF MicroPart
  <2>5. OutOf(cfg, x.data, x.parts[o + 1], z, C)
    BY <2>2, <2>3, <2>4 DEF Fulfils
  <2>6. /\ work'[r].data = x.data /\ work'[r].parts = x.parts /\ work'[r].out = v
        /\ Column(x.out, o) /\ DOMAIN x.out = 1 .. o /\ 1 .. o + 1 \subseteq DOMAIN x.parts
    BY <1>1, <1>2 DEF ForwardAdds
  <2>7. /\ Sound(cfg, x.data, m) /\ Brings(cfg, ph) \subseteq DOMAIN x.data
        /\ Reaches(cfg, x.parts, m) /\ Outs(cfg, x, C)
    BY <2>1 DEF RankAtWork
  <2> HIDE DEF x, q, z, C, v
  <2>8. DOMAIN v = 1 .. o + 1 /\ (\A k \in 1 .. o : v[k] = x.out[k]) /\ v[o + 1] = z
    <3> DEFINE u == x.out
    <3>1. Column(u, o) /\ o \in Nat
      BY <2>6
    <3>2. v = Append(u, z)
      BY DEF v
    <3> HIDE DEF u
    <3>3. DOMAIN v = 1 .. o + 1 /\ (\A k \in 1 .. o : v[k] = u[k]) /\ v[o + 1] = z
      BY ONLY <3>1, <3>2, OneLonger
    <3> QED BY <3>3 DEF u
  <2>9. ASSUME NEW k \in 1 .. o + 1 PROVE OutOf(cfg, x.data, x.parts[k], v[k], C)
    <3>1. CASE k = o + 1
      BY <2>5, <2>8, <3>1
    <3>2. CASE k # o + 1
      <4>1. k \in 1 .. o
        BY <3>2
      <4> QED BY <2>6, <2>7, <2>8, <4>1 DEF Outs
    <3> QED BY <3>1, <3>2
  <2>10. Outs(cfg, work'[r], C)
    BY <2>6, <2>8, <2>9 DEF Outs
  <2>11. DOMAIN work'[r].out \subseteq DOMAIN work'[r].parts
    BY <2>6, <2>8
  <2> QED BY <2>6, <2>7, <2>10, <2>11 DEF RankAtWork, C
<1>4. \A r, q \in Ranks : DealtTo(cfg, r) = DealtTo(cfg, q) =>
        work'[r].data = work'[q].data /\ work'[r].parts = work'[q].parts
  BY <1>2 DEF AtWork, Ranks
<1> QED BY <1>2, <1>3, <1>4 DEF AtWork, Ranks

\* What is dealt to a group is the same for all its ranks.
Deal(c, g, m, ph) ==
  /\ \A r \in 0 .. c.world - 1 : Sound(c, g[r], m) /\ Brings(c, ph) \subseteq DOMAIN g[r]
  /\ \A r, q \in 0 .. c.world - 1 : DealtTo(c, r) = DealtTo(c, q) => g[r] = g[q]

\* Micro-batches of n rows, cut as a rank cuts them.
LEMMA CutReaches ==
  ASSUME cfg \in Configs, NEW m \in Nat \ {0}, NEW lengths, Workloads(lengths) \in [1 .. m -> Nat],
         NEW k, k \in 1 .. m, NEW parts,
         parts = IF cfg.dynamic THEN MicroBatches(lengths, k) ELSE Consecutive(m, cfg.micro)
  PROVE  Reaches(cfg, parts, m)
<1>1. CASE cfg.dynamic
  <2>1. k \in Nat \ {0} /\ k <= m /\ m \in Nat
    OBVIOUS
  <2>2. FlattenSeq(MicroBatches(lengths, k)) \in Orders(m)
    BY <2>1, MicroBatchesReach
  <2> QED BY <1>1, <2>2 DEF Reaches
<1>2. CASE ~cfg.dynamic
  <2> DEFINE size == cfg.micro
             e == [i \in 1 .. m |-> i]
  <2>1. size \in Nat \ {0}
    BY KnownConfig DEF Known
  <2>2. FlattenSeq(Consecutive(m, size)) = e
    BY <2>1, ConsecutiveReach
  <2>3. e \in Orders(m)
    BY DEF Orders
  <2> QED BY <1>2, <2>2, <2>3 DEF Reaches
<1> QED BY <1>1, <1>2

\* Rows that are sound can be cut.
LEMMA SoundShare ==
  ASSUME LengthsAssumption, NEW n \in Nat, NEW c, NEW b, Sound(c, b, n)
  PROVE  Share(b, n)
<1>1. Table(b, n) /\ "responses" \in DOMAIN b
  BY DEF Sound
<1>2. Column(b.responses, n)
  BY <1>1 DEF Table
<1>3. ASSUME NEW i \in 1 .. n
      PROVE  b.responses[i].prompt \in Nat \ {0} /\ b.responses[i].response \in Nat \ {0}
  <2>1. Fitting(b.responses[i])
    BY DEF Sound, RowSound
  <2>2. PromptLength \in Nat /\ ResponseLength \in Nat
    BY DEF LengthsAssumption
  <2> QED BY <2>1, <2>2 DEF Fitting
<1> QED BY <1>1, <1>2, <1>3 DEF Share, Answered

\* The number of micro-batches, when a method has begun.
LEMMA NumberIs ==
  ASSUME cfg \in Configs, NEW m \in Nat \ {0}, NEW g, Given(cfg, g, m), Given(cfg, OfLastStage(g), m),
         CanForward(g)
  PROVE  \E p \in 1 .. m : cfg.dynamic => \A r \in Ranks : NumberOfMicro(OfLastStage(g), r) = p
<1>1. CASE cfg.dynamic
  <2>1. ASSUME NEW r \in Ranks PROVE NumberOfMicro(g, r) <= m
    <3>1. NumberOfMicro(g, r) <= Rows(g[r])
      BY <1>1 DEF CanForward
    <3>2. Share(g[r], m)
      BY DEF Given, Ranks
    <3>3. Rows(g[r]) = m
      BY <3>2, ShareWeighed
    <3> QED BY <3>1, <3>3
  <2>2. \E p \in 1 .. m : \A r \in Ranks : NumberOfMicro(OfLastStage(g), r) = p
    BY <2>1, NumberOfMicroIs
  <2> QED BY <2>2
<1>2. CASE ~cfg.dynamic
  <2>1. 1 \in 1 .. m
    OBVIOUS
  <2> QED BY <1>2, <2>1
<1> QED BY <1>1, <1>2

\* A method that begins puts the ranks to work, on what each was dealt.
LEMMA BeginAligned ==
  ASSUME LengthsAssumption, cfg \in Configs, NEW m \in Nat \ {0}, NEW g, NEW next, Deal(cfg, g, m, next),
         Begin(g, next), phase' # "raised"
  PROVE  phase' = next /\ AtWork(cfg, work', m, next) /\ \A r \in Ranks : work'[r].data = g[r]
<1> DEFINE h == OfLastStage(g)
           Cut(r) == IF cfg.dynamic THEN MicroBatches(Lengths(h[r]), NumberOfMicro(h, r))
                                    ELSE Consecutive(Rows(h[r]), cfg.micro)
<1>1. CanForward(g) /\ phase' = next /\ work' = MicroBatched(g)
  BY DEF Begin
<1>2. \A r \in Ranks : Sound(cfg, g[r], m) /\ Brings(cfg, next) \subseteq DOMAIN g[r]
  BY DEF Deal, Ranks
<1>3. ASSUME NEW r \in Ranks PROVE Share(g[r], m)
  BY <1>2, SoundShare
<1>4. ASSUME NEW r \in Ranks PROVE h[r] = g[r]
  <2>1. LastStage(r) \in Ranks /\ DealtTo(cfg, LastStage(r)) = DealtTo(cfg, r)
    BY DealtAlike
  <2>2. h[r] = g[LastStage(r)]
    BY DEF OfLastStage
  <2> QED BY <2>1, <2>2 DEF Deal, Ranks
<1>5. work' = [r \in Ranks |-> [data |-> h[r], parts |-> Cut(r), out |-> <<>>]]
  BY <1>1 DEF MicroBatched, OfLastStage
<1>6. Given(cfg, g, m) /\ Given(cfg, h, m)
  BY <1>3, <1>4 DEF Given, Ranks
<1>7. PICK p \in 1 .. m : cfg.dynamic => \A r \in Ranks : NumberOfMicro(h, r) = p
  BY <1>1, <1>6, NumberIs
<1>8. \A r \in Ranks : work'[r].data = h[r] /\ work'[r].parts = Cut(r) /\ work'[r].out = <<>>
  BY <1>5
<1> HIDE DEF h
<1>9. ASSUME NEW r \in Ranks
      PROVE  Cut(r) = IF cfg.dynamic THEN MicroBatches(Lengths(g[r]), p) ELSE Consecutive(m, cfg.micro)
  <2>1. Rows(g[r]) = m
    BY <1>3, ShareWeighed
  <2> QED BY <1>4, <1>7, <2>1
<1> HIDE DEF Cut
<1>10. ASSUME NEW r \in Ranks PROVE RankAtWork(cfg, work'[r], m, next)
  <2>1. Workloads(Lengths(g[r])) \in [1 .. m -> Nat]
    BY <1>3, ShareWeighed
  <2>2. Reaches(cfg, Cut(r), m)
    BY <1>9, <2>1, CutReaches
  <2>3. Outs(cfg, work'[r], Asks(cfg, next)) /\ DOMAIN work'[r].out \subseteq DOMAIN work'[r].parts
    BY <1>8 DEF Outs
  <2> QED BY <1>2, <1>4, <1>8, <2>2, <2>3 DEF RankAtWork
<1>11. ASSUME NEW r \in Ranks, NEW q \in Ranks, DealtTo(cfg, r) = DealtTo(cfg, q)
       PROVE  work'[r].data = work'[q].data /\ work'[r].parts = work'[q].parts
  <2>1. g[r] = g[q]
    BY <1>11 DEF Deal, Ranks
  <2> QED BY <1>4, <1>8, <1>9, <2>1
<1>12. AtWork(cfg, work', m, next)
  BY <1>10, <1>11 DEF AtWork, Ranks
<1> QED BY <1>1, <1>4, <1>8, <1>12

-----------------------------------------------------------------------------
\* Rows that are moved keep what belongs to them.

\* Row i of x has what row f[i] of b has, in the columns the ranks are asked about.
Carried(b, f, m, x) ==
  /\ Table(x, m) /\ "responses" \in DOMAIN x /\ DOMAIN x \cap Told \subseteq DOMAIN b
  /\ \A col \in DOMAIN x \cap Told : \A i \in 1 .. m : x[col][i] = b[col][f[i]]

\* So it is as sound.
LEMMA SoundCarried ==
  ASSUME NEW c, NEW n \in Nat, NEW b, Sound(c, b, n), NEW m \in Nat, NEW f, \A i \in 1 .. m : f[i] \in 1 .. n,
         NEW x, Carried(b, f, m, x)
  PROVE  Sound(c, x, m)
<1>1. ASSUME NEW i \in 1 .. m PROVE RowSound(c, x, i)
  <2> DEFINE j == f[i]
             row == b.responses[j]
  <2>1. RowSound(c, b, j)
    BY DEF Sound
  <2>2. x.responses[i] = row
    BY DEF Carried, Told
  <2>3. Fitting(x.responses[i])
    BY <2>1, <2>2 DEF RowSound
  <2>4. ASSUME NEW col \in PerToken \cap DOMAIN x, NEW t \in 1 .. row.response
        PROVE  x[col][i][t] = StoredAt(c, col, row, t)
    <3>1. col \in DOMAIN x \cap Told /\ col \in PerToken \cap DOMAIN b
      BY DEF Carried, Told
    <3>2. x[col][i] = b[col][j]
      BY <3>1 DEF Carried
    <3>3. b[col][j][t] = StoredAt(c, col, row, t)
      BY <2>1, <3>1 DEF RowSound
    <3> QED BY <3>2, <3>3
  <2> HIDE DEF row, j
  <2> QED BY <2>2, <2>3, <2>4 DEF RowSound
<1> QED BY <1>1 DEF Sound, Carried

\* A batch with fewer columns.
LEMMA SelectSound ==
  ASSUME NEW c, NEW n \in Nat, NEW b, Sound(c, b, n), NEW columns, "responses" \in columns
  PROVE  Sound(c, Select(b, columns), n) /\ DOMAIN Select(b, columns) = DOMAIN b \cap columns
<1> DEFINE x == Select(b, columns)
           f == [i \in 1 .. n |-> i]
<1>1. DOMAIN x = DOMAIN b \cap columns /\ \A col \in DOMAIN x : x[col] = b[col]
  BY DEF Select
<1>2. \A i \in 1 .. n : f[i] = i /\ f[i] \in 1 .. n
  OBVIOUS
<1> HIDE DEF x, f
<1>3. Table(b, n) /\ "responses" \in DOMAIN b
  BY DEF Sound
<1>4. Carried(b, f, n, x)
  BY <1>1, <1>2, <1>3 DEF Carried, Table
<1>5. Sound(c, x, n)
  BY <1>2, <1>4, SoundCarried
<1> QED BY <1>1, <1>5 DEF x

\* A batch with more columns, the ranks are not asked about.
LEMMA WiderSound ==
  ASSUME NEW c, NEW n \in Nat, NEW b, Sound(c, b, n), NEW o, Table(o, n), DOMAIN o \cap Told = {}
  PROVE  Sound(c, Union(b, o), n) /\ DOMAIN Union(b, o) = DOMAIN b \cup DOMAIN o
<1> DEFINE x == Union(b, o)
           f == [i \in 1 .. n |-> i]
<1>1. Table(b, n) /\ "responses" \in DOMAIN b
  BY DEF Sound
<1>2. Table(x, n) /\ DOMAIN x = DOMAIN b \cup DOMAIN o
  <2> HIDE DEF f
  <2> QED BY ONLY <1>1, UnionIs, n \in Nat, Table(o, n)
<1>3. \A col \in DOMAIN x : x[col] = IF col \in DOMAIN o THEN o[col] ELSE b[col]
  BY DEF Union
<1>4. \A i \in 1 .. n : f[i] = i /\ f[i] \in 1 .. n
  OBVIOUS
<1> HIDE DEF x, f
<1>5. \A col \in DOMAIN x \cap Told : col \in DOMAIN b /\ x[col] = b[col]
  BY <1>2, <1>3
<1>6. Carried(b, f, n, x)
  BY <1>1, <1>2, <1>4, <1>5 DEF Carried
<1>7. Sound(c, x, n)
  BY <1>4, <1>6, SoundCarried
<1> QED BY <1>2, <1>7 DEF x

\* Some of the rows.
LEMMA PickedSound ==
  ASSUME NEW c, NEW n \in Nat, NEW b, Sound(c, b, n), NEW m \in Nat, NEW q, \A i \in 1 .. m : q[i] \in 1 .. n,
         NEW x, Picked(b, q, m, x)
  PROVE  Sound(c, x, m)
<1>1. "responses" \in DOMAIN b
  BY DEF Sound
<1>2. Carried(b, q, m, x)
  BY <1>1 DEF Carried, Picked
<1> QED BY <1>2, SoundCarried

\* Rows that stand next to each other.
LEMMA CutOut ==
  ASSUME NEW n \in Nat, NEW b, Table(b, n), NEW a \in Nat, NEW m \in Nat, a + m <= n,
         NEW x, x = Slice(b, a + 1, a + m)
  PROVE  Picked(b, [i \in 1 .. m |-> a + i], m, x)
<1> DEFINE q == [i \in 1 .. m |-> a + i]
<1>1. DOMAIN x = DOMAIN b /\ \A c \in DOMAIN b : x[c] = SubSeq(b[c], a + 1, a + m)
  BY DEF Slice
<1>2. ASSUME NEW c \in DOMAIN b PROVE Column(x[c], m) /\ \A i \in 1 .. m : x[c][i] = b[c][a + i]
  <2> DEFINE y == x[c]
             z == b[c]
  <2>1. Column(z, n)
    BY DEF Table
  <2>2. y = SubSeq(z, a + 1, a + m)
    BY <1>1
  <2> HIDE DEF y, z
  <2>3. y = [i \in 1 .. m |-> z[a + i]]
    BY <2>1, <2>2, SubSeqIs
  <2>4. Column(y, m) /\ \A i \in 1 .. m : y[i] = z[a + i]
    BY <2>3 DEF Column
  <2> QED BY <2>4 DEF y, z
<1>3. \A i \in 1 .. m : q[i] = a + i
  OBVIOUS
<1> HIDE DEF q
<1>4. Table(x, m)
  BY <1>1, <1>2 DEF Table
<1> QED BY <1>1, <1>2, <1>3, <1>4 DEF Picked, q

\* What a rank is dealt, the same for the ranks of a group.
LEMMA DealtSound ==
  ASSUME cfg \in Configs, NEW n \in Nat, n % Dp = 0, NEW c, NEW b, Sound(c, b, n), NEW r \in Ranks
  PROVE  /\ Sound(c, DispatchTo(b)[r], n \div Dp) /\ DOMAIN DispatchTo(b)[r] = DOMAIN b
         /\ \A q \in Ranks : DpRank(q) = DpRank(r) => DispatchTo(b)[q] = DispatchTo(b)[r]
<1> DEFINE d == Dp
           m == n \div d
           s == Chunk(b, d)
           u == DpRank(r)
           w == u + 1
           x == s[w]
           f == [i \in 1 .. m |-> (w - 1) * m + i]
<1>1. \A q \in Ranks : DispatchTo(b)[q] = s[DpRank(q) + 1]
  BY DEF DispatchTo
<1>2. d \in Nat \ {0} /\ u \in 0 .. d - 1
  BY MeshIs, DealtToIs DEF Meshed
<1>3. Table(b, n) /\ "responses" \in DOMAIN b
  BY DEF Sound
<1>4. Chunked(b, d, m, s)
  BY <1>2, <1>3, ChunkIs
<1>5. m \in Nat /\ d * m = n
  BY <1>2, Shares
<1>6. w \in 1 .. d
  BY <1>2
<1>7. \A i \in 1 .. m : f[i] = (w - 1) * m + i
  OBVIOUS
<1> HIDE DEF s, d, m, w, f
<1>8. ASSUME NEW i \in 1 .. m PROVE f[i] \in 1 .. n
  <2>1. m \in Nat \ {0} /\ w - 1 \in 0 .. d - 1 /\ d \in Nat
    BY <1>2, <1>5, <1>6
  <2>2. (w - 1) * m + i \in 1 .. d * m
    BY <2>1, LineAndPlace
  <2> QED BY <1>5, <1>7, <2>2
<1>9. DOMAIN x = DOMAIN b /\ Table(x, m) /\ \A col \in DOMAIN b : \A i \in 1 .. m : x[col][i] = b[col][f[i]]
  BY <1>4, <1>6, <1>7 DEF Chunked
<1> HIDE DEF x
<1>10. Picked(b, f, m, x)
  BY <1>9 DEF Picked
<1>11. Sound(c, x, m)
  BY <1>5, <1>8, <1>10, PickedSound
<1>12. DispatchTo(b)[r] = x
  BY <1>1 DEF x, w
<1>13. \A q \in Ranks : DpRank(q) = DpRank(r) => DispatchTo(b)[q] = DispatchTo(b)[r]
  BY <1>1
<1> QED BY <1>9, <1>11, <1>12, <1>13 DEF m, d

\* The ranks of a group.
Together(r, q) == DpRank(q) = DpRank(r)

\* A share as a model is trained on it: with what it is compared with.
ShareFor(model, r) == IF model = "critic" THEN CriticShare(r) ELSE UpdateShare(r)
NeededBy(model) == IF model = "critic" THEN {"values"} ELSE ScoredColumns(cfg)

\* Every rank's share is sound, and that of the ranks of its group.
LEMMA SharesSound ==
  ASSUME cfg \in Configs, Dealable, Sound(cfg, batch, Samples(cfg)), NEW model, NeededBy(model) \subseteq DOMAIN batch,
         NEW r \in Ranks
  PROVE  /\ Sound(cfg, ShareFor(model, r), OfRank) /\ NeededBy(model) \subseteq DOMAIN ShareFor(model, r)
         /\ \A q \in Ranks : Together(r, q) => ShareFor(model, q) = ShareFor(model, r)
<1> DEFINE n == Samples(cfg)
           m == OfRank
<1>1. n \in Nat /\ n % Dp = 0 /\ m = n \div Dp /\ m \in Nat
  BY NumbersAre DEF Dealable, OfRank
<1>2. CASE model = "critic"
  <2> DEFINE C == {"responses", "values", "returns"}
             b == Select(batch, C)
             x == DispatchTo(b)[r]
  <2>1. \A q \in Ranks : ShareFor(model, q) = DispatchTo(b)[q]
    BY <1>2 DEF ShareFor, CriticShare
  <2>2. "responses" \in C /\ "values" \in C /\ "values" \in DOMAIN batch
    BY <1>2 DEF NeededBy
  <2>0. n \in Nat /\ Sound(cfg, batch, n) /\ "responses" \in C
    BY <1>1, <2>2
  <2> HIDE DEF n, m, C
  <2>3. Sound(cfg, b, n) /\ DOMAIN b = DOMAIN batch \cap C
    BY <2>0, SelectSound
  <2> HIDE DEF b, x
  <2>4. /\ Sound(cfg, x, n \div Dp) /\ DOMAIN x = DOMAIN b
        /\ \A q \in Ranks : DpRank(q) = DpRank(r) => DispatchTo(b)[q] = x
    BY <1>1, <2>3, DealtSound DEF x
  <2>5. ShareFor(model, r) = x
    BY <2>1 DEF x
  <2>6. Sound(cfg, ShareFor(model, r), m)
    BY <1>1, <2>4, <2>5 DEF n, m
  <2>7. NeededBy(model) \subseteq DOMAIN ShareFor(model, r)
    BY <1>2, <2>2, <2>3, <2>4, <2>5 DEF NeededBy
  <2>8. \A q \in Ranks : Together(r, q) => ShareFor(model, q) = ShareFor(model, r)
    BY <2>1, <2>4, <2>5 DEF Together
  <2> QED BY <2>6, <2>7, <2>8 DEF m
<1>3. CASE model # "critic"
  <2> DEFINE g == DispatchTo(batch)
             x == g[r]
             new(q) == MaskColumn(g[q], OwnSelection(q, g[q]))
             o == [js_token_selection_mask |-> new(r)]
  <2>1. \A q \in Ranks : ShareFor(model, q) =
          IF "js_token_selection_mask" \in DOMAIN g[q] THEN g[q] ELSE Union(g[q], [js_token_selection_mask |-> new(q)])
    BY <1>3 DEF ShareFor, UpdateShare
  <2> HIDE DEF n, g
  <2>2. /\ Sound(cfg, x, n \div Dp) /\ DOMAIN x = DOMAIN batch
        /\ \A q \in Ranks : DpRank(q) = DpRank(r) => g[q] = x
    BY <1>1, DealtSound DEF n, g
  <2>3. ASSUME NEW q \in Ranks, Together(r, q) PROVE g[q] = g[r] /\ new(q) = new(r)
    <3>1. g[q] = g[r] /\ DpRank(q) = DpRank(r)
      BY <2>2, <2>3 DEF Together
    <3>2. SeedOf(q) = SeedOf(r)
      BY <3>1 DEF SeedOf
    <3>3. OwnSelection(q, g[r]) = OwnSelection(r, g[r])
      BY <3>2 DEF OwnSelection
    <3> QED BY <3>1, <3>3
  <2>4. Rows(x) = m
    BY <1>1, <2>2, TableRows DEF Sound
  <2>5. Column(new(r), m)
    BY <2>4 DEF MaskColumn, Column
  <2>6. DOMAIN o = {"js_token_selection_mask"} /\ o["js_token_selection_mask"] = new(r)
    OBVIOUS
  <2> HIDE DEF new, o, x, m
  <2>7. Table(o, m) /\ DOMAIN o \cap Told = {}
    BY <2>5, <2>6 DEF Table, Told, PerToken
  <2>8. m \in Nat /\ Sound(cfg, x, m)
    BY <1>1, <2>2
  <2>9. Sound(cfg, Union(x, o), m) /\ DOMAIN Union(x, o) = DOMAIN x \cup DOMAIN o
    BY <2>7, <2>8, WiderSound
  <2>10. ShareFor(model, r) = IF "js_token_selection_mask" \in DOMAIN x THEN x ELSE Union(x, o)
    BY <2>1 DEF x, o
  <2>11. Sound(cfg, ShareFor(model, r), m) /\ DOMAIN x \subseteq DOMAIN ShareFor(model, r)
    BY <2>8, <2>9, <2>10
  <2>12. \A q \in Ranks : Together(r, q) => ShareFor(model, q) = ShareFor(model, r)
    BY <2>1, <2>3
  <2> QED BY <2>2, <2>11, <2>12 DEF m
<1> QED BY <1>2, <1>3

\* Drawn in the order of an epoch.
LEMMA DrawnSound ==
  ASSUME NEW n \in Nat \ {0}, NEW c, NEW b, Sound(c, b, n), NEW epoch \in Int
  PROVE  LET x == Reorder(b, EpochOrder(n, epoch)) IN Sound(c, x, n) /\ DOMAIN x = DOMAIN b
<1> DEFINE q == EpochOrder(n, epoch)
           x == SelectIdxs(b, q)
<1>1. q = [i \in 1 .. n |-> IF cfg.shuffle THEN ((i + epoch) % n) + 1 ELSE i]
  BY DEF EpochOrder
<1>2. ASSUME NEW i \in 1 .. n PROVE q[i] \in 1 .. n
  <2> DEFINE y == i + epoch
             z == y % n
  <2>1. y \in Int
    OBVIOUS
  <2> HIDE DEF y
  <2>2. z \in 0 .. n - 1
    BY <2>1
  <2>3. q[i] = IF cfg.shuffle THEN z + 1 ELSE i
    BY <1>1 DEF y
  <2> HIDE DEF z, q
  <2> QED BY <2>2, <2>3
<1>3. DOMAIN q = 1 .. n
  BY <1>1
<1> HIDE DEF q
<1>4. DOMAIN b # {} /\ n \in Nat
  BY DEF Sound, Table
<1>5. Picked(b, q, n, x)
  BY <1>3, <1>4, SelectIdxsIs
<1> HIDE DEF x
<1>6. Sound(c, x, n) /\ DOMAIN x = DOMAIN b
  BY <1>2, <1>4, <1>5, PickedSound DEF Picked
<1> QED BY <1>6 DEF x, q, Reorder

\* A mini-batch of them.
LEMMA PieceSound ==
  ASSUME NEW n \in Nat \ {0}, NEW size \in Nat \ {0}, NEW k \in 1 .. CeilDiv(n, size),
         NEW c, NEW b, Sound(c, b, n)
  PROVE  Sound(c, Split(b, size)[k], PieceRows(n, size, k)) /\ DOMAIN Split(b, size)[k] = DOMAIN b
<1> DEFINE a == (k - 1) * size
           m == PieceRows(n, size, k)
           e == Min({k * size, n})
           x == Split(b, size)[k]
           q == [i \in 1 .. m |-> a + i]
<1>1. /\ k \in 1 .. (n + size - 1) \div size
      /\ m \in Nat \ {0} /\ a \in Nat /\ e = a + m /\ a + m <= n
  BY PieceRowsAre
<1>2. Table(b, n)
  BY DEF Sound
<1>3. Rows(b) = n
  BY <1>2, TableRows
<1>4. x = Slice(b, a + 1, e)
  BY <1>1, <1>3 DEF Split
<1> HIDE DEF a, m, e, x
<1>5. Picked(b, q, m, x)
  BY <1>1, <1>2, <1>4, CutOut
<1>6. \A i \in 1 .. m : q[i] \in 1 .. n
  BY <1>1
<1> HIDE DEF q
<1>7. Sound(c, x, m) /\ DOMAIN x = DOMAIN b
  BY <1>1, <1>5, <1>6, PickedSound DEF Picked
<1> QED BY <1>7 DEF x, m

\* The mini-batches an optimizer step is made of.
LEMMA MiniBatchSound ==
  ASSUME cfg \in Configs, Dealable, Sound(cfg, batch, Samples(cfg)), NEW model, NeededBy(model) \subseteq DOMAIN batch,
         NEW k \in 1 .. MiniBatches, NEW epoch \in Int, NEW ph, Brings(cfg, ph) = NeededBy(model)
  PROVE  \E m \in Nat \ {0} : Deal(cfg, MiniBatch(k, epoch, model), m, ph)
<1> DEFINE n == OfRank
           l == LocalMini
           m == PieceRows(n, l, k)
           Drawn1(r) == IF Megatron THEN Reorder(ShareFor(model, r), EpochOrder(Rows(ShareFor(model, r)), epoch))
                                    ELSE ShareFor(model, r)
           g == MiniBatch(k, epoch, model)
<1>1. n \in Nat \ {0} /\ l \in Nat \ {0} /\ k \in 1 .. CeilDiv(n, l)
  BY NumbersAre
<1>2. m \in Nat \ {0}
  BY <1>1, PieceRowsAre
<1>3. \A r \in Ranks : g[r] = Split(Drawn1(r), l)[k]
  BY DEF MiniBatch, ShareFor
<1> HIDE DEF n, l, m, g
<1>4. ASSUME NEW r \in Ranks
      PROVE  /\ Sound(cfg, g[r], m) /\ Brings(cfg, ph) \subseteq DOMAIN g[r]
             /\ \A q \in Ranks : Together(r, q) => g[q] = g[r]
  <2> DEFINE share == ShareFor(model, r)
             x == Drawn1(r)
  <2>1. /\ Sound(cfg, share, n) /\ NeededBy(model) \subseteq DOMAIN share
        /\ \A q \in Ranks : Together(r, q) => ShareFor(model, q) = share
    BY SharesSound DEF n
  <2>2. Sound(cfg, x, n) /\ DOMAIN x = DOMAIN share
    <3>1. CASE Megatron
      <4>1. Table(share, n) /\ n \in Nat
        BY <1>1, <2>1 DEF Sound
      <4>2. Rows(share) = n
        BY <4>1, TableRows
      <4>3. x = Reorder(share, EpochOrder(n, epoch))
        BY <3>1, <4>2
      <4> HIDE DEF x, share, Drawn1
      <4> QED BY <1>1, <2>1, <4>3, DrawnSound
    <3>2. CASE ~Megatron
      BY <2>1, <3>2
    <3> QED BY <3>1, <3>2
  <2>3. \A q \in Ranks : Together(r, q) => Drawn1(q) = x
    BY <2>1
  <2> HIDE DEF x, share, Drawn1
  <2>4. Sound(cfg, Split(x, l)[k], m) /\ DOMAIN Split(x, l)[k] = DOMAIN x
    BY <1>1, <2>2, PieceSound DEF m
  <2>5. g[r] = Split(x, l)[k]
    BY <1>3 DEF x
  <2>6. \A q \in Ranks : Together(r, q) => g[q] = g[r]
    BY <1>3, <2>3, <2>5
  <2> QED BY <2>1, <2>2, <2>4, <2>5, <2>6
<1>5. \A r, q \in Ranks : DealtTo(cfg, r) = DealtTo(cfg, q) => g[r] = g[q]
  <2>1. \A r : DealtTo(cfg, r) = DpRank(r)
    BY DEF DealtTo, DpRank, DpOf, Dp
  <2> QED BY <1>4, <2>1 DEF Together
<1>6. Deal(cfg, g, m, ph)
  BY <1>4, <1>5 DEF Deal, Ranks
<1> QED BY <1>2, <1>6 DEF g

\* What compute_log_prob and compute_values are given: the rows of the driver's batch, each
\* rank its own part of them.
OfBatch(c, B, ws, m) == \A r \in 0 .. c.world - 1 : \A i \in 1 .. m : ws[r].data.responses[i] = B[DealtTo(c, r) * m + i]

\* They are dealt so.
LEMMA CallDeals ==
  ASSUME cfg \in Configs, Dealable, Sound(cfg, batch, Samples(cfg)), NEW ph, Brings(cfg, ph) = {}
  PROVE  LET g == DispatchTo(Select(batch, {"responses"}))
         IN  /\ Deal(cfg, g, OfRank, ph)
             /\ \A r \in Ranks : \A i \in 1 .. OfRank : g[r].responses[i] = batch.responses[DealtTo(cfg, r) * OfRank + i]
<1> DEFINE n == Samples(cfg)
           m == OfRank
           C == {"responses"}
           b == Select(batch, C)
           g == DispatchTo(b)
<1>1. n \in Nat /\ n % Dp = 0 /\ m = n \div Dp
  BY NumbersAre DEF Dealable, OfRank
<1>2. Share(b, n)
  <2>1. Share(batch, n) /\ "responses" \in C
    BY DEF Dealable, Held, Share
  <2> HIDE DEF n, C
  <2> QED BY <1>1, <2>1, SelectShare
<1>3. Sound(cfg, b, n)
  <2>1. Sound(cfg, batch, n) /\ "responses" \in C
    OBVIOUS
  <2> HIDE DEF n, C
  <2> QED BY <1>1, <2>1, SelectSound
<1>4. b.responses = batch.responses
  BY DEF Select, Sound
<1>5. \A r : DealtTo(cfg, r) = DpRank(r)
  BY DEF DealtTo, DpRank, DpOf, Dp
<1> HIDE DEF n, m, b
<1>6. ASSUME NEW r \in Ranks
      PROVE  /\ Sound(cfg, g[r], m)
             /\ \A q \in Ranks : DpRank(q) = DpRank(r) => g[q] = g[r]
             /\ \A i \in 1 .. m : g[r].responses[i] = b.responses[DpRank(r) * m + i]
  <2>1. /\ Sound(cfg, g[r], m)
        /\ \A q \in Ranks : DpRank(q) = DpRank(r) => g[q] = g[r]
    BY <1>1, <1>3, DealtSound
  <2>2. \A i \in 1 .. m : g[r].responses[i] = b.responses[DpRank(r) * m + i]
    BY <1>1, <1>2, DealtRows
  <2> QED BY <2>1, <2>2
<1> HIDE DEF g
<1>7. Deal(cfg, g, m, ph)
  BY <1>5, <1>6 DEF Deal, Ranks
<1> QED BY <1>4, <1>5, <1>6, <1>7 DEF g, m, b

-----------------------------------------------------------------------------
\* The ranks that answer, in the order of the rows they answer for.

\* The rank of a pipeline stage, a data-parallel rank and their two kinds of partners.
Seat(s, u, v, w) == s * PerStage(cfg) + (u * (cfg.tp * cfg.sp) + (v * cfg.tp + w))
Seated(s, u, v, w, r) ==
  r \in Ranks /\ Stage(r) = s /\ DpRank(r) = u /\ SpRank(r) = v /\ r % cfg.tp = w

\* A rank sits where its coordinates say.
LEMMA SeatIs ==
  ASSUME cfg \in Configs, NEW s \in 0 .. cfg.pp - 1, NEW u \in 0 .. Dp - 1,
         NEW v \in 0 .. cfg.sp - 1, NEW w \in 0 .. cfg.tp - 1
  PROVE  Seated(s, u, v, w, Seat(s, u, v, w))
<1> DEFINE a == cfg.tp
           b == cfg.sp
           k == a * b
           d == Dp
           p == cfg.pp
           q == PerStage(cfg)
           g == v * a + w
           y == u * k + g
           x == s * q + y
           h == s * d + u
           z == h * b + v
<1>1. /\ a \in Nat \ {0} /\ b \in Nat \ {0} /\ k \in Nat \ {0} /\ d \in Nat \ {0} /\ p \in Nat \ {0}
      /\ q \in Nat \ {0} /\ d * k = q /\ p * q = cfg.world
  BY MeshIs, KnownConfig DEF Meshed, Known
<1>2. /\ Seat(s, u, v, w) = x /\ Stage(x) = x \div q /\ DpRank(x) = (x \div k) % d
      /\ SpRank(x) = (x \div a) % b /\ Ranks = 0 .. cfg.world - 1
  BY DEF Seat, Stage, PerStage, DpRank, SpRank, Ranks
<1>3. k = b * a
  BY <1>1
<1>4. s \in 0 .. p - 1 /\ u \in 0 .. d - 1 /\ v \in 0 .. b - 1 /\ w \in 0 .. a - 1
  OBVIOUS
<1>5. x % cfg.tp = x % a
  OBVIOUS
<1> HIDE DEF a, b, k, d, p, q
<1>6. g \in 0 .. k - 1
  BY <1>1, <1>3, <1>4, FromZero
<1>7. g = v * a + w
  OBVIOUS
<1> HIDE DEF g
<1>8. y \in 0 .. q - 1
  <2>1. y \in 0 .. d * k - 1
    BY <1>1, <1>4, <1>6, FromZero
  <2> QED BY <1>1, <2>1
<1>9. y = u * k + g
  OBVIOUS
<1> HIDE DEF y
<1>10. x \in 0 .. cfg.world - 1
  <2>1. x \in 0 .. p * q - 1
    BY <1>1, <1>4, <1>8, FromZero
  <2> QED BY <1>1, <2>1
<1>11. x \div q = s
  <2>1. LeavesOver(x, s, q, y) /\ s \in Nat /\ q \in Nat \ {0}
    BY <1>1, <1>4 DEF LeavesOver
  <2> HIDE DEF x
  <2> QED BY <1>8, <2>1, Divided
<1>12. h \in Nat /\ LeavesOver(h, s, d, u)
  <2>1. s * d \in Nat
    BY <1>1, <1>4
  <2> QED BY <1>4, <2>1 DEF LeavesOver
<1>13. h % d = u
  BY <1>1, <1>4, <1>12, Divided
<1>14. LeavesOver(x, h, k, g)
  <2>1. s * q = (s * d) * k /\ s * d \in Nat
    BY <1>1, <1>4, Regroup
  <2> DEFINE e == s * d
  <2>2. e \in Nat /\ s * q = e * k /\ h = e + u
    BY <2>1
  <2> HIDE DEF e, h
  <2>3. (e + u) * k = e * k + u * k /\ e * k \in Nat /\ u * k \in Nat
    BY <1>1, <1>4, <2>2
  <2> QED BY <1>6, <1>9, <2>2, <2>3 DEF LeavesOver
<1> HIDE DEF h
<1>15. x \div k = h
  BY <1>1, <1>6, <1>12, <1>14, Divided
<1>16. z \in Nat /\ LeavesOver(z, h, b, v)
  <2>1. h * b \in Nat
    BY <1>1, <1>12
  <2> QED BY <1>4, <2>1 DEF LeavesOver
<1>17. z % b = v
  BY <1>1, <1>4, <1>12, <1>16, Divided
<1>18. LeavesOver(x, z, a, w)
  <2>1. h * k = (h * b) * a /\ h * b \in Nat
    BY <1>1, <1>3, <1>12, Regroup
  <2> DEFINE e == h * b
  <2>2. e \in Nat /\ h * k = e * a /\ z = e + v
    BY <2>1
  <2> HIDE DEF e, z
  <2>3. (e + v) * a = e * a + v * a /\ e * a \in Nat /\ v * a \in Nat
    BY <1>1, <1>4, <2>2
  <2> QED BY <1>4, <1>7, <1>14, <2>2, <2>3 DEF LeavesOver
<1> HIDE DEF z
<1>19. x \div a = z /\ x % a = w
  BY <1>1, <1>4, <1>16, <1>18, Divided
<1> QED BY <1>2, <1>5, <1>10, <1>11, <1>13, <1>15, <1>17, <1>19 DEF Seated

\* Every rank has a seat.
LEMMA EverySeat ==
  ASSUME cfg \in Configs, NEW r \in Ranks
  PROVE  \E s \in 0 .. cfg.pp - 1 : \E u \in 0 .. Dp - 1 : \E v \in 0 .. cfg.sp - 1 : \E w \in 0 .. cfg.tp - 1 :
           r = Seat(s, u, v, w)
<1> DEFINE a == cfg.tp
           b == cfg.sp
           k == a * b
           d == Dp
           p == cfg.pp
           q == PerStage(cfg)
           s == r \div q
           y == r % q
           u == y \div k
           g == y % k
           v == g \div a
           w == g % a
<1>1. /\ a \in Nat \ {0} /\ b \in Nat \ {0} /\ k \in Nat \ {0} /\ d \in Nat \ {0} /\ p \in Nat \ {0}
      /\ q \in Nat \ {0} /\ d * k = q /\ p * q = cfg.world
  BY MeshIs, KnownConfig DEF Meshed, Known
<1>2. r \in 0 .. p * q - 1
  BY <1>1 DEF Ranks
<1>3. k = b * a
  BY <1>1
<1>4. \A i, j, m, n : Seat(i, j, m, n) = i * q + (j * k + (m * a + n))
  BY DEF Seat
<1> HIDE DEF q
<1>5. s \in 0 .. p - 1 /\ y \in 0 .. q - 1 /\ r = s * q + y
  BY <1>1, <1>2, FromZero
<1> HIDE DEF s, y
<1>6. y \in 0 .. d * k - 1
  BY <1>1, <1>5
<1> HIDE DEF k, d
<1>7. u \in 0 .. d - 1 /\ g \in 0 .. k - 1 /\ y = u * k + g
  BY <1>1, <1>6, FromZero
<1> HIDE DEF u, g
<1>8. g \in 0 .. b * a - 1
  BY <1>3, <1>7
<1> HIDE DEF a, b
<1>9. v \in 0 .. b - 1 /\ w \in 0 .. a - 1 /\ g = v * a + w
  BY <1>1, <1>8, FromZero
<1> HIDE DEF v, w
<1>10. r = Seat(s, u, v, w)
  BY <1>4, <1>5, <1>7, <1>9
<1> QED BY <1>5, <1>7, <1>9, <1>10 DEF d, a, b, p

\* What climbs through all of 1 .. n goes in steps of one.
LEMMA Stepwise ==
  ASSUME NEW n \in Nat, NEW N \in Nat, NEW x, Column(x, N), \A i \in 1 .. N : x[i] \in 1 .. n,
         \A i, j \in 1 .. N : i < j => x[i] < x[j], \A o \in 1 .. n : \E i \in 1 .. N : x[i] = o
  PROVE  N = n /\ \A i \in 1 .. n : x[i] = i
<1>1. \A i, j \in 1 .. N : x[i] = x[j] => i = j
  <2> SUFFICES ASSUME NEW i \in 1 .. N, NEW j \in 1 .. N, i # j PROVE x[i] # x[j]
    OBVIOUS
  <2>1. x[i] \in Int /\ x[j] \in Int
    OBVIOUS
  <2>2. CASE i < j
    <3>1. x[i] < x[j]
      BY <2>2
    <3> QED BY <2>1, <3>1
  <2>3. CASE j < i
    <3>1. x[j] < x[i]
      BY <2>3
    <3> QED BY <2>1, <3>1
  <2> QED BY <2>2, <2>3
<1>2. N = n
  BY <1>1, OntoOrder
<1> DEFINE Above == {i \in Nat : i + 1 <= n => i + 1 <= x[i + 1]}
           Under == {i \in Nat : i < n => x[n - i] <= n - i}
<1>3. Above = Nat
  <2>1. 0 \in Above
    BY <1>2
  <2>2. ASSUME NEW i \in Above PROVE i + 1 \in Above
    <3>1. CASE i + 2 <= n
      <4>1. i + 1 \in 1 .. N /\ i + 2 \in 1 .. N /\ i + 1 < i + 2
        BY <1>2, <3>1
      <4>2. x[i + 1] < x[i + 2] /\ x[i + 1] \in Int /\ x[i + 2] \in Int
        BY <4>1
      <4>3. i + 1 <= x[i + 1]
        BY <3>1
      <4>4. (i + 1) + 1 = i + 2 /\ i + 2 <= x[i + 2]
        BY <4>2, <4>3
      <4> QED BY <4>4
    <3>2. CASE ~(i + 2 <= n)
      BY <3>2
    <3> QED BY <3>1, <3>2
  <2>3. Above \in SUBSET Nat
    OBVIOUS
  <2> HIDE DEF Above
  <2> QED BY <2>1, <2>2, <2>3, Upward
<1>4. Under = Nat
  <2>1. 0 \in Under
    BY <1>2
  <2>2. ASSUME NEW i \in Under PROVE i + 1 \in Under
    <3>1. CASE i + 1 < n
      <4> DEFINE j == n - (i + 1)
      <4>1. j \in 1 .. N /\ n - i \in 1 .. N /\ j < n - i /\ n - i = j + 1
        BY <1>2, <3>1
      <4>2. x[j] < x[n - i] /\ x[j] \in Int /\ x[n - i] \in Int
        BY <4>1
      <4>3. x[n - i] <= n - i
        BY <3>1
      <4>4. x[j] <= j
        BY <4>1, <4>2, <4>3
      <4> QED BY <4>4
    <3>2. CASE ~(i + 1 < n)
      BY <3>2
    <3> QED BY <3>1, <3>2
  <2>3. Under \in SUBSET Nat
    OBVIOUS
  <2> HIDE DEF Under
  <2> QED BY <2>1, <2>2, <2>3, Upward
<1>5. ASSUME NEW i \in 1 .. n PROVE x[i] = i
  <2>1. i - 1 \in Above /\ n - i \in Under
    <3>1. i - 1 \in Nat /\ n - i \in Nat
      OBVIOUS
    <3> HIDE DEF Above, Under
    <3> QED BY <1>3, <1>4, <3>1
  <2>2. (i - 1) + 1 = i /\ n - (n - i) = i /\ n - i < n /\ x[i] \in Int
    BY <1>2
  <2> QED BY <2>1, <2>2
<1> QED BY <1>2, <1>5

\* One rank of each data-parallel group answers, and they answer in their order.
LEMMA AnsweringRanks ==
  ASSUME cfg \in Configs, NEW ranks, ranks = Increasing(SetToSeq({r \in Ranks : Collects(r)}))
  PROVE  DOMAIN ranks = 1 .. Dp /\ \A i \in 1 .. Dp : ranks[i] \in Ranks /\ DpRank(ranks[i]) = i - 1
<1> DEFINE S == {r \in Ranks : Collects(r)}
           n == Cardinality(S)
           a == SetToSeq(S)
           first == (cfg.pp - 1) * PerStage(cfg)
           k == cfg.tp * cfg.sp
<1>0. /\ cfg.tp \in Nat \ {0} /\ cfg.sp \in Nat \ {0} /\ cfg.pp \in Nat \ {0} /\ Dp \in Nat \ {0}
      /\ k \in Nat \ {0} /\ PerStage(cfg) \in Nat \ {0}
  BY MeshIs, KnownConfig DEF Meshed, Known
<1>1. first \in Nat
  <2> DEFINE e == cfg.pp - 1
             q == PerStage(cfg)
  <2>1. e \in Nat /\ q \in Nat /\ first = e * q
    BY <1>0
  <2> HIDE DEF e, q
  <2>2. e * q \in Nat
    BY <2>1
  <2> QED BY <2>1, <2>2
<1>2. \A u \in Nat : Seat(cfg.pp - 1, u, 0, 0) = first + u * k
  <2> SUFFICES ASSUME NEW u \in Nat PROVE Seat(cfg.pp - 1, u, 0, 0) = first + u * k
    OBVIOUS
  <2>1. u * k \in Nat /\ 0 * cfg.tp = 0
    BY <1>0
  <2>2. Seat(cfg.pp - 1, u, 0, 0) = first + (u * k + (0 * cfg.tp + 0))
    BY DEF Seat
  <2> QED BY <1>1, <2>1, <2>2
<1> HIDE DEF first, k
<1>3. ASSUME NEW r \in S PROVE r \in Ranks /\ DpRank(r) \in 0 .. Dp - 1 /\ r = first + DpRank(r) * k
  <2>1. r \in Ranks /\ r % cfg.tp = 0 /\ SpRank(r) = 0 /\ Stage(r) = cfg.pp - 1
    BY DEF Collects
  <2>2. PICK s \in 0 .. cfg.pp - 1 : \E u \in 0 .. Dp - 1 : \E v \in 0 .. cfg.sp - 1 : \E w \in 0 .. cfg.tp - 1 :
          r = Seat(s, u, v, w)
    BY <2>1, EverySeat
  <2>3. PICK u \in 0 .. Dp - 1 : \E v \in 0 .. cfg.sp - 1 : \E w \in 0 .. cfg.tp - 1 : r = Seat(s, u, v, w)
    BY <2>2
  <2>4. PICK v \in 0 .. cfg.sp - 1 : \E w \in 0 .. cfg.tp - 1 : r = Seat(s, u, v, w)
    BY <2>3
  <2>5. PICK w \in 0 .. cfg.tp - 1 : r = Seat(s, u, v, w)
    BY <2>4
  <2>6. Seated(s, u, v, w, r)
    BY <2>5, SeatIs
  <2>7. s = cfg.pp - 1 /\ u = DpRank(r) /\ v = 0 /\ w = 0
    BY <2>1, <2>6 DEF Seated
  <2>8. u \in Nat
    BY <1>0
  <2> QED BY <1>2, <2>1, <2>5, <2>7, <2>8
<1>4. ASSUME NEW u \in 0 .. Dp - 1 PROVE \E r \in S : DpRank(r) = u
  <2> DEFINE r == Seat(cfg.pp - 1, u, 0, 0)
  <2>1. cfg.pp - 1 \in 0 .. cfg.pp - 1 /\ 0 \in 0 .. cfg.sp - 1 /\ 0 \in 0 .. cfg.tp - 1
    BY <1>0
  <2>2. Seated(cfg.pp - 1, u, 0, 0, r)
    BY <2>1, SeatIs
  <2> QED BY <2>2 DEF Seated, Collects
<1>5. IsFiniteSet(S)
  <2>1. IsFiniteSet(Ranks)
    BY FS_Interval, KnownConfig DEF Ranks
  <2> QED BY <2>1, FS_Subset
<1> HIDE DEF S
<1>6. n \in Nat
  BY <1>5, FS_CardinalityType
<1>7. a \in [1 .. n -> S] /\ IsInjective(a) /\ \A r \in S : \E i \in 1 .. n : a[i] = r
  <2>1. ExistsBijection(1 .. n, S)
    BY <1>5, FS_CardinalityType
  <2>2. PICK f : f \in Bijection(1 .. n, S)
    BY <2>1 DEF ExistsBijection
  <2>3. f \in [1 .. n -> S] /\ IsInjective(f) /\ \A r \in S : \E i \in 1 .. n : f[i] = r
    BY <2>2 DEF Bijection, Injection, Surjection, IsInjective
  <2>4. a = CHOOSE g \in [1 .. n -> S] : IsInjective(g)
    BY DEF SetToSeq
  <2>5. a \in [1 .. n -> S] /\ IsInjective(a)
    BY <2>3, <2>4
  <2>6. \A x, y \in 1 .. n : a[x] = a[y] => x = y
    BY <2>5 DEF IsInjective
  <2> DEFINE I == 1 .. n
  <2>7. IsFiniteSet(I) /\ Cardinality(I) = n
    <3>1. n \in Int /\ 1 \in Int
      BY <1>6
    <3>2. IsFiniteSet(1 .. n) /\ Cardinality(1 .. n) = IF 1 > n THEN 0 ELSE n - 1 + 1
      BY <3>1, FS_Interval
    <3> QED BY <1>6, <3>2
  <2>8. a \in [I -> S] /\ \A x, y \in I : a[x] = a[y] => x = y
    BY <2>5, <2>6
  <2> HIDE DEF I, a
  <2>9. \A r \in S : \E i \in I : a[i] = r
    BY <1>5, <2>7, <2>8, OneToOne
  <2> QED BY <2>5, <2>9 DEF I
<1> HIDE DEF a, n
<1>8. a \in Seq(S) /\ Len(a) = n /\ Distinct(a) /\ ToSet(a) = S
  <2>1. a \in Seq(S) /\ Len(a) = n /\ DOMAIN a = 1 .. n
    BY <1>6, <1>7
  <2> QED BY <1>7, <2>1 DEF Distinct, IsInjective, ToSet
<1>9. S \in SUBSET Int
  BY <1>3 DEF Ranks
<1> DEFINE b == Increasing(a)
<1>10. ranks = b
  BY DEF a, S
<1>11. b \in Seq(S) /\ Len(b) = n /\ ToSet(b) = S /\ Climbing(b)
  BY <1>8, <1>9, IncreasingIs
<1> HIDE DEF b
<1>12. DOMAIN b = 1 .. n /\ (\A i \in 1 .. n : b[i] \in S) /\ \A r \in S : \E i \in 1 .. n : b[i] = r
  BY <1>6, <1>11 DEF ToSet
<1> DEFINE x == [i \in 1 .. n |-> DpRank(b[i]) + 1]
<1>13. \A i \in 1 .. n : x[i] = DpRank(b[i]) + 1
  OBVIOUS
<1>14. Column(x, n)
  BY DEF Column
<1> HIDE DEF x
<1>15. \A i \in 1 .. n : x[i] \in 1 .. Dp
  BY <1>0, <1>3, <1>12, <1>13
<1>16. ASSUME NEW i \in 1 .. n, NEW j \in 1 .. n, i < j PROVE x[i] < x[j]
  <2> DEFINE u == DpRank(b[i])
             v == DpRank(b[j])
  <2>1. b[i] < b[j]
    BY <1>11, <1>12, <1>16 DEF Climbing
  <2>2. u \in Nat /\ v \in Nat /\ b[i] = first + u * k /\ b[j] = first + v * k
    BY <1>0, <1>3, <1>12
  <2>3. x[i] = u + 1 /\ x[j] = v + 1
    BY <1>13
  <2> HIDE DEF u, v
  <2>4. u * k \in Nat /\ v * k \in Nat
    BY <1>0, <2>2
  <2>5. u * k < v * k
    BY <1>1, <2>1, <2>2, <2>4
  <2>6. u # v
    BY <2>4, <2>5
  <2>7. ~(v < u)
    <3>1. v < u => v * k + k <= u * k
      BY <1>0, <2>2, NextLine
    <3> QED BY <1>0, <2>4, <2>5, <3>1
  <2> QED BY <2>2, <2>3, <2>6, <2>7
<1>17. ASSUME NEW o \in 1 .. Dp PROVE \E i \in 1 .. n : x[i] = o
  <2>1. o - 1 \in 0 .. Dp - 1
    BY <1>0
  <2>2. PICK r \in S : DpRank(r) = o - 1
    BY <1>4, <2>1
  <2>3. PICK i \in 1 .. n : b[i] = r
    BY <1>12
  <2> QED BY <1>13, <2>2, <2>3
<1>18. n = Dp /\ \A i \in 1 .. Dp : x[i] = i
  <2>1. Dp \in Nat
    BY <1>0
  <2> QED BY <1>6, <1>14, <1>15, <1>16, <1>17, <2>1, Stepwise
<1>19. ASSUME NEW i \in 1 .. Dp PROVE b[i] \in Ranks /\ DpRank(b[i]) = i - 1
  <2>1. b[i] \in S /\ x[i] = i /\ x[i] = DpRank(b[i]) + 1
    BY <1>12, <1>13, <1>18
  <2>2. DpRank(b[i]) \in Int /\ b[i] \in Ranks
    BY <1>3, <2>1
  <2> QED BY <2>1, <2>2
<1> QED BY <1>10, <1>12, <1>18, <1>19

-----------------------------------------------------------------------------
\* What a rank answers.

\* What belongs to each of the m rows of some data.
Tells(c, data, m, C, z) ==
  /\ DOMAIN z = C
  /\ \A col \in C :
       /\ Column(z[col], m)
       /\ \A j \in 1 .. m : \A t \in 1 .. data.responses[j].response :
            z[col][j][t] = ScoredAt(c, col, data.responses[j], t)

\* restore_dynamic_batch puts back what the partitions moved.
LEMMA RestoredIs ==
  ASSUME NEW m \in Nat, NEW parts, FlattenSeq(parts) \in Orders(m), NEW y, Column(y, m)
  PROVE  /\ Column(Restored(y, parts), m)
         /\ \A j \in 1 .. m : \E i \in 1 .. m : FlattenSeq(parts)[i] = j /\ Restored(y, parts)[j] = y[i]
<1> DEFINE q == FlattenSeq(parts)
           v == ReverseIdx(q)
           z == Restored(y, parts)
<1>1. DOMAIN q = 1 .. m /\ \A j \in 1 .. m : \E i \in 1 .. m : q[i] = j
  BY DEF Orders
<1>2. z = [i \in DOMAIN y |-> y[v[i]]]
  BY DEF Restored, Gathered
<1>3. DOMAIN y = 1 .. m
  BY DEF Column
<1>4. v = [j \in DOMAIN q |-> CHOOSE i \in DOMAIN q : q[i] = j]
  BY DEF ReverseIdx
<1> HIDE DEF z, v, q
<1>5. \A j \in 1 .. m : v[j] \in 1 .. m /\ q[v[j]] = j
  BY <1>1, <1>4
<1>6. Column(z, m) /\ \A j \in 1 .. m : z[j] = y[v[j]]
  BY <1>2, <1>3 DEF Column
<1> QED BY <1>5, <1>6 DEF z, q

\* What belongs to the rows of some data, in the order q takes them in.
TellsOf(c, data, m, q, col, y) ==
  /\ Column(y, m)
  /\ \A j \in 1 .. m : \A t \in 1 .. data.responses[q[j]].response :
       y[j][t] = ScoredAt(c, col, data.responses[q[j]], t)

\* The results of its micro-batches, joined, are those of the rows as they were taken.
LEMMA OutsJoin ==
  ASSUME NEW c, NEW m \in Nat, NEW p \in Nat \ {0}, NEW x, Parted(x.parts, p), Column(x.out, p),
         Reaches(c, x.parts, m), NEW C, Outs(c, x, C), NEW col \in C,
         NEW y, y = FlattenSeq([k \in 1 .. p |-> x.out[k][col]])
  PROVE  TellsOf(c, x.data, m, FlattenSeq(x.parts), col, y)
<1> DEFINE l == [k \in 1 .. p |-> Len(x.parts[k])]
           s == x.parts
           u == [k \in 1 .. p |-> x.out[k][col]]
           q == FlattenSeq(s)
<1>1. \A k \in 1 .. p : l[k] \in Nat /\ Column(s[k], l[k]) /\ l[k] = Len(x.parts[k])
  BY PartsReach
<1>2. DOMAIN x.out = 1 .. p
  BY DEF Column
<1>3. ASSUME NEW k \in 1 .. p
      PROVE  /\ Column(u[k], l[k])
             /\ \A i \in 1 .. l[k] : \A t \in 1 .. x.data.responses[s[k][i]].response :
                  u[k][i][t] = ScoredAt(c, col, x.data.responses[s[k][i]], t)
  <2>1. OutOf(c, x.data, s[k], x.out[k], C)
    BY <1>2 DEF Outs
  <2>2. u[k] = x.out[k][col]
    OBVIOUS
  <2> HIDE DEF u
  <2> QED BY <1>1, <2>1, <2>2 DEF OutOf
<1>4. Lengthy(s, p, l)
  <2>1. Len(s) = p
    BY ColumnIs DEF Parted
  <2> QED BY <1>1, <2>1 DEF Lengthy
<1>5. Lengthy(u, p, l)
  <2>1. Len(u) = p
    OBVIOUS
  <2> QED BY <1>3, <2>1 DEF Lengthy
<1>6. y = FlattenSeq(u)
  OBVIOUS
<1>7. q \in Orders(m)
  BY DEF Reaches
<1> HIDE DEF l, s, u
<1>0. \A k \in 1 .. p : l[k] \in Nat
  BY <1>1
<1>8. PICK n \in Nat : Beside(s, u, p, l, q, y, n)
  BY <1>0, <1>4, <1>5, <1>6, SideBySide
<1>9. n = m
  <2>1. DOMAIN q = 1 .. n /\ DOMAIN q = 1 .. m
    BY <1>7, <1>8 DEF Beside, Column, Orders
  <2> QED BY <2>1
<1>10. ASSUME NEW i \in 1 .. m, NEW t \in 1 .. x.data.responses[q[i]].response
       PROVE  y[i][t] = ScoredAt(c, col, x.data.responses[q[i]], t)
  <2>1. PICK k \in 1 .. p : \E j \in 1 .. l[k] : q[i] = s[k][j] /\ y[i] = u[k][j]
    BY <1>8, <1>9 DEF Beside
  <2>2. PICK j \in 1 .. l[k] : q[i] = s[k][j] /\ y[i] = u[k][j]
    BY <2>1
  <2> QED BY <1>3, <2>2
<1> QED BY <1>8, <1>9, <1>10 DEF q, s, Beside, TellsOf

\* Put back in their order they are those of its rows.
LEMMA RankResultTells ==
  ASSUME cfg \in Configs, InStep(cfg, work), NEW m \in Nat, NEW ph, AtWork(cfg, work, m, ph), ~Running,
         NEW C, C = Asks(cfg, ph), NEW r \in Ranks
  PROVE  Tells(cfg, work[r].data, m, C, RankResult(r))
<1> DEFINE x == work[r]
           q == FlattenSeq(x.parts)
           all == Concat(x.out)
<1>1. r \in 0 .. cfg.world - 1
  BY DEF Ranks
<1>2. PICK p \in Nat \ {0} : \E o \in Nat : Lined(cfg, work, p, o)
  BY DEF InStep
<1>3. PICK o \in Nat : Lined(cfg, work, p, o)
  BY <1>2
<1>4. AtPart(x, p, o)
  BY <1>1, <1>3 DEF Lined
<1>5. RankAtWork(cfg, x, m, ph)
  BY <1>1 DEF AtWork
<1>6. Parted(x.parts, p) /\ Column(x.out, o) /\ Len(x.parts) = p /\ Len(x.out) = o
  BY <1>4, ColumnIs DEF AtPart, Parted
<1>7. o = p
  <2>1. ~(Len(x.out) < Len(x.parts))
    BY DEF Running
  <2>2. DOMAIN x.out = 1 .. o /\ DOMAIN x.parts = 1 .. p
    BY <1>6 DEF Parted, Column
  <2>3. 1 .. o \subseteq 1 .. p
    BY <1>5, <2>2 DEF RankAtWork
  <2> QED BY <1>6, <2>1, <2>3
<1>8. Reaches(cfg, x.parts, m) /\ Outs(cfg, x, C)
  BY <1>5 DEF RankAtWork
<1>9. DOMAIN all = C /\ \A col \in C : all[col] = FlattenSeq([k \in 1 .. p |-> x.out[k][col]])
  <2>1. DOMAIN x.out = 1 .. p /\ 1 \in 1 .. p
    BY <1>6, <1>7 DEF Column
  <2>2. DOMAIN x.out[1] = C
    BY <1>8, <2>1 DEF Outs, OutOf
  <2> HIDE DEF x
  <2> QED BY <2>1, <2>2 DEF Concat
<1>10. ASSUME NEW col \in C
       PROVE  TellsOf(cfg, x.data, m, q, col, all[col])
  <2> DEFINE y == all[col]
  <2>1. y = FlattenSeq([k \in 1 .. p |-> x.out[k][col]]) /\ Column(x.out, p)
    BY <1>6, <1>7, <1>9
  <2> HIDE DEF x, y
  <2> QED BY <1>6, <1>8, <2>1, OutsJoin DEF y
<1>11. q \in Orders(m) /\ (~cfg.dynamic => q = [i \in 1 .. m |-> i])
  BY <1>8 DEF Reaches
<1>12. RankResult(r) = IF cfg.dynamic THEN [col \in DOMAIN all |-> Restored(all[col], x.parts)] ELSE all
  BY DEF RankResult
<1> HIDE DEF x, q, all
<1>13. CASE ~cfg.dynamic
  <2>1. \A j \in 1 .. m : q[j] = j
    BY <1>11, <1>13
  <2>2. RankResult(r) = all
    BY <1>12, <1>13
  <2> QED BY <1>9, <1>10, <2>1, <2>2 DEF Tells, TellsOf, x
<1>14. CASE cfg.dynamic
  <2> DEFINE z == RankResult(r)
  <2>1. DOMAIN z = C /\ \A col \in C : z[col] = Restored(all[col], x.parts)
    BY <1>9, <1>12, <1>14
  <2> HIDE DEF z
  <2>2. ASSUME NEW col \in C
        PROVE  /\ Column(z[col], m)
               /\ \A j \in 1 .. m : \A t \in 1 .. x.data.responses[j].response :
                    z[col][j][t] = ScoredAt(cfg, col, x.data.responses[j], t)
    <3> DEFINE y == all[col]
    <3>1. Column(y, m)
      BY <1>10 DEF TellsOf
    <3> HIDE DEF y
    <3>2. /\ Column(Restored(y, x.parts), m)
          /\ \A j \in 1 .. m : \E i \in 1 .. m : q[i] = j /\ Restored(y, x.parts)[j] = y[i]
      BY <1>11, <3>1, RestoredIs DEF q
    <3> QED BY <1>10, <2>1, <3>2 DEF y, TellsOf
  <2> QED BY <2>1, <2>2 DEF Tells, z, x
<1> QED BY <1>13, <1>14

-----------------------------------------------------------------------------
\* The answers of the ranks, collected.

\* Each line of m rows of x is what a rank answered that they were dealt to.
Brought(outputs, m, C, x) ==
  /\ DOMAIN x = C /\ Table(x, Dp * m)
  /\ \A u \in 0 .. Dp - 1 : \E r \in Ranks :
       DpRank(r) = u /\ \A col \in C : \A i \in 1 .. m : x[col][u * m + i] = outputs[r][col][i]
Answer(outputs, m, C) == \A r \in Ranks : DOMAIN outputs[r] = C /\ Table(outputs[r], m)

\* collect takes one answer for each data-parallel rank, in their order.
LEMMA CollectIs ==
  ASSUME cfg \in Configs, NEW m \in Nat, NEW C, C # {}, NEW outputs, Answer(outputs, m, C)
  PROVE  Brought(outputs, m, C, CollectFrom(outputs))
<1> DEFINE ranks == Increasing(SetToSeq({r \in Ranks : Collects(r)}))
           s == [i \in DOMAIN ranks |-> outputs[ranks[i]]]
           x == CollectFrom(outputs)
           d == Dp
<1>1. d \in Nat \ {0}
  BY MeshIs DEF Meshed
<1>2. DOMAIN ranks = 1 .. d /\ \A i \in 1 .. d : ranks[i] \in Ranks /\ DpRank(ranks[i]) = i - 1
  BY AnsweringRanks
<1>3. x = Concat(s)
  BY DEF CollectFrom
<1> HIDE DEF ranks, x, d
<1>4. DOMAIN s = 1 .. d /\ \A i \in 1 .. d : s[i] = outputs[ranks[i]]
  BY <1>2
<1> HIDE DEF s
<1>5. Batches(s, d, m, C)
  BY <1>2, <1>4 DEF Batches, Answer
<1>6. Stacked(s, d, m, C, x)
  BY <1>1, <1>3, <1>5, ConcatIs
<1>7. ASSUME NEW u \in 0 .. d - 1
      PROVE  \E r \in Ranks :
               DpRank(r) = u /\ \A col \in C : \A i \in 1 .. m : x[col][u * m + i] = outputs[r][col][i]
  <2> DEFINE w == u + 1
  <2>1. w \in 1 .. d /\ w - 1 = u
    BY <1>1
  <2> HIDE DEF w
  <2>2. ranks[w] \in Ranks /\ DpRank(ranks[w]) = u
    BY <1>2, <2>1
  <2>3. ASSUME NEW col \in C, NEW i \in 1 .. m PROVE x[col][u * m + i] = outputs[ranks[w]][col][i]
    <3>1. x[col][(w - 1) * m + i] = s[w][col][i]
      BY <1>6, <2>1 DEF Stacked
    <3> QED BY <1>4, <2>1, <3>1
  <2> QED BY <2>2, <2>3
<1> QED BY <1>6, <1>7 DEF Brought, Stacked, x, d

\* What is stored of each row of a batch.
Adds(c, b, n, x) ==
  /\ DOMAIN x \subseteq PerToken /\ Table(x, n)
  /\ \A col \in DOMAIN x : \A j \in 1 .. n : \A t \in 1 .. b.responses[j].response :
       x[col][j][t] = StoredAt(c, col, b.responses[j], t)
Stores(c, data, m, C, z) ==
  \A col \in C : \A j \in 1 .. m : \A t \in 1 .. data.responses[j].response :
    z[col][j][t] = StoredAt(c, col, data.responses[j], t)

\* What the ranks tell of their rows is told of those of the driver.
LEMMA CollectAdds ==
  ASSUME cfg \in Configs, Dealable, OfBatch(cfg, batch.responses, work, OfRank), NEW C, C # {}, C \subseteq PerToken,
         NEW outputs, Answer(outputs, OfRank, C),
         \A r \in Ranks : Stores(cfg, work[r].data, OfRank, C, outputs[r])
  PROVE  Adds(cfg, batch, Samples(cfg), CollectFrom(outputs)) /\ DOMAIN CollectFrom(outputs) = C
<1> DEFINE m == OfRank
           d == Dp
           n == Samples(cfg)
           x == CollectFrom(outputs)
<1>1. m \in Nat \ {0} /\ d \in Nat \ {0} /\ n = d * m
  <2>1. Sized(cfg) /\ SameSizes(cfg)
    BY SizedIs
  <2> QED BY <2>1 DEF Sized, SameSizes
<1>2. \A r : DealtTo(cfg, r) = DpRank(r)
  BY DEF DealtTo, DpRank, DpOf, Dp
<1> HIDE DEF m
<1>3. Brought(outputs, m, C, x)
  BY <1>1, CollectIs DEF m
<1>4. DOMAIN x = C /\ Table(x, n)
  BY <1>1, <1>3 DEF Brought
<1>5. ASSUME NEW col \in C, NEW j \in 1 .. n, NEW t \in 1 .. batch.responses[j].response
      PROVE  x[col][j][t] = StoredAt(cfg, col, batch.responses[j], t)
  <2>1. PICK u \in 0 .. d - 1 : \E i \in 1 .. m : j = u * m + i
    <3> DEFINE y == j - 1
               u == y \div m
               v == y % m
    <3>1. y \in 0 .. d * m - 1 /\ j = y + 1
      BY <1>1
    <3> HIDE DEF y, d
    <3>2. u \in 0 .. d - 1 /\ v \in 0 .. m - 1 /\ y = u * m + v
      BY <1>1, <3>1, FromZero
    <3> HIDE DEF u, v
    <3>3. u * m \in Nat
      BY <1>1, <3>2
    <3>4. v + 1 \in 1 .. m /\ j = u * m + (v + 1)
      BY <1>1, <3>1, <3>2, <3>3
    <3> QED BY <3>2, <3>4 DEF d
  <2>2. PICK i \in 1 .. m : j = u * m + i
    BY <2>1
  <2>3. PICK r \in Ranks : /\ DpRank(r) = u
                           /\ \A o \in C : \A k \in 1 .. m : x[o][u * m + k] = outputs[r][o][k]
    BY <1>3 DEF Brought
  <2>4. x[col][j] = outputs[r][col][i]
    BY <2>2, <2>3
  <2>5. work[r].data.responses[i] = batch.responses[j]
    BY <1>2, <2>2, <2>3 DEF OfBatch, m, Ranks
  <2>6. Stores(cfg, work[r].data, m, C, outputs[r])
    BY DEF m
  <2> QED BY <2>4, <2>5, <2>6 DEF Stores
<1> QED BY <1>4, <1>5 DEF Adds

\* Joined to the driver's batch it stands where it belongs.
LEMMA JoinedSound ==
  ASSUME NEW c, NEW n \in Nat, NEW b, Sound(c, b, n), NEW x, Adds(c, b, n, x)
  PROVE  /\ Sound(c, Union(b, x), n) /\ DOMAIN Union(b, x) = DOMAIN b \cup DOMAIN x
         /\ Union(b, x).responses = b.responses
         /\ "uid" \in DOMAIN b => Union(b, x).uid = b.uid
<1> DEFINE z == Union(b, x)
<1>1. /\ DOMAIN z = DOMAIN b \cup DOMAIN x
      /\ \A col \in DOMAIN z : z[col] = IF col \in DOMAIN x THEN x[col] ELSE b[col]
  BY DEF Union
<1>2. Table(z, n)
  <2>1. Table(b, n) /\ Table(x, n)
    BY DEF Sound, Adds
  <2> QED BY <2>1, UnionIs
<1>3. "responses" \in DOMAIN b /\ "responses" \notin DOMAIN x /\ "uid" \notin DOMAIN x
  BY DEF Sound, Adds, PerToken
<1>4. z.responses = b.responses /\ ("uid" \in DOMAIN b => z.uid = b.uid)
  BY <1>1, <1>3
<1> HIDE DEF z
<1>5. ASSUME NEW i \in 1 .. n PROVE RowSound(c, z, i)
  <2> DEFINE row == b.responses[i]
  <2>1. RowSound(c, b, i)
    BY DEF Sound
  <2>2. z.responses[i] = row
    BY <1>4
  <2>3. ASSUME NEW col \in PerToken \cap DOMAIN z, NEW t \in 1 .. row.response
        PROVE  z[col][i][t] = StoredAt(c, col, row, t)
    <3>1. CASE col \in DOMAIN x
      BY <1>1, <3>1 DEF Adds
    <3>2. CASE col \notin DOMAIN x
      BY <1>1, <2>1, <3>2 DEF RowSound
    <3> QED BY <3>1, <3>2
  <2>4. Fitting(z.responses[i])
    BY <2>1, <2>2 DEF RowSound
  <2> HIDE DEF row
  <2> QED BY <2>2, <2>3, <2>4 DEF RowSound
<1> QED BY <1>1, <1>2, <1>3, <1>4, <1>5 DEF Sound, z

-----------------------------------------------------------------------------
\* Rows and what is computed for them stay together.

\* A response stands beside the prompt it answers.
Sourced(data, n) == \A i \in 1 .. n : data.responses[i].source = data.uid[i]
FitsAnswers(data) ==
  "responses" \in DOMAIN data =>
    \A i \in 1 .. Rows(data) : Fitting(data.responses[i]) /\ data.responses[i].source = data.uid[i]

\* The workers are asked for an answer to every prompt at least.
Asking(c, ws) == \A w \in 1 .. c.workers : Samples(c) <= c.workers * Rows(ws[w].data) /\ FitsAnswers(ws[w].data)

\* The rows of the batch, and which of its columns it has when.
Paired(names) == "student_top_k_ids" \in names => "student_top_k_log_probs" \in names
Aligned(c, b) ==
  /\ Paired(DOMAIN b)
  /\ "responses" \in DOMAIN b => \E n \in Nat : Sound(c, b, n) /\ Sourced(b, n)
Stored(c, b, ph) ==
  /\ ph \in AfterBalance \ {"log_prob"} => ScoredColumns(c) \subseteq DOMAIN b
  /\ (ph \in {"valued", "credited"} /\ c.estimator = "gae") \/ ph = "update_critic" => "values" \in DOMAIN b

\* The ranks, on shares of the batch where it waits for what they compute.
AtForward(c, b, ws, ph) ==
  /\ ph \in Forwards => \E m \in Nat : AtWork(c, ws, m, ph)
  /\ ph \in {"log_prob", "values"} => OfBatch(c, b.responses, ws, PerRank(c)) /\ AtWork(c, ws, PerRank(c), ph)

\* What every step keeps.
AlignRest ==
  /\ phase = "generating" => DOMAIN batch \cap Told = {} /\ Asking(cfg, work)
  /\ Aligned(cfg, batch)
  /\ Stored(cfg, batch, phase)
  /\ AtForward(cfg, batch, work, phase)
AlignInv == WaitInv /\ AlignRest

\* A batch begins without what the ranks will say of it.
LEMMA BatchNames ==
  ASSUME cfg \in Configs
  PROVE  DOMAIN GenerationBatch \cap Told = {} /\ DOMAIN GenerationBatch \subseteq {"uid", "reward_baselines"}
<1> DEFINE prompts == [p \in 1 .. cfg.prompts |-> p]
           greedy == IF cfg.estimator = "remax"
                       THEN [reward_baselines |-> [p \in DOMAIN prompts |-> GreedyOutcome(p)]] ELSE <<>>
           columns == Union([uid |-> prompts], greedy)
<1>1. DOMAIN greedy \subseteq {"reward_baselines"}
  OBVIOUS
<1>2. DOMAIN [uid |-> prompts] = {"uid"}
  OBVIOUS
<1>3. DOMAIN columns = {"uid"} \cup DOMAIN greedy
  <2> HIDE DEF greedy, prompts
  <2> QED BY <1>2 DEF Union
<1>4. DOMAIN GenerationBatch = DOMAIN columns
  BY DEF GenerationBatch, Reorder, Repeat, SelectIdxs
<1> HIDE DEF columns, greedy
<1> QED BY <1>1, <1>3, <1>4 DEF Told, PerToken

\* The call of the workers.
LEMMA CallGenerateAligns ==
  ASSUME AlignInv, CallGenerate
  PROVE  AlignRest'
<1> DEFINE k == cfg.workers
           b == Select(PaddedPrompts, {"uid"})
           own == Chunk(b, k)
           size == Rows(PaddedPrompts) \div k
<1>1. /\ cfg \in Configs /\ cfg' = cfg /\ batch' = GenerationBatch /\ phase' = "generating"
      /\ CanChunk(PaddedPrompts, k)
      /\ work' = [w \in 1 .. k |-> [first |-> (w - 1) * size, data |-> own[w]]]
  BY DEF AlignInv, WaitInv, BalanceInv, CallGenerate
<1>2. PICK r \in Nat : Prompted(r)
  BY <1>1, PaddedPromptsAre
<1>3. Rows(PaddedPrompts) = r /\ k \in Nat \ {0}
  BY <1>1, <1>2, TableRows, KnownConfig DEF Prompted
<1> DEFINE m == r \div k
<1>4. r % k = 0 /\ m \in Nat /\ k * m = r
  BY <1>1, <1>3, Shares DEF CanChunk
<1>5. Table(b, r) /\ DOMAIN b = {"uid"}
  BY <1>2 DEF Prompted, Select, Table
<1> HIDE DEF b, m
<1>6. Chunked(b, k, m, own)
  BY <1>3, <1>4, <1>5, ChunkIs DEF m
<1> HIDE DEF own, size
<1>7. ASSUME NEW w \in 1 .. k
      PROVE  Samples(cfg) <= k * Rows(work'[w].data) /\ FitsAnswers(work'[w].data)
  <2>1. work'[w].data = own[w]
    BY <1>1
  <2>2. DOMAIN own[w] = {"uid"} /\ Table(own[w], m)
    BY <1>5, <1>6 DEF Chunked
  <2>3. Rows(own[w]) = m
    BY <1>4, <2>2, TableRows
  <2>4. Samples(cfg) <= k * m
    BY <1>2, <1>4 DEF Prompted
  <2> QED BY <2>1, <2>2, <2>3, <2>4 DEF FitsAnswers
<1>8. DOMAIN batch' \cap Told = {}
  BY <1>1, BatchNames
<1>9. Aligned(cfg', batch')
  BY <1>8 DEF Aligned, Paired, Told, PerToken
<1>10. Asking(cfg', work')
  BY <1>1, <1>7 DEF Asking
<1> QED BY <1>1, <1>8, <1>9, <1>10 DEF AlignRest, Stored, AtForward, AfterBalance, Forwards

\* A worker answers.
LEMMA GenerateAligns ==
  ASSUME AlignInv, phase = "generating", NEW w \in DOMAIN work, Generate(w)
  PROVE  AlignRest'
<1>1. cfg' = cfg /\ batch' = batch /\ phase' = phase /\ cfg \in Configs
  BY DEF AlignInv, WaitInv, BalanceInv, Generate
<1>2. PICK m \in Nat : Working(cfg, work, m)
  BY DEF AlignInv, WaitInv, BalanceInv, Generating
<1>3. /\ w \in 1 .. cfg.workers /\ DOMAIN work = 1 .. cfg.workers
      /\ work[w] = [first |-> work[w].first, data |-> work[w].data] /\ Asked(work[w].data, m)
  BY <1>2 DEF Working
<1>4. Rows(work[w].data) = m
  BY <1>3, TableRows DEF Asked
<1>5. PICK shapes \in [1 .. m -> Shapes] :
        work' = [work EXCEPT ![w].data =
                   [uid |-> @.uid,
                    responses |-> [i \in DOMAIN shapes |-> [id       |-> work[w].first + i,
                                                            source   |-> work[w].data.uid[i],
                                                            prompt   |-> shapes[i].prompt,
                                                            response |-> shapes[i].response,
                                                            valid    |-> shapes[i].valid]]]]
  BY <1>4 DEF Generate
<1> DEFINE rows == [i \in 1 .. m |-> [id       |-> work[w].first + i,
                                      source   |-> work[w].data.uid[i],
                                      prompt   |-> shapes[i].prompt,
                                      response |-> shapes[i].response,
                                      valid    |-> shapes[i].valid]]
           data == [uid |-> work[w].data.uid, responses |-> rows]
<1>6. ASSUME NEW i \in 1 .. m
      PROVE  Fitting(rows[i]) /\ rows[i].source = work[w].data.uid[i]
  <2>1. /\ shapes[i] \in Shapes /\ rows[i].prompt = shapes[i].prompt /\ rows[i].response = shapes[i].response
        /\ rows[i].valid = shapes[i].valid /\ rows[i].source = work[w].data.uid[i]
    OBVIOUS
  <2> HIDE DEF rows
  <2>2. /\ shapes[i].prompt \in 1 .. PromptLength /\ shapes[i].response \in 1 .. ResponseLength
        /\ shapes[i].valid \subseteq 1 .. shapes[i].response
    BY <2>1, ShapesAssumption
  <2> QED BY <2>1, <2>2 DEF Fitting
<1>7. work' = [work EXCEPT ![w].data = data]
  BY <1>3, <1>5
<1>8. Column(rows, m)
  BY DEF Column
<1> HIDE DEF rows
<1>9. DOMAIN data = {"uid", "responses"} /\ data.uid = work[w].data.uid /\ data.responses = rows
  OBVIOUS
<1> HIDE DEF data
<1>10. Rows(data) = m
  <2>1. Column(data.uid, m)
    BY <1>3, <1>9 DEF Asked, Table
  <2>2. Table(data, m)
    BY <1>8, <1>9, <2>1 DEF Table
  <2> QED BY <2>2, TableRows
<1>11. FitsAnswers(data)
  BY <1>6, <1>9, <1>10 DEF FitsAnswers
<1>12. ASSUME NEW x \in 1 .. cfg.workers
       PROVE  Samples(cfg) <= cfg.workers * Rows(work'[x].data) /\ FitsAnswers(work'[x].data)
  <2>1. \A y \in 1 .. cfg.workers :
          Samples(cfg) <= cfg.workers * Rows(work[y].data) /\ FitsAnswers(work[y].data)
    BY DEF AlignInv, AlignRest, Asking
  <2>2. CASE x = w
    <3>1. work'[x].data = data
      BY <1>3, <1>7, <2>2
    <3> QED BY <1>3, <1>4, <1>10, <1>11, <2>1, <3>1
  <2>3. CASE x # w
    <3>1. work'[x] = work[x]
      BY <1>3, <1>7, <2>3
    <3> QED BY <2>1, <3>1
  <2> QED BY <2>2, <2>3
<1>13. Asking(cfg', work')
  BY <1>1, <1>12 DEF Asking
<1> QED BY <1>1, <1>13 DEF AlignInv, AlignRest, Stored, AtForward, AfterBalance, Forwards

-----------------------------------------------------------------------------
\* The answers come together, and are balanced.

\* A batch of answers as the workers gave them, n rows of it at the least.
AnsweredBy(b, n) ==
  /\ DOMAIN b = {"uid", "responses"} /\ Table(b, n)
  /\ \A i \in 1 .. n : Fitting(b.responses[i]) /\ b.responses[i].source = b.uid[i]

\* All the answers of the workers.
LEMMA AnswersJoin ==
  ASSUME AlignInv, CollectGenerate
  PROVE  \E r \in Nat : /\ AnsweredBy(Concat([w \in DOMAIN work |-> work[w].data]), r)
                        /\ Samples(cfg) <= r /\ (~cfg.validate => r = Samples(cfg))
<1> DEFINE s == [w \in DOMAIN work |-> work[w].data]
           all == Concat(s)
           k == cfg.workers
           C == {"uid", "responses"}
<1>1. phase = "generating" /\ cfg \in Configs
  BY DEF AlignInv, WaitInv, BalanceInv, CollectGenerate
<1>2. PICK m \in Nat : Working(cfg, work, m)
  BY <1>1 DEF AlignInv, WaitInv, BalanceInv, Generating
<1>3. k \in Nat \ {0} /\ (~cfg.validate => k * m = Samples(cfg))
  BY <1>1, <1>2, KnownConfig DEF Working
<1>4. DOMAIN s = 1 .. k /\ \A w \in 1 .. k : s[w] = work[w].data
  BY <1>2 DEF Working
<1> HIDE DEF s
<1>5. ASSUME NEW w \in 1 .. k
      PROVE  /\ DOMAIN s[w] = C /\ Table(s[w], m) /\ Samples(cfg) <= k * m
             /\ \A i \in 1 .. m : Fitting(s[w].responses[i]) /\ s[w].responses[i].source = s[w].uid[i]
  <2> DEFINE data == work[w].data
  <2>1. s[w] = data /\ Asked(data, m) /\ "responses" \in DOMAIN data
    BY <1>2, <1>4 DEF CollectGenerate, Working
  <2>2. Samples(cfg) <= k * Rows(data) /\ FitsAnswers(data)
    BY <1>1 DEF AlignInv, AlignRest, Asking
  <2> HIDE DEF data
  <2>3. Rows(data) = m
    BY <2>1, TableRows DEF Asked
  <2>4. DOMAIN data = C /\ Table(data, m)
    BY <2>1 DEF Asked
  <2> QED BY <2>1, <2>2, <2>3, <2>4 DEF FitsAnswers
<1> DEFINE r == k * m
<1>6. r \in Nat /\ Samples(cfg) <= r
  <2>1. 1 \in 1 .. k /\ r \in Nat
    BY <1>3
  <2> QED BY <1>5, <2>1
<1> HIDE DEF k
<1>7. Stacked(s, k, m, C, all)
  <2>1. Batches(s, k, m, C)
    BY <1>4, <1>5 DEF Batches
  <2> HIDE DEF C
  <2> QED BY <1>3, <2>1, ConcatIs
<1> HIDE DEF all
<1>8. ASSUME NEW x \in 1 .. r PROVE Fitting(all.responses[x]) /\ all.responses[x].source = all.uid[x]
  <2>1. \A y \in 1 .. k * m : \E a \in 0 .. k - 1 : \E i \in 1 .. m : y = a * m + i
    <3>1. m # 0
      <4> SUFFICES ASSUME m = 0 PROVE FALSE
        OBVIOUS
      <4>1. k * m = 0
        BY <1>3
      <4> QED BY <4>1
    <3>2. m \in Nat \ {0} /\ k \in Nat
      BY <1>3, <3>1
    <3> QED BY <3>2, LineAndPlace
  <2>2. PICK a \in 0 .. k - 1 : \E i \in 1 .. m : x = a * m + i
    BY <2>1
  <2>3. PICK i \in 1 .. m : x = a * m + i
    BY <2>2
  <2> DEFINE w == a + 1
  <2>4. w \in 1 .. k /\ w - 1 = a
    BY <1>3
  <2> HIDE DEF w
  <2>5. "uid" \in C /\ "responses" \in C
    OBVIOUS
  <2>6. \A c \in C : all[c][(w - 1) * m + i] = s[w][c][i]
    BY <1>7, <2>4 DEF Stacked
  <2>7. all["responses"][x] = s[w]["responses"][i] /\ all["uid"][x] = s[w]["uid"][i]
    BY <2>3, <2>4, <2>5, <2>6
  <2>8. all.responses[x] = s[w].responses[i] /\ all.uid[x] = s[w].uid[i]
    BY <2>7
  <2> QED BY <1>5, <2>4, <2>8
<1>9. AnsweredBy(all, r)
  BY <1>7, <1>8 DEF AnsweredBy, Stacked
<1> QED BY <1>3, <1>6, <1>9 DEF all, s

\* Joined to the batch of the prompts.
LEMMA AnswersAlign ==
  ASSUME NEW c, NEW n \in Nat, NEW b, Table(b, n), DOMAIN b \cap Told = {}, NEW own, AnsweredBy(own, n)
  PROVE  Sound(c, Union(b, own), n) /\ Sourced(Union(b, own), n)
<1> DEFINE z == Union(b, own)
<1>1. Table(z, n) /\ DOMAIN z = DOMAIN b \cup {"uid", "responses"}
  <2>1. Table(own, n) /\ DOMAIN own = {"uid", "responses"}
    BY DEF AnsweredBy
  <2> QED BY <2>1, UnionIs
<1>2. z.uid = own.uid /\ z.responses = own.responses
  BY DEF Union, AnsweredBy
<1> HIDE DEF z
<1>3. PerToken \cap DOMAIN z = {}
  BY <1>1 DEF Told, PerToken
<1>4. ASSUME NEW i \in 1 .. n PROVE RowSound(c, z, i) /\ z.responses[i].source = z.uid[i]
  BY <1>2, <1>3 DEF RowSound, AnsweredBy
<1> QED BY <1>1, <1>4 DEF Sound, Sourced, z

\* What is left of them without the padding.
LEMMA CollectGenerateAligns ==
  ASSUME AlignInv, CollectGenerate
  PROVE  AlignRest' /\ DOMAIN batch' = DOMAIN batch \cup {"uid", "responses"}
<1> DEFINE all == Concat([w \in DOMAIN work |-> work[w].data])
           n == Samples(cfg)
           own == IF cfg.validate THEN Unpad(all, Rows(all) - Rows(batch)) ELSE all
<1>1. /\ phase = "generating" /\ cfg \in Configs /\ cfg' = cfg /\ batch' = Union(batch, own)
      /\ phase' \in {"done", "generated"} /\ Table(batch, n)
  BY DEF AlignInv, WaitInv, BalanceInv, CollectGenerate
<1>2. PICK r \in Nat : AnsweredBy(all, r) /\ n <= r /\ (~cfg.validate => r = n)
  BY AnswersJoin
<1>3. n \in Nat /\ DOMAIN batch \cap Told = {}
  BY <1>1, KnownConfig DEF AlignInv, AlignRest
<1> HIDE DEF all, n
<1>4. AnsweredBy(own, n)
  <2>1. CASE ~cfg.validate
    BY <1>2, <2>1
  <2>2. CASE cfg.validate
    <3> DEFINE x == Slice(all, 0 + 1, 0 + n)
               q == [i \in 1 .. n |-> 0 + i]
    <3>1. Table(all, r)
      BY <1>2 DEF AnsweredBy
    <3>2. Rows(all) = r /\ Rows(batch) = n
      BY <1>1, <1>3, <3>1, TableRows
    <3>3. own = x
      <4>1. r - (r - n) = n /\ 0 + 1 = 1 /\ 0 + n = n
        BY <1>3
      <4> QED BY <2>2, <3>2, <4>1 DEF Unpad
    <3>4. 0 \in Nat /\ 0 + n <= r
      BY <1>2, <1>3
    <3>5. Picked(all, q, n, x)
      BY <1>3, <3>1, <3>4, CutOut
    <3>6. \A i \in 1 .. n : q[i] = i /\ i \in 1 .. r
      BY <1>2, <1>3
    <3> HIDE DEF x, q, own
    <3>7. DOMAIN x = {"uid", "responses"} /\ Table(x, n)
      BY <1>2, <3>5 DEF Picked, AnsweredBy
    <3>8. \A i \in 1 .. n : x["responses"][i] = all["responses"][i] /\ x["uid"][i] = all["uid"][i]
      BY <1>2, <3>5, <3>6 DEF Picked, AnsweredBy
    <3>9. \A i \in 1 .. n : x.responses[i] = all.responses[i] /\ x.uid[i] = all.uid[i]
      BY <3>8
    <3>10. AnsweredBy(x, n)
      BY <1>2, <3>6, <3>7, <3>9 DEF AnsweredBy
    <3> QED BY <3>3, <3>10
  <2> QED BY <2>1, <2>2
<1> HIDE DEF own
<1>5. Sound(cfg, batch', n) /\ Sourced(batch', n)
  BY <1>1, <1>3, <1>4, AnswersAlign
<1>6. DOMAIN batch' = DOMAIN batch \cup {"uid", "responses"}
  BY <1>1, <1>4 DEF AnsweredBy, Union
<1>7. Aligned(cfg', batch')
  <2>1. Paired(DOMAIN batch')
    BY <1>3, <1>6 DEF Paired, Told, PerToken
  <2> QED BY <1>1, <1>3, <1>5, <2>1 DEF Aligned
<1> QED BY <1>1, <1>6, <1>7 DEF AlignRest, Stored, AtForward, AfterBalance, Forwards

\* The rows of a batch of answers are sound, and as many as the samples.
LEMMA BatchSound ==
  ASSUME AlignInv, cfg \in Configs, Held(cfg, batch)
  PROVE  Sound(cfg, batch, Samples(cfg)) /\ Sourced(batch, Samples(cfg))
<1> DEFINE n == Samples(cfg)
<1>1. Table(batch, n) /\ "responses" \in DOMAIN batch /\ n \in Nat
  BY KnownConfig DEF Held
<1>2. PICK k \in Nat : Sound(cfg, batch, k) /\ Sourced(batch, k)
  BY <1>1 DEF AlignInv, AlignRest, Aligned
<1>3. Rows(batch) = k
  BY <1>2, TableRows DEF Sound
<1>4. Rows(batch) = n
  BY <1>1, TableRows
<1> QED BY <1>2, <1>3, <1>4

\* The batch is balanced row by row.
LEMMA BalanceAligns ==
  ASSUME AlignInv, Balance
  PROVE  AlignRest'
<1> DEFINE n == Samples(cfg)
           q == BalancedOrder(Lengths(batch), cfg.world)
<1>1. phase = "generated" /\ phase' = "balanced" /\ cfg' = cfg /\ cfg \in Configs /\ Held(cfg, batch)
  BY DEF AlignInv, WaitInv, BalanceInv, Balance
<1>2. Table(batch, n) /\ "responses" \in DOMAIN batch /\ n \in Nat /\ "uid" \in DOMAIN batch
  BY <1>1, KnownConfig DEF Held, AlignInv, WaitInv, WaitRest
<1>3. Sound(cfg, batch, n) /\ Sourced(batch, n)
  BY <1>1, BatchSound
<1>4. Aligned(cfg', batch')
  <2>1. CASE ~cfg.balance
    <3>1. batch' = batch
      BY <2>1 DEF Balance
    <3> QED BY <1>1, <3>1 DEF AlignInv, AlignRest
  <2>2. CASE cfg.balance
    <3>1. q \in Orders(n) /\ Picked(batch, q, n, batch')
      BY <2>2, BalanceMoves DEF AlignInv, WaitInv
    <3> HIDE DEF q, n
    <3>2. \A i \in 1 .. n : q[i] \in 1 .. n
      BY <3>1 DEF Orders
    <3>3. Sound(cfg, batch', n)
      BY <1>2, <1>3, <3>1, <3>2, PickedSound
    <3>4. \A i \in 1 .. n : batch'["responses"][i] = batch["responses"][q[i]] /\ batch'["uid"][i] = batch["uid"][q[i]]
      BY <1>2, <3>1 DEF Picked
    <3>5. \A i \in 1 .. n : batch'.responses[i] = batch.responses[q[i]] /\ batch'.uid[i] = batch.uid[q[i]]
      BY <3>4
    <3>6. Sourced(batch', n)
      BY <1>3, <3>2, <3>5 DEF Sourced
    <3>7. Paired(DOMAIN batch')
      BY <3>1 DEF Picked, AlignInv, AlignRest, Aligned
    <3> QED BY <1>1, <1>2, <3>3, <3>6, <3>7 DEF Aligned
  <2> QED BY <2>1, <2>2
<1> QED BY <1>1, <1>4 DEF AlignRest, Stored, AtForward, AfterBalance, Forwards

-----------------------------------------------------------------------------
\* What the driver adds itself.

\* The batch while the model is trained.
LEMMA TrainingSound ==
  ASSUME AlignInv, phase \in AfterBalance
  PROVE  /\ cfg \in Configs /\ Dealable /\ "uid" \in DOMAIN batch /\ Samples(cfg) \in Nat
         /\ Sound(cfg, batch, Samples(cfg)) /\ Sourced(batch, Samples(cfg))
<1>1. cfg \in Configs /\ Dealable
  BY InTraining DEF AlignInv
<1>2. Held(cfg, batch) /\ "uid" \in DOMAIN batch
  BY <1>1 DEF Dealable
<1> QED BY <1>1, <1>2, BatchSound, KnownConfig

\* Columns the ranks do not compute change nothing.
LEMMA WiderAligns ==
  ASSUME NEW c, NEW n \in Nat, NEW b, Sound(c, b, n), Sourced(b, n), "uid" \in DOMAIN b,
         NEW o, Table(o, n), DOMAIN o \cap Told = {}, "uid" \notin DOMAIN o
  PROVE  /\ Sound(c, Union(b, o), n) /\ Sourced(Union(b, o), n)
         /\ DOMAIN Union(b, o) = DOMAIN b \cup DOMAIN o
<1> DEFINE z == Union(b, o)
<1>1. Sound(c, z, n) /\ DOMAIN z = DOMAIN b \cup DOMAIN o
  BY WiderSound
<1>2. "responses" \in DOMAIN b /\ "responses" \notin DOMAIN o
  BY DEF Sound, Told
<1>3. z.responses = b.responses /\ z.uid = b.uid
  BY <1>2 DEF Union
<1> HIDE DEF z
<1> QED BY <1>1, <1>3 DEF Sourced, z

\* The advantages.
LEMMA ComputeAdvantageAligns ==
  ASSUME AlignInv, ComputeAdvantage
  PROVE  AlignRest' /\ DOMAIN batch' = DOMAIN batch \cup {"advantages", "returns"}
<1> DEFINE o == Estimate(cfg.estimator, EstimatorData)
           n == Samples(cfg)
<1>1. /\ phase = (IF UsesCritic THEN "valued" ELSE "scored") /\ phase' = "credited" /\ cfg' = cfg
      /\ batch' = Union(batch, o)
  BY DEF ComputeAdvantage
<1>2. phase \in AfterBalance \ {"log_prob"}
  BY <1>1 DEF AfterBalance
<1>3. /\ cfg \in Configs /\ Dealable /\ "uid" \in DOMAIN batch /\ n \in Nat
      /\ Sound(cfg, batch, n) /\ Sourced(batch, n)
  BY <1>2, TrainingSound
<1>4. Credited(o, n)
  BY <1>3, AdvantageIs
<1> HIDE DEF o, n
<1>5. Table(o, n) /\ DOMAIN o \cap Told = {} /\ "uid" \notin DOMAIN o
  BY <1>4 DEF Credited, Told, PerToken
<1>6. Sound(cfg, batch', n) /\ Sourced(batch', n) /\ DOMAIN batch' = DOMAIN batch \cup DOMAIN o
  BY <1>1, <1>3, <1>5, WiderAligns
<1>7. Aligned(cfg', batch')
  <2>1. Paired(DOMAIN batch')
    BY <1>5, <1>6 DEF AlignInv, AlignRest, Aligned, Paired, Told, PerToken
  <2> QED BY <1>1, <1>3, <1>6, <2>1 DEF Aligned
<1>8. ScoredColumns(cfg) \subseteq DOMAIN batch /\ (cfg.estimator = "gae" => "values" \in DOMAIN batch)
  BY <1>1, <1>2 DEF AlignInv, AlignRest, Stored, UsesCritic
<1>9. Stored(cfg', batch', phase')
  BY <1>1, <1>6, <1>8 DEF Stored
<1>10. DOMAIN o = {"advantages", "returns"}
  BY <1>4 DEF Credited
<1> QED BY <1>1, <1>6, <1>7, <1>9, <1>10 DEF AlignRest, AtForward, Forwards

\* The divergences, and the mask of the tokens that are selected.
LEMMA RankAligns ==
  ASSUME AlignInv, Rank
  PROVE  AlignRest'
<1> DEFINE n == Samples(cfg)
           x == [i \in 1 .. Rows(batch) |->
                   [t \in 1 .. ResponseLength |-> Divergence(batch.responses[i].id, t)]]
           js == [js_divergence |-> x]
           data == Union(batch, js)
           y == MaskColumn(data, BatchAggregated(data))
           mask == [js_token_selection_mask |-> y]
<1>1. /\ phase \in {"criticized", "credited"} /\ phase' = "ranked" /\ cfg' = cfg
      /\ batch' = IF cfg.batchAgg THEN Union(data, mask) ELSE data
  BY DEF Rank
<1>2. phase \in AfterBalance \ {"log_prob"}
  BY <1>1 DEF AfterBalance
<1>3. /\ cfg \in Configs /\ Dealable /\ "uid" \in DOMAIN batch /\ n \in Nat
      /\ Sound(cfg, batch, n) /\ Sourced(batch, n)
  BY <1>2, TrainingSound
<1>4. Column(x, n)
  <2>1. Rows(batch) = n
    BY <1>3, TableRows DEF Sound
  <2> QED BY <2>1 DEF Column
<1>5. DOMAIN js = {"js_divergence"} /\ js.js_divergence = x
  OBVIOUS
<1>6. DOMAIN mask = {"js_token_selection_mask"} /\ mask.js_token_selection_mask = y
  OBVIOUS
<1> HIDE DEF x, js, mask, n
<1>7. Table(js, n) /\ DOMAIN js \cap Told = {} /\ "uid" \notin DOMAIN js
  BY <1>4, <1>5 DEF Table, Told, PerToken
<1>8. Sound(cfg, data, n) /\ Sourced(data, n) /\ DOMAIN data = DOMAIN batch \cup DOMAIN js
  BY <1>3, <1>7, WiderAligns
<1> HIDE DEF data
<1>9. Column(y, n)
  <2>1. Rows(data) = n
    BY <1>3, <1>8, TableRows DEF Sound
  <2> QED BY <2>1 DEF MaskColumn, Column
<1> HIDE DEF y
<1>10. Table(mask, n) /\ DOMAIN mask \cap Told = {} /\ "uid" \notin DOMAIN mask
  BY <1>6, <1>9 DEF Table, Told, PerToken
<1>11. /\ Sound(cfg, Union(data, mask), n) /\ Sourced(Union(data, mask), n)
       /\ DOMAIN Union(data, mask) = DOMAIN data \cup DOMAIN mask
  BY <1>3, <1>8, <1>10, WiderAligns
<1>12. /\ Sound(cfg, batch', n) /\ Sourced(batch', n) /\ DOMAIN batch \subseteq DOMAIN batch'
       /\ DOMAIN batch' \cap Told \subseteq DOMAIN batch
  BY <1>1, <1>7, <1>8, <1>10, <1>11
<1>13. Aligned(cfg', batch')
  <2>1. Paired(DOMAIN batch')
    BY <1>12 DEF AlignInv, AlignRest, Aligned, Paired, Told, PerToken
  <2> QED BY <1>1, <1>3, <1>12, <2>1 DEF Aligned
<1>14. ScoredColumns(cfg) \subseteq DOMAIN batch
  BY <1>2 DEF AlignInv, AlignRest, Stored
<1>15. Stored(cfg', batch', phase')
  BY <1>1, <1>12, <1>14 DEF Stored
<1> QED BY <1>1, <1>13, <1>15 DEF AlignRest, AtForward, Forwards

-----------------------------------------------------------------------------
\* The calls of the worker groups.

\* At the end of a step only the batch is left.
LEMMA EndsAlign ==
  ASSUME phase' \in {"raised", "failed", "done"}, Aligned(cfg', batch')
  PROVE  AlignRest'
BY DEF AlignRest, Stored, AtForward, AfterBalance, Forwards

\* compute_log_prob and compute_values begin.
LEMMA CallAligns ==
  ASSUME cfg \in Configs, Dealable, Sound(cfg, batch, Samples(cfg)), Aligned(cfg, batch),
         NEW next \in {"log_prob", "values"}, next = "values" => ScoredColumns(cfg) \subseteq DOMAIN batch,
         Begin(DispatchTo(Select(batch, {"responses"})), next), cfg' = cfg, batch' = batch
  PROVE  AlignRest'
<1> DEFINE g == DispatchTo(Select(batch, {"responses"}))
           m == OfRank
<1>1. m \in Nat \ {0}
  BY NumbersAre
<1>2. Brings(cfg, next) = {}
  BY DEF Brings
<1>3. /\ Deal(cfg, g, m, next)
      /\ \A r \in Ranks : \A i \in 1 .. m : g[r].responses[i] = batch.responses[DealtTo(cfg, r) * m + i]
  BY <1>2, CallDeals
<1>4. Begin(g, next)
  OBVIOUS
<1> HIDE DEF g, m
<1>5. CASE phase' = "raised"
  BY <1>5, EndsAlign
<1>6. CASE phase' # "raised"
  <2>1. phase' = next /\ AtWork(cfg, work', m, next) /\ \A r \in Ranks : work'[r].data = g[r]
    BY <1>1, <1>3, <1>4, <1>6, BeginAligned, LengthsAssumption
  <2>2. PerRank(cfg) = m
    BY SizedIs DEF SameSizes, m
  <2>3. OfBatch(cfg, batch.responses, work', m)
    BY <1>3, <2>1 DEF OfBatch, Ranks
  <2>4. AtForward(cfg', batch', work', phase')
    <3>1. m \in Nat
      BY <1>1
    <3> QED BY <2>1, <2>2, <2>3, <3>1 DEF AtForward
  <2>5. Stored(cfg', batch', phase')
    BY <2>1 DEF Stored
  <2> QED BY <2>1, <2>4, <2>5 DEF AlignRest
<1> QED BY <1>5, <1>6

\* compute_log_prob is called of a batch that divides evenly.
LEMMA CallLogProbAligns ==
  ASSUME AlignInv, CallLogProb
  PROVE  AlignRest'
<1>1. /\ phase = "balanced" /\ CanChunk(batch, Dp) /\ cfg' = cfg /\ batch' = batch
      /\ Begin(DispatchTo(Select(batch, {"responses"})), "log_prob")
  BY DEF CallLogProb
<1>2. cfg \in Configs /\ Held(cfg, batch) /\ "uid" \in DOMAIN batch
  BY <1>1 DEF AlignInv, WaitInv, WaitRest, BalanceInv
<1>3. Rows(batch) = Samples(cfg)
  BY <1>2, KnownConfig, TableRows DEF Held
<1>4. Dealable
  BY <1>1, <1>2, <1>3 DEF Dealable, CanChunk
<1>5. Sound(cfg, batch, Samples(cfg)) /\ Aligned(cfg, batch)
  BY <1>2, BatchSound DEF AlignInv, AlignRest
<1>6. "log_prob" \in {"log_prob", "values"} /\ "log_prob" # "values"
  OBVIOUS
<1> QED BY <1>1, <1>2, <1>4, <1>5, <1>6, CallAligns

\* compute_values of a scored one.
LEMMA CallValuesAligns ==
  ASSUME AlignInv, CallValues
  PROVE  AlignRest'
<1>1. /\ phase = "scored" /\ cfg' = cfg /\ batch' = batch
      /\ Begin(DispatchTo(Select(batch, {"responses"})), "values")
  BY DEF CallValues
<1>2. phase \in AfterBalance
  BY <1>1 DEF AfterBalance
<1>3. cfg \in Configs /\ Dealable /\ Sound(cfg, batch, Samples(cfg))
  BY <1>2, TrainingSound
<1>4. ScoredColumns(cfg) \subseteq DOMAIN batch /\ Aligned(cfg, batch)
  BY <1>1, <1>2 DEF AlignInv, AlignRest, Stored
<1>5. "values" \in {"log_prob", "values"}
  OBVIOUS
<1> QED BY <1>1, <1>3, <1>4, <1>5, CallAligns

\* A mini-batch begins.
LEMMA MiniBatchAligns ==
  ASSUME cfg \in Configs, Dealable, Sound(cfg, batch, Samples(cfg)), Aligned(cfg, batch),
         NEW model, NeededBy(model) \subseteq DOMAIN batch, ScoredColumns(cfg) \subseteq DOMAIN batch,
         NEW next \in {"update_critic", "update"}, Brings(cfg, next) = NeededBy(model),
         NEW k \in 1 .. MiniBatches, NEW epoch \in Int,
         Begin(MiniBatch(k, epoch, model), next), cfg' = cfg, batch' = batch
  PROVE  AlignRest'
<1> DEFINE g == MiniBatch(k, epoch, model)
<1>1. PICK m \in Nat \ {0} : Deal(cfg, g, m, next)
  BY MiniBatchSound
<1>2. Begin(g, next)
  OBVIOUS
<1> HIDE DEF g
<1>3. CASE phase' = "raised"
  BY <1>3, EndsAlign
<1>4. CASE phase' # "raised"
  <2>1. phase' = next /\ AtWork(cfg, work', m, next)
    BY <1>1, <1>2, <1>4, BeginAligned, LengthsAssumption
  <2>2. AtForward(cfg', batch', work', phase')
    <3>1. m \in Nat
      OBVIOUS
    <3> QED BY <2>1, <3>1 DEF AtForward
  <2>3. "values" \in DOMAIN batch \/ next # "update_critic"
    BY DEF Brings
  <2>4. Stored(cfg', batch', phase')
    BY <2>1, <2>3 DEF Stored
  <2> QED BY <2>1, <2>2, <2>4 DEF AlignRest
<1> QED BY <1>3, <1>4

\* update_critic and update_policy begin with the first.
LEMMA CallUpdateAligns ==
  ASSUME cfg \in Configs, Dealable, Sound(cfg, batch, Samples(cfg)), Aligned(cfg, batch),
         NEW model, NeededBy(model) \subseteq DOMAIN batch, ScoredColumns(cfg) \subseteq DOMAIN batch,
         NEW next \in {"update_critic", "update"}, Brings(cfg, next) = NeededBy(model),
         NEW share, CallUpdateOf(model, share, next)
  PROVE  AlignRest'
<1>1. cfg' = cfg /\ batch' = batch
  BY DEF CallUpdateOf
<1>2. CASE CanIterate(share)
  <2>1. Begin(MiniBatch(1, 0, model), next)
    BY <1>2 DEF CallUpdateOf
  <2>2. 1 \in 1 .. MiniBatches /\ 0 \in Int
    <3>1. MiniBatches \in Nat \ {0}
      BY NumbersAre
    <3> QED BY <3>1
  <2> QED BY <1>1, <2>1, <2>2, MiniBatchAligns
<1>3. CASE ~CanIterate(share)
  <2>1. phase' = "raised"
    BY <1>3 DEF CallUpdateOf
  <2> QED BY <1>1, <2>1, EndsAlign
<1> QED BY <1>2, <1>3

\* The critic's, with the values it gave.
LEMMA CallCriticAligns ==
  ASSUME AlignInv, CallCritic
  PROVE  AlignRest'
<1>1. phase = "credited" /\ cfg.estimator = "gae" /\ CallUpdateOf("critic", CriticShare(0), "update_critic")
  BY DEF CallCritic, UsesCritic
<1>2. phase \in AfterBalance \ {"log_prob"}
  BY <1>1 DEF AfterBalance
<1>3. cfg \in Configs /\ Dealable /\ Sound(cfg, batch, Samples(cfg))
  BY <1>2, TrainingSound
<1>4. Aligned(cfg, batch) /\ ScoredColumns(cfg) \subseteq DOMAIN batch /\ "values" \in DOMAIN batch
  BY <1>1, <1>2 DEF AlignInv, AlignRest, Stored
<1>5. NeededBy("critic") \subseteq DOMAIN batch /\ Brings(cfg, "update_critic") = NeededBy("critic")
  BY <1>4 DEF NeededBy, Brings
<1> QED BY <1>1, <1>3, <1>4, <1>5, CallUpdateAligns

\* And the actor's, with the log-probabilities.
LEMMA CallActorAligns ==
  ASSUME AlignInv, CallUpdate
  PROVE  AlignRest'
<1>1. phase = "ranked" /\ CallUpdateOf("actor", UpdateShare(0), "update")
  BY DEF CallUpdate
<1>2. phase \in AfterBalance \ {"log_prob"}
  BY <1>1 DEF AfterBalance
<1>3. cfg \in Configs /\ Dealable /\ Sound(cfg, batch, Samples(cfg))
  BY <1>2, TrainingSound
<1>4. Aligned(cfg, batch) /\ ScoredColumns(cfg) \subseteq DOMAIN batch
  BY <1>1, <1>2 DEF AlignInv, AlignRest, Stored
<1>5. NeededBy("actor") \subseteq DOMAIN batch /\ Brings(cfg, "update") = NeededBy("actor")
  BY <1>4 DEF NeededBy, Brings
<1> QED BY <1>1, <1>3, <1>4, <1>5, CallUpdateAligns

-----------------------------------------------------------------------------
\* The steps of the ranks, and of the optimizers.

\* An optimizer's step begins the next mini-batch, or was the last.
LEMMA StepAligns ==
  ASSUME AlignInv, phase \in {"update_critic", "update"}, NEW model \in {"critic", "actor"},
         NeededBy(model) \subseteq DOMAIN batch, Brings(cfg, phase) = NeededBy(model), NEW more,
         NEW next \in {"criticized", "done"}, StepThen(model, more, next)
  PROVE  AlignRest'
<1>1. phase \in Forwards /\ phase \in AfterBalance \ {"log_prob"}
  BY DEF Forwards, AfterBalance
<1>2. cfg \in Configs /\ Dealable /\ mini \in Nat /\ Counted(steps) /\ Sound(cfg, batch, Samples(cfg))
  BY <1>1, InForward, TrainingSound DEF AlignInv
<1>3. Aligned(cfg, batch) /\ ScoredColumns(cfg) \subseteq DOMAIN batch
  BY <1>1 DEF AlignInv, AlignRest, Stored
<1>4. cfg' = cfg /\ batch' = batch
  BY DEF StepThen
<1>5. MiniBatches \in Nat \ {0}
  BY <1>2, NumbersAre
<1>6. CASE more
  <2> DEFINE k == (mini % MiniBatches) + 1
             l == Len(steps[model])
             epoch == (l + 1) \div MiniBatches
  <2>1. mini' = k /\ Begin(MiniBatch(mini', epoch, model), phase)
    BY <1>6 DEF StepThen
  <2>2. l \in Nat
    <3>1. PICK n \in Nat : Column(steps[model], n)
      BY <1>2 DEF Counted
    <3> QED BY <3>1, ColumnIs
  <2> HIDE DEF l
  <2>3. epoch \in Int
    <3> DEFINE x == l + 1
               y == MiniBatches
    <3>1. x \in Nat /\ y \in Nat \ {0}
      BY <1>5, <2>2
    <3> HIDE DEF x, y
    <3>2. x \div y \in Nat
      BY <3>1, Lines
    <3> QED BY <3>2 DEF x, y
  <2>4. k \in 1 .. MiniBatches
    <3> DEFINE x == mini
               y == MiniBatches
    <3>1. x \in Nat /\ y \in Nat \ {0}
      BY <1>2, <1>5
    <3> HIDE DEF x, y
    <3>2. x % y \in 0 .. y - 1
      BY <3>1, Lines
    <3>3. (x % y) + 1 \in 1 .. y
      BY <3>1, <3>2
    <3> QED BY <3>3 DEF x, y
  <2>5. Begin(MiniBatch(k, epoch, model), phase)
    BY <2>1
  <2> HIDE DEF k, epoch
  <2> QED BY <1>2, <1>3, <1>4, <2>3, <2>4, <2>5, MiniBatchAligns
<1>7. CASE ~more
  <2>1. phase' = next
    BY <1>7 DEF StepThen
  <2> QED BY <1>3, <1>4, <2>1 DEF AlignRest, Stored, AtForward, AfterBalance, Forwards
<1> QED BY <1>6, <1>7

\* The critic's.
LEMMA CriticStepAligns ==
  ASSUME AlignInv, CriticStep
  PROVE  AlignRest'
<1>1. phase = "update_critic" /\ StepThen("critic", MoreSteps("critic"), "criticized")
  BY DEF CriticStep
<1>2. "values" \in DOMAIN batch
  BY <1>1 DEF AlignInv, AlignRest, Stored
<1>3. NeededBy("critic") \subseteq DOMAIN batch /\ Brings(cfg, phase) = NeededBy("critic")
  BY <1>1, <1>2 DEF NeededBy, Brings
<1>4. /\ phase \in {"update_critic", "update"} /\ "critic" \in {"critic", "actor"}
      /\ "criticized" \in {"criticized", "done"}
  BY <1>1
<1> QED BY <1>1, <1>3, <1>4, StepAligns

\* The actor's.
LEMMA OptimizerStepAligns ==
  ASSUME AlignInv, OptimizerStep
  PROVE  AlignRest'
<1>1. phase = "update" /\ StepThen("actor", MoreSteps("actor"), "done")
  BY DEF OptimizerStep
<1>2. ScoredColumns(cfg) \subseteq DOMAIN batch
  BY <1>1 DEF AlignInv, AlignRest, Stored, AfterBalance, Forwards
<1>3. NeededBy("actor") \subseteq DOMAIN batch /\ Brings(cfg, phase) = NeededBy("actor")
  BY <1>1, <1>2 DEF NeededBy, Brings
<1>4. /\ phase \in {"update_critic", "update"} /\ "actor" \in {"critic", "actor"}
      /\ "done" \in {"criticized", "done"}
  BY <1>1
<1> QED BY <1>1, <1>3, <1>4, StepAligns

\* Every rank has a micro-batch that is its own, of the m rows it has.
AllMicro(m) == \A r \in Ranks : \E k \in Nat : MicroOf(r, m, k)

\* So it is in a forward.
LEMMA ForwardHas ==
  ASSUME cfg \in Configs, InStep(cfg, work), NEW m \in Nat, NEW ph, AtWork(cfg, work, m, ph),
         NEW results, Forward(results)
  PROVE  AllMicro(m)
<1> SUFFICES ASSUME NEW r \in Ranks PROVE \E k \in Nat : MicroOf(r, m, k)
  BY DEF AllMicro
<1>1. Len(work[r].out) < Len(work[r].parts)
  BY DEF Forward
<1> QED BY <1>1, MicroHas

\* A forward or a backward of all the ranks, each with what belongs to it.
Suits(m, results) == AtWork(cfg, work, m, phase) /\ AllMicro(m) => Fulfils(results, Asks(cfg, phase))

\* It leaves the rest as it is.
LEMMA ForwardAligns ==
  ASSUME AlignInv, phase \in Forwards, NEW results, Forward(results), \A m \in Nat : Suits(m, results),
         UNCHANGED <<cfg, phase, batch, mini, steps>>
  PROVE  AlignRest'
<1>1. cfg \in Configs /\ Dealable /\ InStep(cfg, work)
  BY InForward DEF AlignInv
<1>2. ASSUME NEW m \in Nat, AtWork(cfg, work, m, phase)
      PROVE  /\ AtWork(cfg, work', m, phase)
             /\ \A r \in Ranks : work'[r].data = work[r].data
  <2>1. AllMicro(m)
    BY <1>1, <1>2, ForwardHas
  <2>2. Fulfils(results, Asks(cfg, phase))
    BY <1>2, <2>1 DEF Suits
  <2> QED BY <1>1, <1>2, <2>2, ForwardAligned
<1>3. PICK m \in Nat : AtWork(cfg, work, m, phase)
  BY DEF AlignInv, AlignRest, AtForward
<1>4. AtWork(cfg, work', m, phase)
  BY <1>2, <1>3
<1>5. ASSUME phase \in {"log_prob", "values"}
      PROVE  OfBatch(cfg, batch.responses, work', PerRank(cfg)) /\ AtWork(cfg, work', PerRank(cfg), phase)
  <2>1. OfBatch(cfg, batch.responses, work, PerRank(cfg)) /\ AtWork(cfg, work, PerRank(cfg), phase)
    BY <1>5 DEF AlignInv, AlignRest, AtForward
  <2>2. PerRank(cfg) \in Nat
    <3>1. PerRank(cfg) = OfRank
      BY <1>1, SizedIs DEF SameSizes
    <3>2. OfRank \in Nat \ {0}
      BY <1>1, NumbersAre
    <3> QED BY <3>1, <3>2
  <2>3. AtWork(cfg, work', PerRank(cfg), phase) /\ \A r \in Ranks : work'[r].data = work[r].data
    BY <1>2, <2>1, <2>2
  <2> QED BY <2>1, <2>3 DEF OfBatch, Ranks
<1>6. cfg' = cfg /\ phase' = phase /\ batch' = batch
  OBVIOUS
<1>7. AtForward(cfg', batch', work', phase')
  BY <1>4, <1>5, <1>6 DEF AtForward
<1>8. Aligned(cfg', batch') /\ Stored(cfg', batch', phase')
  BY <1>6 DEF AlignInv, AlignRest
<1>9. phase' # "generating"
  BY <1>6 DEF Forwards
<1> QED BY <1>7, <1>8, <1>9 DEF AlignRest

\* compute_log_prob takes a micro-batch.
LEMMA ComputeLogProbAligns ==
  ASSUME AlignInv, ComputeLogProb
  PROVE  AlignRest'
<1> DEFINE results == [r \in Ranks |-> ScoredMicro(r)]
<1>1. phase = "log_prob" /\ Forward(results) /\ UNCHANGED <<cfg, phase, batch, mini, steps>>
  BY DEF ComputeLogProb
<1>2. phase \in Forwards
  BY <1>1 DEF Forwards
<1>3. cfg \in Configs /\ InStep(cfg, work)
  BY <1>2, InForward DEF AlignInv
<1>4. \A r \in Ranks : results[r] = ScoredMicro(r)
  OBVIOUS
<1>5. Asks(cfg, phase) = ScoredColumns(cfg)
  BY <1>1 DEF Asks
<1> HIDE DEF results
<1>6. ASSUME NEW m \in Nat, AtWork(cfg, work, m, phase), AllMicro(m), NEW r \in Ranks
      PROVE  OutOf(cfg, work[r].data, MicroPart(r), results[r], Asks(cfg, phase))
  <2>1. PICK k \in Nat : MicroOf(r, m, k)
    BY <1>6 DEF AllMicro
  <2>2. OutOf(cfg, work[r].data, MicroPart(r), ScoredMicro(r), ScoredColumns(cfg))
    BY <1>3, <1>6, <2>1, ScoredMicroSays
  <2> QED BY <1>4, <1>5, <2>2
<1>7. \A m \in Nat : Suits(m, results)
  BY <1>6 DEF Suits, Fulfils
<1> QED BY <1>1, <1>2, <1>7, ForwardAligns

\* compute_values does.
LEMMA ComputeValuesAligns ==
  ASSUME AlignInv, ComputeValues
  PROVE  AlignRest'
<1> DEFINE results == [r \in Ranks |-> [values |-> ValuesOf(r)]]
<1>1. phase = "values" /\ Forward(results) /\ UNCHANGED <<cfg, phase, batch, mini, steps>>
  BY DEF ComputeValues
<1>2. phase \in Forwards
  BY <1>1 DEF Forwards
<1>3. cfg \in Configs /\ InStep(cfg, work)
  BY <1>2, InForward DEF AlignInv
<1>4. \A r \in Ranks : results[r] = [values |-> ValuesOf(r)]
  OBVIOUS
<1>5. Asks(cfg, phase) = {"values"}
  BY <1>1 DEF Asks
<1> HIDE DEF results
<1>6. ASSUME NEW m \in Nat, AtWork(cfg, work, m, phase), AllMicro(m), NEW r \in Ranks
      PROVE  OutOf(cfg, work[r].data, MicroPart(r), results[r], Asks(cfg, phase))
  <2>1. PICK k \in Nat : MicroOf(r, m, k)
    BY <1>6 DEF AllMicro
  <2>2. OutOf(cfg, work[r].data, MicroPart(r), [values |-> ValuesOf(r)], {"values"})
    BY <1>3, <1>6, <2>1, ValuesSay
  <2> QED BY <1>4, <1>5, <2>2
<1>7. \A m \in Nat : Suits(m, results)
  BY <1>6 DEF Suits, Fulfils
<1> QED BY <1>1, <1>2, <1>7, ForwardAligns

\* update_critic does.
LEMMA BackwardCriticAligns ==
  ASSUME AlignInv, BackwardCritic
  PROVE  AlignRest'
<1> DEFINE results == [r \in Ranks |-> [vpreds |-> ValuesOf(r)]]
<1>1. phase = "update_critic" /\ Forward(results) /\ UNCHANGED <<cfg, phase, batch, mini, steps>>
  BY DEF BackwardCritic
<1>2. phase \in Forwards
  BY <1>1 DEF Forwards
<1>3. cfg \in Configs /\ InStep(cfg, work)
  BY <1>2, InForward DEF AlignInv
<1>4. \A r \in Ranks : results[r] = [vpreds |-> ValuesOf(r)]
  OBVIOUS
<1>5. Asks(cfg, phase) = {"vpreds"}
  BY <1>1 DEF Asks
<1> HIDE DEF results
<1>6. ASSUME NEW m \in Nat, AtWork(cfg, work, m, phase), AllMicro(m), NEW r \in Ranks
      PROVE  OutOf(cfg, work[r].data, MicroPart(r), results[r], Asks(cfg, phase))
  <2>1. PICK k \in Nat : MicroOf(r, m, k)
    BY <1>6 DEF AllMicro
  <2>2. OutOf(cfg, work[r].data, MicroPart(r), [vpreds |-> ValuesOf(r)], {"vpreds"})
    BY <1>3, <1>6, <2>1, ValuesSay
  <2> QED BY <1>4, <1>5, <2>2
<1>7. \A m \in Nat : Suits(m, results)
  BY <1>6 DEF Suits, Fulfils
<1> QED BY <1>1, <1>2, <1>7, ForwardAligns

\* update_policy does, where the ids it is given fit.
LEMMA BackwardAligns ==
  ASSUME AlignInv, Backward
  PROVE  AlignRest'
<1> DEFINE results == [r \in Ranks |-> LossLogProbs(r)]
<1>1. phase = "update" /\ Forward(results) /\ UNCHANGED <<cfg, phase, batch, mini, steps>>
  BY DEF Backward
<1>2. phase \in Forwards
  BY <1>1 DEF Forwards
<1>3. cfg \in Configs /\ InStep(cfg, work)
  BY <1>2, InForward DEF AlignInv
<1>4. \A r \in Ranks : results[r] = LossLogProbs(r)
  OBVIOUS
<1>5. Asks(cfg, phase) = {"log_probs"}
  BY <1>1 DEF Asks
<1>6. ASSUME NEW r \in Ranks PROVE cfg.topk => CanGather(r)
  <2>1. Len(work[r].out) < Len(work[r].parts)
    BY <1>1 DEF Forward
  <2> QED BY <2>1 DEF Backward
<1> HIDE DEF results
<1>7. ASSUME NEW m \in Nat, AtWork(cfg, work, m, phase), AllMicro(m), NEW r \in Ranks
      PROVE  OutOf(cfg, work[r].data, MicroPart(r), results[r], Asks(cfg, phase))
  <2>1. PICK k \in Nat : MicroOf(r, m, k)
    BY <1>7 DEF AllMicro
  <2>2. AtWork(cfg, work, m, "update")
    BY <1>1, <1>7
  <2>3. OutOf(cfg, work[r].data, MicroPart(r), LossLogProbs(r), {"log_probs"})
    BY <1>3, <1>6, <2>1, <2>2, LossSays
  <2> QED BY <1>4, <1>5, <2>3
<1>8. \A m \in Nat : Suits(m, results)
  BY <1>7 DEF Suits, Fulfils
<1> QED BY <1>1, <1>2, <1>8, ForwardAligns

-----------------------------------------------------------------------------
\* What the ranks answered, joined to the batch.

\* While the ranks compute columns of the batch, they are on shares of it.
LEMMA OnShares ==
  ASSUME AlignInv, phase \in {"log_prob", "values"}
  PROVE  /\ cfg \in Configs /\ Dealable /\ InStep(cfg, work) /\ "uid" \in DOMAIN batch
         /\ Samples(cfg) \in Nat /\ OfRank \in Nat
         /\ Sound(cfg, batch, Samples(cfg)) /\ Sourced(batch, Samples(cfg))
         /\ OfBatch(cfg, batch.responses, work, OfRank) /\ AtWork(cfg, work, OfRank, phase)
<1>1. phase \in Forwards /\ phase \in AfterBalance
  BY DEF Forwards, AfterBalance
<1>2. cfg \in Configs /\ Dealable /\ InStep(cfg, work)
  BY <1>1, InForward DEF AlignInv
<1>3. /\ "uid" \in DOMAIN batch /\ Samples(cfg) \in Nat
      /\ Sound(cfg, batch, Samples(cfg)) /\ Sourced(batch, Samples(cfg))
  BY <1>1, TrainingSound
<1>4. PerRank(cfg) = OfRank
  BY <1>2, SizedIs DEF SameSizes
<1>5. OfRank \in Nat \ {0}
  BY <1>2, NumbersAre
<1>6. OfBatch(cfg, batch.responses, work, PerRank(cfg)) /\ AtWork(cfg, work, PerRank(cfg), phase)
  BY DEF AlignInv, AlignRest, AtForward
<1> QED BY <1>2, <1>3, <1>4, <1>5, <1>6

\* What was collected goes to the rows of the batch.
LEMMA CollectAligns ==
  ASSUME AlignInv, phase \in {"log_prob", "values"}, NEW C, C # {}, C \subseteq PerToken, Paired(C),
         NEW outputs, Answer(outputs, OfRank, C),
         \A r \in Ranks : Stores(cfg, work[r].data, OfRank, C, outputs[r]),
         batch' = Union(batch, CollectFrom(outputs)), cfg' = cfg
  PROVE  Aligned(cfg', batch') /\ DOMAIN batch' = DOMAIN batch \cup C
<1> DEFINE n == Samples(cfg)
           x == CollectFrom(outputs)
<1>1. /\ cfg \in Configs /\ Dealable /\ "uid" \in DOMAIN batch /\ n \in Nat
      /\ Sound(cfg, batch, n) /\ Sourced(batch, n)
      /\ OfBatch(cfg, batch.responses, work, OfRank)
  BY OnShares
<1>2. Adds(cfg, batch, n, x) /\ DOMAIN x = C
  BY <1>1, CollectAdds
<1> HIDE DEF x, n
<1>3. /\ Sound(cfg, Union(batch, x), n) /\ DOMAIN Union(batch, x) = DOMAIN batch \cup DOMAIN x
      /\ Union(batch, x).responses = batch.responses
      /\ Union(batch, x).uid = batch.uid
  BY <1>1, <1>2, JoinedSound
<1>4. batch' = Union(batch, x)
  BY DEF x
<1>5. Sound(cfg, batch', n) /\ Sourced(batch', n) /\ DOMAIN batch' = DOMAIN batch \cup C
  BY <1>1, <1>2, <1>3, <1>4 DEF Sourced
<1>6. Paired(DOMAIN batch')
  BY <1>5 DEF AlignInv, AlignRest, Aligned, Paired
<1> QED BY <1>1, <1>5, <1>6 DEF Aligned

\* The log-probabilities.
LEMMA CollectLogProbAligns ==
  ASSUME AlignInv, CollectLogProb
  PROVE  AlignRest' /\ DOMAIN batch' = DOMAIN batch \cup ScoredColumns(cfg)
<1> DEFINE outputs == [r \in Ranks |-> RankResult(r)]
           C == ScoredColumns(cfg)
           m == OfRank
<1>1. /\ phase = "log_prob" /\ ~Running /\ batch' = Union(batch, CollectFrom(outputs))
      /\ phase' = "scored" /\ cfg' = cfg
  BY DEF CollectLogProb
<1>2. cfg \in Configs /\ InStep(cfg, work) /\ m \in Nat /\ AtWork(cfg, work, m, phase)
  BY <1>1, OnShares
<1>3. C # {} /\ C \subseteq PerToken /\ "values" \notin C /\ C = Asks(cfg, phase) /\ Paired(C)
  BY <1>1 DEF ScoredColumns, PerToken, Asks, Paired
<1>4. \A r \in Ranks : outputs[r] = RankResult(r)
  OBVIOUS
<1> HIDE DEF outputs, C, m
<1>5. ASSUME NEW r \in Ranks PROVE Tells(cfg, work[r].data, m, C, outputs[r])
  BY <1>1, <1>2, <1>3, <1>4, RankResultTells
<1>6. Answer(outputs, m, C)
  <2> SUFFICES ASSUME NEW r \in Ranks PROVE DOMAIN outputs[r] = C /\ Table(outputs[r], m)
    BY DEF Answer
  <2> QED BY <1>3, <1>5 DEF Tells, Table
<1>7. \A col \in C : \A row, t : StoredAt(cfg, col, row, t) = ScoredAt(cfg, col, row, t)
  BY <1>3 DEF StoredAt
<1>8. ASSUME NEW r \in Ranks PROVE Stores(cfg, work[r].data, m, C, outputs[r])
  BY <1>5, <1>7 DEF Stores, Tells
<1>9. Aligned(cfg', batch') /\ DOMAIN batch' = DOMAIN batch \cup C
  BY <1>1, <1>3, <1>6, <1>8, CollectAligns DEF m
<1>10. Stored(cfg', batch', phase')
  BY <1>1, <1>9 DEF Stored, C
<1> QED BY <1>1, <1>9, <1>10 DEF AlignRest, AtForward, Forwards, C

\* A critic values the tokens of its mask.
LEMMA ValuesStore ==
  ASSUME cfg \in Configs, NEW m \in Nat, NEW data, Sound(cfg, data, m), NEW z, Tells(cfg, data, m, {"values"}, z)
  PROVE  LET x == ActionValues(data, z.values) IN
         /\ Column(x, m)
         /\ \A j \in 1 .. m : \A t \in 1 .. data.responses[j].response :
              x[j][t] = StoredAt(cfg, "values", data.responses[j], t)
<1> DEFINE x == ActionValues(data, z.values)
<1>1. /\ Column(z.values, m)
      /\ \A j \in 1 .. m : \A t \in 1 .. data.responses[j].response :
           z.values[j][t] = ScoredAt(cfg, "values", data.responses[j], t)
  <2>1. "values" \in {"values"} /\ z["values"] = z.values
    OBVIOUS
  <2> QED BY <2>1 DEF Tells
<1>2. x = [i \in 1 .. m |->
            [t \in 1 .. ResponseLength |->
               IF t \in CriticMask(data.responses[i]) THEN Value(z.values[i][t]) ELSE 0]]
  BY <1>1 DEF ActionValues, Column
<1>3. Column(x, m)
  BY <1>2 DEF Column
<1>4. ASSUME NEW j \in 1 .. m, NEW t \in 1 .. data.responses[j].response
      PROVE  x[j][t] = StoredAt(cfg, "values", data.responses[j], t)
  <2> DEFINE row == data.responses[j]
  <2>1. Fitting(row)
    BY DEF Sound, RowSound
  <2>2. t \in 1 .. ResponseLength
    BY <2>1, LengthsAssumption DEF Fitting, LengthsAssumption
  <2>3. x[j][t] = IF t \in CriticMask(row) THEN Value(z.values[j][t]) ELSE 0
    BY <1>2, <2>2
  <2>4. z.values[j][t] = Before(row, t)
    BY <1>1 DEF ScoredAt
  <2> HIDE DEF x
  <2>5. t \in CriticMask(row) <=> cfg.backend = "megatron" \/ t \in row.valid
    BY DEF CriticMask, Megatron
  <2> QED BY <2>3, <2>4, <2>5 DEF StoredAt
<1> QED BY <1>3, <1>4

\* The values.
LEMMA CollectValuesAligns ==
  ASSUME AlignInv, CollectValues
  PROVE  AlignRest' /\ DOMAIN batch' = DOMAIN batch \cup {"values"}
<1> DEFINE Masks(r) == [values |-> ActionValues(work[r].data, RankResult(r).values)]
           outputs == [r \in Ranks |-> Masks(r)]
           C == {"values"}
           m == OfRank
<1>1. /\ phase = "values" /\ ~Running /\ batch' = Union(batch, CollectFrom(outputs))
      /\ phase' = "valued" /\ cfg' = cfg
  BY DEF CollectValues
<1>2. cfg \in Configs /\ InStep(cfg, work) /\ m \in Nat /\ AtWork(cfg, work, m, phase)
  BY <1>1, OnShares
<1>3. C # {} /\ C \subseteq PerToken /\ C = Asks(cfg, phase) /\ Paired(C)
  BY <1>1 DEF PerToken, Asks, Paired
<1>4. \A r \in Ranks : outputs[r] = Masks(r)
  OBVIOUS
<1> HIDE DEF outputs, m
<1>5. ASSUME NEW r \in Ranks
      PROVE  /\ DOMAIN outputs[r] = C /\ Table(outputs[r], m)
             /\ Stores(cfg, work[r].data, m, C, outputs[r])
  <2> DEFINE data == work[r].data
             x == ActionValues(data, RankResult(r).values)
  <2>1. Tells(cfg, data, m, C, RankResult(r))
    BY <1>1, <1>2, <1>3, RankResultTells
  <2>2. Sound(cfg, data, m)
    BY <1>2 DEF AtWork, RankAtWork, Ranks
  <2>3. outputs[r] = [values |-> x]
    BY <1>4
  <2> HIDE DEF data
  <2>4. /\ Column(x, m)
        /\ \A j \in 1 .. m : \A t \in 1 .. data.responses[j].response :
             x[j][t] = StoredAt(cfg, "values", data.responses[j], t)
    BY <1>2, <2>1, <2>2, ValuesStore
  <2> HIDE DEF x
  <2>5. DOMAIN outputs[r] = C /\ outputs[r]["values"] = x
    BY <2>3
  <2>6. Table(outputs[r], m)
    BY <2>4, <2>5 DEF Table
  <2>7. Stores(cfg, data, m, C, outputs[r])
    BY <2>4, <2>5 DEF Stores
  <2> QED BY <2>5, <2>6, <2>7 DEF data
<1> HIDE DEF C
<1>6. Answer(outputs, m, C)
  BY <1>5 DEF Answer
<1>7. \A r \in Ranks : Stores(cfg, work[r].data, m, C, outputs[r])
  BY <1>5
<1>8. Aligned(cfg', batch') /\ DOMAIN batch' = DOMAIN batch \cup C
  BY <1>1, <1>3, <1>6, <1>7, CollectAligns DEF m
<1>9. ScoredColumns(cfg) \subseteq DOMAIN batch
  BY <1>1 DEF AlignInv, AlignRest, Stored, AfterBalance, Forwards
<1>10. Stored(cfg', batch', phase')
  BY <1>1, <1>8, <1>9 DEF Stored, C
<1> QED BY <1>1, <1>8, <1>10 DEF AlignRest, AtForward, Forwards, C

-----------------------------------------------------------------------------
\* Every step keeps the rows together with what is theirs.

\* Nothing that is asked of the rows has changed.
LEMMA SameAlign ==
  ASSUME AlignInv, UNCHANGED vars
  PROVE  AlignRest'
<1>1. cfg' = cfg /\ phase' = phase /\ batch' = batch /\ work' = work
  BY DEF vars
<1> QED BY <1>1 DEF AlignInv, AlignRest

\* A step that ends with an error leaves the batch as it is.
LEMMA FailsAlign ==
  ASSUME AlignInv, CannotDivide \/ EstimatorFails \/ GatherFails
  PROVE  AlignRest'
<1>1. phase' \in {"raised", "failed"} /\ cfg' = cfg /\ batch' = batch
  BY DEF CannotDivide, EstimatorFails, GatherFails
<1>2. Aligned(cfg', batch')
  BY <1>1 DEF AlignInv, AlignRest
<1> QED BY <1>1, <1>2, EndsAlign

\* A step begins without a batch.
LEMMA AlignStarts ==
  ASSUME Init
  PROVE  AlignInv
<1>1. phase = "start" /\ batch = <<>>
  BY DEF Init
<1>2. WaitInv
  BY WaitStarts
<1>3. Aligned(cfg, batch)
  BY <1>1 DEF Aligned, Paired
<1> QED BY <1>1, <1>2, <1>3 DEF AlignInv, AlignRest, Stored, AtForward, AfterBalance, Forwards

\* Each action does.
LEMMA AlignStep ==
  ASSUME AlignInv, [Next]_vars
  PROVE  AlignInv'
<1>1. WaitInv'
  BY WaitStep DEF AlignInv
<1>2. AlignRest'
  <2>1. CASE CallGenerate
    BY <2>1, CallGenerateAligns
  <2>2. CASE \E w \in DOMAIN work : phase = "generating" /\ Generate(w)
    <3>1. PICK w \in DOMAIN work : phase = "generating" /\ Generate(w)
      BY <2>2
    <3> QED BY <3>1, GenerateAligns
  <2>3. CASE CollectGenerate
    BY <2>3, CollectGenerateAligns
  <2>4. CASE Balance
    BY <2>4, BalanceAligns
  <2>5. CASE CallLogProb
    BY <2>5, CallLogProbAligns
  <2>6. CASE ComputeLogProb
    BY <2>6, ComputeLogProbAligns
  <2>7. CASE CollectLogProb
    BY <2>7, CollectLogProbAligns
  <2>8. CASE CallValues
    BY <2>8, CallValuesAligns
  <2>9. CASE ComputeValues
    BY <2>9, ComputeValuesAligns
  <2>10. CASE CollectValues
    BY <2>10, CollectValuesAligns
  <2>11. CASE ComputeAdvantage
    BY <2>11, ComputeAdvantageAligns
  <2>12. CASE CallCritic
    BY <2>12, CallCriticAligns
  <2>13. CASE BackwardCritic
    BY <2>13, BackwardCriticAligns
  <2>14. CASE CriticStep
    BY <2>14, CriticStepAligns
  <2>15. CASE Rank
    BY <2>15, RankAligns
  <2>16. CASE CallUpdate
    BY <2>16, CallActorAligns
  <2>17. CASE Backward
    BY <2>17, BackwardAligns
  <2>18. CASE OptimizerStep
    BY <2>18, OptimizerStepAligns
  <2>19. CASE CannotDivide \/ EstimatorFails \/ GatherFails
    BY <2>19, FailsAlign
  <2>20. CASE Finished \/ UNCHANGED vars
    BY <2>20, SameAlign DEF Finished
  <2> QED BY <2>1, <2>2, <2>3, <2>4, <2>5, <2>6, <2>7, <2>8, <2>9, <2>10, <2>11, <2>12, <2>13, <2>14, <2>15,
             <2>16, <2>17, <2>18, <2>19, <2>20 DEF Next
<1> QED BY <1>1, <1>2 DEF AlignInv

\* The rows of the batch have what is asked of them.
LEMMA AlignedColumns ==
  ASSUME AlignInv, "responses" \in DOMAIN batch, NEW i \in 1 .. Rows(batch), NEW row, row = batch.responses[i]
  PROVE  /\ row.source = batch.uid[i]
         /\ \A t \in 1 .. row.response : \A col \in PerToken \cap DOMAIN batch :
              batch[col][i][t] = StoredAt(cfg, col, row, t)
<1>1. PICK n \in Nat : Sound(cfg, batch, n) /\ Sourced(batch, n)
  BY DEF AlignInv, AlignRest, Aligned
<1>2. Rows(batch) = n
  BY <1>1, TableRows DEF Sound
<1>3. RowSound(cfg, batch, i) /\ row.source = batch.uid[i]
  BY <1>1, <1>2 DEF Sound, Sourced
<1> QED BY <1>3 DEF RowSound

\* ColumnsAligned is what that says.
LEMMA AlignedMeans ==
  ASSUME AlignInv
  PROVE  ColumnsAligned
<1> SUFFICES ASSUME "responses" \in DOMAIN batch, NEW i \in 1 .. Rows(batch)
             PROVE  LET row == batch.responses[i] IN
                      /\ row.source = batch.uid[i]
                      /\ \A t \in 1 .. row.response :
                           LET before == <<row.id, PromptLength + t - 1>> IN
                             /\ "old_log_probs" \in DOMAIN batch => batch.old_log_probs[i][t] = Expected(row, t)
                             /\ "student_top_k_ids" \in DOMAIN batch =>
                                  /\ batch.student_top_k_ids[i][t] = <<"top", before>>
                                  /\ batch.student_top_k_log_probs[i][t] = <<before, <<"top", before>>>>
                             /\ "values" \in DOMAIN batch =>
                                  batch.values[i][t] = IF t \in CriticMask(row) THEN Value(before) ELSE 0
  BY DEF ColumnsAligned
<1> DEFINE row == batch.responses[i]
<1>1. /\ row.source = batch.uid[i]
      /\ \A t \in 1 .. row.response : \A col \in PerToken \cap DOMAIN batch :
           batch[col][i][t] = StoredAt(cfg, col, row, t)
  BY AlignedColumns
<1>2. "student_top_k_ids" \in DOMAIN batch => "student_top_k_log_probs" \in DOMAIN batch
  BY DEF AlignInv, AlignRest, Aligned, Paired
<1> HIDE DEF row
<1>3. ASSUME NEW t \in 1 .. row.response
      PROVE  LET before == <<row.id, PromptLength + t - 1>> IN
               /\ "old_log_probs" \in DOMAIN batch => batch.old_log_probs[i][t] = Expected(row, t)
               /\ "student_top_k_ids" \in DOMAIN batch =>
                    /\ batch.student_top_k_ids[i][t] = <<"top", before>>
                    /\ batch.student_top_k_log_probs[i][t] = <<before, <<"top", before>>>>
               /\ "values" \in DOMAIN batch =>
                    batch.values[i][t] = IF t \in CriticMask(row) THEN Value(before) ELSE 0
  <2> DEFINE before == Before(row, t)
  <2>1. before = <<row.id, PromptLength + t - 1>>
    BY DEF Before
  <2>2. \A col \in PerToken \cap DOMAIN batch : batch[col][i][t] = StoredAt(cfg, col, row, t)
    BY <1>1
  <2>3. /\ "old_log_probs" \in PerToken /\ "student_top_k_ids" \in PerToken
        /\ "student_top_k_log_probs" \in PerToken /\ "values" \in PerToken
    BY DEF PerToken
  <2>4. /\ StoredAt(cfg, "old_log_probs", row, t) = Expected(row, t)
        /\ StoredAt(cfg, "student_top_k_ids", row, t) = <<"top", before>>
        /\ StoredAt(cfg, "student_top_k_log_probs", row, t) = <<before, <<"top", before>>>>
    BY DEF StoredAt, ScoredAt
  <2>5. StoredAt(cfg, "values", row, t) =
          IF cfg.backend = "megatron" \/ t \in row.valid THEN Value(before) ELSE 0
    BY DEF StoredAt
  <2>6. t \in CriticMask(row) <=> cfg.backend = "megatron" \/ t \in row.valid
    BY DEF CriticMask, Megatron
  <2> HIDE DEF before
  <2>7. "old_log_probs" \in DOMAIN batch => batch.old_log_probs[i][t] = Expected(row, t)
    BY <2>2, <2>3, <2>4
  <2>8. "student_top_k_ids" \in DOMAIN batch =>
          /\ batch.student_top_k_ids[i][t] = <<"top", before>>
          /\ batch.student_top_k_log_probs[i][t] = <<before, <<"top", before>>>>
    BY <1>2, <2>2, <2>3, <2>4
  <2>9. "values" \in DOMAIN batch =>
          batch.values[i][t] = IF t \in CriticMask(row) THEN Value(before) ELSE 0
    BY <2>2, <2>3, <2>5, <2>6
  <2> QED BY <2>1, <2>7, <2>8, <2>9
<1> QED BY <1>1, <1>3 DEF row

\* What the loss compares: of each row of a micro-batch what was computed, and what is stored.
Compared(c, ph, micro, output) ==
  \A i \in 1 .. Rows(micro) :
    /\ Fitting(micro.responses[i])
    /\ \A t \in 1 .. micro.responses[i].response :
         /\ \A col \in Asks(c, ph) : output[col][i][t] = ScoredAt(c, col, micro.responses[i], t)
         /\ \A col \in Brings(c, ph) : micro[col][i][t] = StoredAt(c, col, micro.responses[i], t)

\* An output of a rank belongs to the rows of its micro-batch.
LEMMA OutputsCompare ==
  ASSUME AlignInv, phase \in Forwards, NEW r \in Ranks, NEW k \in DOMAIN work[r].out
  PROVE  Compared(cfg, phase, SelectIdxs(work[r].data, work[r].parts[k]), work[r].out[k])
<1> DEFINE x == work[r]
           q == x.parts[k]
           l == Len(q)
           micro == SelectIdxs(x.data, q)
<1>1. cfg \in Configs /\ InStep(cfg, work) /\ r \in 0 .. cfg.world - 1
  BY InForward DEF AlignInv, Ranks
<1>2. PICK m \in Nat : AtWork(cfg, work, m, phase)
  BY DEF AlignInv, AlignRest, AtForward
<1>3. RankAtWork(cfg, x, m, phase)
  BY <1>1, <1>2 DEF AtWork
<1>4. PICK p \in Nat \ {0} : \E o \in Nat : Lined(cfg, work, p, o)
  BY <1>1 DEF InStep
<1>5. Parted(x.parts, p)
  BY <1>1, <1>4 DEF Lined, AtPart
<1>6. k \in 1 .. p
  BY <1>3, <1>5 DEF RankAtWork, Parted, Column
<1>7. /\ Sound(cfg, x.data, m) /\ Brings(cfg, phase) \subseteq DOMAIN x.data
      /\ Reaches(cfg, x.parts, m) /\ OutOf(cfg, x.data, q, x.out[k], Asks(cfg, phase))
  BY <1>3 DEF RankAtWork, Outs
<1>8. l \in Nat /\ Column(q, l) /\ \A i \in 1 .. l : q[i] \in 1 .. m
  BY <1>5, <1>6, <1>7, PartsReach
<1>9. DOMAIN x.data # {} /\ "responses" \in DOMAIN x.data
  BY <1>7 DEF Sound, Table
<1> HIDE DEF x, q, l
<1>10. Picked(x.data, q, l, micro)
  <2>1. DOMAIN q = 1 .. l
    BY <1>8 DEF Column
  <2> QED BY <1>8, <1>9, <2>1, SelectIdxsIs
<1> HIDE DEF micro
<1>11. Sound(cfg, micro, l)
  BY <1>7, <1>8, <1>10, PickedSound
<1>12. Rows(micro) = l
  BY <1>8, <1>11, TableRows DEF Sound
<1>13. \A i \in 1 .. l : micro.responses[i] = x.data.responses[q[i]]
  BY <1>9, <1>10 DEF Picked
<1>14. Brings(cfg, phase) \subseteq PerToken \cap DOMAIN micro
  <2>1. DOMAIN micro = DOMAIN x.data
    BY <1>10 DEF Picked
  <2>2. Brings(cfg, phase) \subseteq PerToken
    BY DEF Brings, ScoredColumns, PerToken, Forwards
  <2> QED BY <1>7, <2>1, <2>2
<1>15. ASSUME NEW i \in 1 .. l
       PROVE  /\ Fitting(micro.responses[i])
              /\ \A t \in 1 .. micro.responses[i].response :
                   /\ \A col \in Asks(cfg, phase) :
                        x.out[k][col][i][t] = ScoredAt(cfg, col, micro.responses[i], t)
                   /\ \A col \in Brings(cfg, phase) :
                        micro[col][i][t] = StoredAt(cfg, col, micro.responses[i], t)
  <2>1. RowSound(cfg, micro, i)
    BY <1>11 DEF Sound
  <2>2. ASSUME NEW t \in 1 .. micro.responses[i].response, NEW col \in Asks(cfg, phase)
        PROVE  x.out[k][col][i][t] = ScoredAt(cfg, col, micro.responses[i], t)
    BY <1>7, <1>13 DEF OutOf, l
  <2>3. ASSUME NEW t \in 1 .. micro.responses[i].response, NEW col \in Brings(cfg, phase)
        PROVE  micro[col][i][t] = StoredAt(cfg, col, micro.responses[i], t)
    BY <1>14, <2>1 DEF RowSound
  <2>4. Fitting(micro.responses[i])
    BY <2>1 DEF RowSound
  <2> QED BY <2>2, <2>3, <2>4
<1> QED BY <1>12, <1>15 DEF Compared, micro, q, x

\* RatioAligned is what that says of both models.
LEMMA ComparedMeans ==
  ASSUME AlignInv
  PROVE  RatioAligned
<1>1. ASSUME phase = "update_critic", NEW r \in Ranks, NEW k \in DOMAIN work[r].out,
             NEW micro, micro = SelectIdxs(work[r].data, work[r].parts[k])
      PROVE  \A i \in 1 .. Rows(micro) : \A t \in micro.responses[i].valid :
               Value(work[r].out[k].vpreds[i][t]) = micro.values[i][t]
  <2> SUFFICES ASSUME NEW i \in 1 .. Rows(micro), NEW t \in micro.responses[i].valid
               PROVE  Value(work[r].out[k].vpreds[i][t]) = micro.values[i][t]
    OBVIOUS
  <2> DEFINE row == micro.responses[i]
             output == work[r].out[k]
  <2>1. Compared(cfg, phase, micro, output)
    BY <1>1, OutputsCompare DEF Forwards
  <2>2. Asks(cfg, phase) = {"vpreds"} /\ Brings(cfg, phase) = {"values"}
    BY <1>1 DEF Asks, Brings
  <2>3. Fitting(row)
    BY <2>1 DEF Compared
  <2>4. t \in 1 .. row.response
    BY <2>3 DEF Fitting
  <2>5. /\ output["vpreds"][i][t] = ScoredAt(cfg, "vpreds", row, t)
        /\ micro["values"][i][t] = StoredAt(cfg, "values", row, t)
    BY <2>1, <2>2, <2>4 DEF Compared
  <2> HIDE DEF output
  <2>6. ScoredAt(cfg, "vpreds", row, t) = Before(row, t) /\ StoredAt(cfg, "values", row, t) = Value(Before(row, t))
    BY DEF ScoredAt, StoredAt
  <2> QED BY <2>5, <2>6 DEF output
<1>2. ASSUME phase = "update", NEW r \in Ranks, NEW k \in DOMAIN work[r].out,
             NEW micro, micro = SelectIdxs(work[r].data, work[r].parts[k]),
             NEW old, old = IF cfg.topk THEN micro.student_top_k_log_probs ELSE micro.old_log_probs
      PROVE  \A i \in 1 .. Rows(micro) : \A t \in 1 .. micro.responses[i].response :
               work[r].out[k].log_probs[i][t] = old[i][t]
  <2> SUFFICES ASSUME NEW i \in 1 .. Rows(micro), NEW t \in 1 .. micro.responses[i].response
               PROVE  work[r].out[k].log_probs[i][t] = old[i][t]
    OBVIOUS
  <2> DEFINE row == micro.responses[i]
             output == work[r].out[k]
  <2>1. Compared(cfg, phase, micro, output)
    BY <1>2, OutputsCompare DEF Forwards
  <2>2. Asks(cfg, phase) = {"log_probs"} /\ Brings(cfg, phase) = ScoredColumns(cfg)
    BY <1>2 DEF Asks, Brings
  <2>3. output["log_probs"][i][t] = ScoredAt(cfg, "log_probs", row, t)
    BY <2>1, <2>2 DEF Compared
  <2>4. \A col \in ScoredColumns(cfg) : micro[col][i][t] = StoredAt(cfg, col, row, t)
    BY <2>1, <2>2 DEF Compared
  <2> HIDE DEF output
  <2>5. CASE cfg.topk
    <3>1. "student_top_k_log_probs" \in ScoredColumns(cfg)
      BY <2>5 DEF ScoredColumns
    <3>2. micro["student_top_k_log_probs"][i][t] = StoredAt(cfg, "student_top_k_log_probs", row, t)
      BY <2>4, <3>1
    <3>3. StoredAt(cfg, "student_top_k_log_probs", row, t) = ScoredAt(cfg, "log_probs", row, t)
      BY <2>5 DEF StoredAt, ScoredAt
    <3>4. old = micro.student_top_k_log_probs
      BY <1>2, <2>5
    <3> QED BY <2>3, <3>2, <3>3, <3>4 DEF output
  <2>6. CASE ~cfg.topk
    <3>1. "old_log_probs" \in ScoredColumns(cfg)
      BY DEF ScoredColumns
    <3>2. micro["old_log_probs"][i][t] = StoredAt(cfg, "old_log_probs", row, t)
      BY <2>4, <3>1
    <3>3. StoredAt(cfg, "old_log_probs", row, t) = ScoredAt(cfg, "log_probs", row, t)
      BY <2>6 DEF StoredAt, ScoredAt
    <3>4. old = micro.old_log_probs
      BY <1>2, <2>6
    <3> QED BY <2>3, <3>2, <3>3, <3>4 DEF output
  <2> QED BY <2>5, <2>6
<1> QED BY <1>1, <1>2 DEF RatioAligned

\* ColumnsAligned, for every number of prompts and samples, every mesh of ranks, every length
\* of prompts and responses, both backends and both ways of cutting micro-batches: repeating,
\* padding, balancing, dispatching, cutting, packing, slicing over the ranks of a group,
\* gathering, restoring and collecting a batch leave each response beside the prompt it
\* answers and each of its log-probabilities, top-k ids and values at the token it was
\* computed for.
THEOREM ColumnsAlignedHolds == Spec => []ColumnsAligned
<1>1. Init => AlignInv
  BY AlignStarts
<1>2. AlignInv /\ [Next]_vars => AlignInv'
  BY AlignStep
<1>3. AlignInv => ColumnsAligned
  BY AlignedMeans
<1> QED BY <1>1, <1>2, <1>3, PTL DEF Spec

\* RatioAligned, for the same: in every epoch and every mini-batch, shuffled or not, and with
\* the top-k ids of compute_log_prob given back to update_policy, the log-probability that is
\* trained is of the label and from the logits that the stored one is, and a value is clipped
\* to the one its own token was given.
THEOREM RatioAlignedHolds == Spec => []RatioAligned
<1>1. Init => AlignInv
  BY AlignStarts
<1>2. AlignInv /\ [Next]_vars => AlignInv'
  BY AlignStep
<1>3. AlignInv => RatioAligned
  BY ComparedMeans
<1> QED BY <1>1, <1>2, <1>3, PTL DEF Spec

-----------------------------------------------------------------------------
\* Rankings.

\* The elements of a set in a row, each once.
Enumerates(s, n, S) ==
  /\ Column(s, n)
  /\ \A p, q \in 1 .. n : s[p] = s[q] => p = q
  /\ S = {s[p] : p \in 1 .. n}

\* Its length is their number.
LEMMA EnumeratedCount ==
  ASSUME NEW n \in Nat, NEW s, NEW S, Enumerates(s, n, S)
  PROVE  IsFiniteSet(S) /\ Cardinality(S) = n
<1>1. s \in [1 .. n -> S]
  BY DEF Enumerates, Column
<1>2. s \in Bijection(1 .. n, S)
  <2>1. s \in Injection(1 .. n, S)
    <3>1. \A p, q \in 1 .. n : s[p] = s[q] => p = q
      BY DEF Enumerates
    <3> QED BY <1>1, <3>1 DEF Injection, IsInjective
  <2>2. s \in Surjection(1 .. n, S)
    BY <1>1 DEF Enumerates, Surjection
  <2> QED BY <2>1, <2>2 DEF Bijection
<1>3. ExistsBijection(1 .. n, S)
  BY <1>2 DEF ExistsBijection
<1> QED BY <1>3, FS_CountingElements, FS_NatBijection

\* The tokens of a row are its trained positions, each once.
LEMMA RowTokensAre ==
  ASSUME NEW data, NEW i, NEW V, data.responses[i].valid = V, V \subseteq 1 .. ResponseLength
  PROVE  Cardinality(V) \in Nat /\ Enumerates(RowTokens(data, i), Cardinality(V), {<<i, t>> : t \in V})
<1> DEFINE n == Cardinality(V)
           a == SetToSeq(V)
           b == Increasing(a)
           x == RowTokens(data, i)
<1>1. IsFiniteSet(V)
  <2>1. IsFiniteSet(1 .. ResponseLength)
    BY LengthsAssumption, FS_Interval
  <2> QED BY <2>1, FS_Subset
<1>2. n \in Nat
  BY <1>1, FS_CardinalityType
<1>3. a \in [1 .. n -> V] /\ IsInjective(a)
  <2>1. ExistsBijection(1 .. n, V)
    BY <1>1, FS_CardinalityType
  <2>2. PICK f : f \in Bijection(1 .. n, V)
    BY <2>1 DEF ExistsBijection
  <2>3. f \in [1 .. n -> V] /\ IsInjective(f)
    BY <2>2 DEF Bijection, Injection, IsInjective
  <2> QED BY <2>3 DEF SetToSeq
<1>4. x = [p \in DOMAIN b |-> <<i, b[p]>>]
  BY DEF RowTokens
<1>5. a \in Seq(V) /\ Len(a) = n /\ Distinct(a) /\ V \in SUBSET Int
  <2> HIDE DEF a, n
  <2>1. V \subseteq Int
    BY LengthsAssumption
  <2>2. a \in Seq(V) /\ Len(a) = n /\ DOMAIN a = 1 .. n
    BY <1>2, <1>3
  <2> QED BY <1>3, <2>1, <2>2 DEF Distinct, IsInjective
<1>6. ToSet(a) = V
  <2>1. \A v \in V : \E p \in 1 .. n : a[p] = v
    <3>1. Injection(1 .. n, V) # {} /\ a \in Injection(1 .. n, V)
      BY <1>3 DEF Injection, IsInjective
    <3>2. IsFiniteSet(1 .. n) /\ Cardinality(1 .. n) = Cardinality(V)
      BY <1>2, FS_Interval
    <3> HIDE DEF a, n
    <3>3. a \in Surjection(1 .. n, V)
      BY <1>1, <3>1, <3>2, FS_Injection
    <3> QED BY <3>3 DEF Surjection
  <2> HIDE DEF a, n
  <2>2. DOMAIN a = 1 .. n
    BY <1>3
  <2> QED BY <1>3, <2>1, <2>2 DEF ToSet
<1> HIDE DEF a, n
<1>7. b \in Seq(V) /\ Len(b) = n /\ ToSet(b) = V /\ Distinct(b)
  BY <1>5, <1>6, IncreasingIs
<1> HIDE DEF b
<1>8. DOMAIN b = 1 .. n /\ (\A p \in 1 .. n : b[p] \in V) /\ \A v \in V : \E p \in 1 .. n : b[p] = v
  <2>1. DOMAIN b = 1 .. n
    BY <1>2, <1>7
  <2> QED BY <1>7, <2>1 DEF ToSet
<1>9. x = [p \in 1 .. n |-> <<i, b[p]>>]
  BY <1>4, <1>8
<1>10. \A p, q \in 1 .. n : b[p] = b[q] => p = q
  BY <1>7, <1>8 DEF Distinct
<1> HIDE DEF x
<1>11. Column(x, n)
  BY <1>9 DEF Column
<1>12. \A p, q \in 1 .. n : x[p] = x[q] => p = q
  BY <1>9, <1>10
<1>13. {<<i, t>> : t \in V} = {x[p] : p \in 1 .. n}
  <2>1. \A p \in 1 .. n : x[p] = <<i, b[p]>>
    BY <1>9
  <2>2. ASSUME NEW t \in V PROVE <<i, t>> \in {x[p] : p \in 1 .. n}
    <3>1. PICK p \in 1 .. n : b[p] = t
      BY <1>8
    <3>2. x[p] = <<i, t>>
      BY <2>1, <3>1
    <3> QED BY <3>2
  <2>3. ASSUME NEW p \in 1 .. n PROVE x[p] \in {<<i, t>> : t \in V}
    BY <1>8, <2>1
  <2> QED BY <2>2, <2>3
<1>14. Enumerates(x, n, {<<i, t>> : t \in V})
  BY <1>11, <1>12, <1>13 DEF Enumerates
<1> QED BY <1>2, <1>14 DEF x, n

\* Places in the order of their numbers.
Ranking(o, n, number) ==
  o \in Orders(n) /\ \A p, q \in 1 .. n : p < q => number[o[p]] <= number[o[q]]

\* Ascending gives it.
LEMMA AscendingRanks ==
  ASSUME NEW n \in Nat, NEW w, w \in [1 .. n -> Int]
  PROVE  Ranking(Ascending(w), n, w)
<1> DEFINE rows == [i \in 1 .. n |-> i]
           smaller == {p \in Pairs(rows) : w[rows[p[1]]] < w[rows[p[2]]]}
<1>1. DOMAIN w = 1 .. n /\ DOMAIN rows = 1 .. n /\ \A i \in 1 .. n : w[i] \in Int /\ rows[i] = i
  OBVIOUS
<1>2. Ascending(w) = Sorted(rows, smaller)
  BY <1>1 DEF Ascending, ByWeight
<1>3. \A a, b \in 1 .. n : <<a, b>> \in smaller <=> w[a] < w[b]
  BY <1>1 DEF Pairs
<1> HIDE DEF rows, smaller
<1>4. ByNumber(n, rows, w, Sorted(rows, smaller))
  BY <1>1, <1>3, SortedByNumber
<1>5. PICK p \in Orders(n) : /\ Sorted(rows, smaller) = [i \in 1 .. n |-> rows[p[i]]]
                             /\ \A i, j \in 1 .. n : i < j => w[p[i]] <= w[p[j]]
  BY <1>4 DEF ByNumber
<1>6. p \in [1 .. n -> 1 .. n]
  BY DEF Orders
<1>7. [i \in 1 .. n |-> rows[p[i]]] = p
  BY <1>1, <1>6
<1> QED BY <1>2, <1>5, <1>7 DEF Ranking

\* An interval of percentages that is not empty.
Percents(area) == area \in (0 .. 99) \X (1 .. 100) /\ area[1] < area[2]

\* A share of n tokens is one at least, and no more than there are.
LEMMA KeepCountIs ==
  ASSUME NEW n \in Nat \ {0}, NEW s \in Nat, NEW e \in 1 .. 100, s < e
  PROVE  KeepCount(n, s, e) \in 1 .. n
<1> DEFINE w == e - s
           v == 100 - w
           x == n * w
           y == n * v
           z == (x + 99) \div 100
<1>1. w \in Nat /\ v \in Nat /\ w + v = 100
  OBVIOUS
<1> HIDE DEF w, v
<1>2. x \in Nat /\ y \in Nat /\ x + y = n * 100
  <2>1. n * (w + v) = x + y
    BY <1>1
  <2> QED BY <1>1, <2>1
<1>3. KeepCount(n, s, e) = Max({1, z})
  BY DEF KeepCount, w
<1> HIDE DEF x, y
<1>4. z \in Nat /\ z <= n
  BY <1>2
<1> HIDE DEF z
<1>5. Max({1, z}) \in {1, z} /\ Max({1, z}) >= 1
  <2>1. \E m \in {1, z} : \A j \in {1, z} : m >= j
    BY <1>4
  <2>2. Max({1, z}) \in {1, z} /\ \A j \in {1, z} : Max({1, z}) >= j
    BY <2>1 DEF Max
  <2> QED BY <2>2
<1> QED BY <1>3, <1>4, <1>5

\* An interval takes places that there are.
LEMMA IntervalIs ==
  ASSUME NEW n \in Nat \ {0}, NEW area, Percents(area)
  PROVE  Interval(n, area[1], area[2]) \subseteq 1 .. n
<1> DEFINE s == area[1]
           e == area[2]
           k == KeepCount(n, s, e)
           f == (n * s) \div 100
           b == StartIndex(n, s, e)
<1>1. s \in Nat /\ e \in 1 .. 100 /\ s < e
  BY DEF Percents
<1> HIDE DEF s, e
<1>2. k \in 1 .. n
  BY <1>1, KeepCountIs
<1>3. f \in Nat
  <2> DEFINE g == n * s
  <2>1. g \in Nat
    BY <1>1
  <2> HIDE DEF g
  <2>2. g \div 100 \in Nat
    BY <2>1
  <2> QED BY <2>2 DEF g
<1>4. b = Min({f, n - k}) /\ Interval(n, s, e) = b + 1 .. b + k
  BY DEF StartIndex, Interval
<1> HIDE DEF k, f, b
<1>5. b \in Nat /\ b <= n - k
  <2> DEFINE g == n - k
  <2>1. g \in Nat
    BY <1>2
  <2>2. \E m \in {f, g} : \A j \in {f, g} : m <= j
    <3> HIDE DEF g
    <3> QED BY <1>3, <2>1
  <2>3. Min({f, g}) \in {f, g} /\ \A j \in {f, g} : Min({f, g}) <= j
    BY <2>2 DEF Min
  <2>4. b \in {f, g} /\ b <= g
    BY <1>4, <2>3 DEF g
  <2>5. b \in Nat /\ b <= g
    BY <1>3, <2>1, <2>4
  <2> QED BY <2>5 DEF g
<1>6. Interval(n, s, e) \subseteq 1 .. n
  BY <1>2, <1>4, <1>5
<1> QED BY <1>6 DEF s, e

\* The places that some intervals take between them.
Wanted(n, areas) == UNION {Interval(n, area[1], area[2]) : area \in areas}

\* The mask of some areas: the tokens at their places in the ranking.
RankedMask(tokens, n, number, areas, mask) ==
  \E o : Ranking(o, n, number) /\ mask = {tokens[o[p]] : p \in Wanted(n, areas)}

\* AreasMask is this mask.
LEMMA AreasMaskIs ==
  ASSUME NEW n \in Nat \ {0}, NEW tokens, Column(tokens, n), NEW divergence,
         \A p \in 1 .. n : divergence[tokens[p]] \in Int, NEW areas, \A area \in areas : Percents(area)
  PROVE  /\ RankedMask(tokens, n, [p \in 1 .. n |-> divergence[tokens[p]]], areas,
                       AreasMask(tokens, divergence, areas))
         /\ Wanted(n, areas) \subseteq 1 .. n
<1> DEFINE w == [p \in 1 .. n |-> divergence[tokens[p]]]
           o == Ranked(tokens, divergence)
           mask == AreasMask(tokens, divergence, areas)
           W(area) == Interval(n, area[1], area[2])
<1>1. DOMAIN tokens = 1 .. n /\ Len(tokens) = n
  BY ColumnIs
<1>2. tokens # <<>>
  BY <1>1
<1>3. o = Ascending(w)
  BY <1>1 DEF Ranked
<1>4. Ranking(o, n, w)
  <2>1. w \in [1 .. n -> Int]
    OBVIOUS
  <2> HIDE DEF w
  <2> QED BY <1>3, <2>1, AscendingRanks
<1>5. \A area \in areas : W(area) \subseteq 1 .. n
  BY IntervalIs
<1>6. mask = UNION {LadderMask(tokens, divergence, area[1], area[2]) : area \in areas}
  BY DEF AreasMask
<1>7. \A area : LadderMask(tokens, divergence, area[1], area[2]) = {tokens[o[p]] : p \in W(area)}
  BY <1>1, <1>2 DEF LadderMask
<1>8. Wanted(n, areas) = UNION {W(area) : area \in areas}
  BY DEF Wanted
<1> HIDE DEF w, o, W, mask
<1>9. mask = UNION {{tokens[o[p]] : p \in W(area)} : area \in areas}
  BY <1>6, <1>7
<1>10. mask = {tokens[o[p]] : p \in Wanted(n, areas)}
  BY <1>8, <1>9
<1>11. Wanted(n, areas) \subseteq 1 .. n
  BY <1>5, <1>8
<1> QED BY <1>4, <1>10, <1>11 DEF RankedMask, w, mask

\* The divergence of a token of a response.
Judged(token) == Divergence(token[1], token[2])

\* A set is no larger than one it is a subset of, nor than the number of places it fills.
LEMMA FilledFrom ==
  ASSUME NEW f, NEW A, IsFiniteSet(A), NEW S, IsFiniteSet(S), NEW n \in Nat, Cardinality(A) = n,
         \A x \in S : \E p \in A : f[p] = x
  PROVE  Cardinality(S) <= n
<1> DEFINE g == [p \in A |-> f[p]]
           B == {f[p] : p \in A}
<1>1. g \in Surjection(A, B)
  BY DEF Surjection
<1> HIDE DEF g
<1>2. IsFiniteSet(B) /\ Cardinality(B) <= Cardinality(A)
  BY <1>1, FS_Surjection
<1>3. S \subseteq B
  OBVIOUS
<1>4. Cardinality(S) <= Cardinality(B)
  BY <1>2, <1>3, FS_Subset
<1>5. Cardinality(S) \in Nat /\ Cardinality(B) \in Nat
  BY <1>2, FS_CardinalityType
<1> QED BY <1>2, <1>4, <1>5

\* A ranking selects by rank.
LEMMA RankingSelects ==
  ASSUME NEW n \in Nat \ {0}, NEW y, NEW T, Enumerates(y, n, T), NEW number,
         \A p \in 1 .. n : number[p] = Judged(y[p]) /\ number[p] \in Int,
         NEW o, Ranking(o, n, number), Wanted(n, SelectionAreas) \subseteq 1 .. n
  PROVE  SelectsByRank({y[o[p]] : p \in Wanted(n, SelectionAreas)}, T)
<1> DEFINE W == Wanted(n, SelectionAreas)
           selected == {y[o[p]] : p \in W}
           z == [p \in 1 .. n |-> y[o[p]]]
           Under(token) == {x \in T : Judged(x) < Judged(token)}
           Upto(token) == {x \in T : Judged(x) <= Judged(token)}
           Places(token) == Cardinality(Under(token)) + 1 .. Cardinality(Upto(token))
<1>1. /\ o \in [1 .. n -> 1 .. n] /\ (\A p, q \in 1 .. n : o[p] = o[q] => p = q)
      /\ (\A j \in 1 .. n : \E p \in 1 .. n : o[p] = j)
      /\ \A p, q \in 1 .. n : p < q => number[o[p]] <= number[o[q]]
  BY DEF Ranking, Orders
<1>2. IsFiniteSet(T) /\ Cardinality(T) = n
  BY EnumeratedCount
<1>3. /\ \A p, q \in 1 .. n : y[p] = y[q] => p = q
      /\ T = {y[p] : p \in 1 .. n}
  BY DEF Enumerates
<1>4. /\ \A p \in 1 .. n : z[p] = y[o[p]] /\ z[p] \in T /\ Judged(z[p]) \in Int
      /\ \A p, q \in 1 .. n : z[p] = z[q] => p = q
      /\ \A x \in T : \E p \in 1 .. n : z[p] = x
      /\ \A p, q \in 1 .. n : p < q => Judged(z[p]) <= Judged(z[q])
  <2>1. \A p \in 1 .. n : z[p] = y[o[p]]
    OBVIOUS
  <2> HIDE DEF z, W, selected, Under, Upto, Places
  <2>2. \A p \in 1 .. n : o[p] \in 1 .. n
    BY <1>1
  <2>3. ASSUME NEW p \in 1 .. n PROVE z[p] \in T /\ Judged(z[p]) \in Int /\ Judged(z[p]) = number[o[p]]
    BY <1>3, <2>1, <2>2
  <2>4. ASSUME NEW p \in 1 .. n, NEW q \in 1 .. n, z[p] = z[q] PROVE p = q
    <3>1. o[p] \in 1 .. n /\ o[q] \in 1 .. n /\ y[o[p]] = y[o[q]]
      BY <2>1, <2>2, <2>4
    <3>2. o[p] = o[q]
      BY <1>3, <3>1
    <3> QED BY <1>1, <3>2
  <2>5. ASSUME NEW x \in T PROVE \E p \in 1 .. n : z[p] = x
    <3>1. PICK j \in 1 .. n : y[j] = x
      BY <1>3
    <3>2. PICK p \in 1 .. n : o[p] = j
      BY <1>1
    <3> QED BY <2>1, <3>1, <3>2
  <2>6. ASSUME NEW p \in 1 .. n, NEW q \in 1 .. n, p < q PROVE Judged(z[p]) <= Judged(z[q])
    <3>1. Judged(z[p]) = number[o[p]] /\ Judged(z[q]) = number[o[q]]
      BY <2>3
    <3>2. number[o[p]] <= number[o[q]]
      BY <1>1, <2>6
    <3> QED BY <3>1, <3>2
  <2> QED BY <2>1, <2>3, <2>4, <2>5, <2>6
<1> HIDE DEF z
<1>5. W \in SUBSET (1 .. n) /\ selected = {z[p] : p \in W}
  BY <1>4
<1> HIDE DEF W, selected
<1>6. Cardinality(selected) = Cardinality(W)
  <2> DEFINE g == [p \in W |-> z[p]]
  <2>1. g \in [W -> selected]
    BY <1>5
  <2>2. IsInjective(g)
    BY <1>4, <1>5 DEF IsInjective
  <2>3. g \in Injection(W, selected) /\ g \in Surjection(W, selected)
    BY <1>5, <2>1, <2>2 DEF Injection, Surjection
  <2>4. IsFiniteSet(W)
    <3>1. IsFiniteSet(1 .. n)
      BY FS_Interval
    <3> QED BY <1>5, <3>1, FS_Subset
  <2> HIDE DEF g
  <2> QED BY <2>3, <2>4, FS_Surjection
<1>7. ASSUME NEW p \in 1 .. n PROVE p \in Places(z[p])
  <2> DEFINE L == Under(z[p])
             U == Upto(z[p])
  <2>1. IsFiniteSet(L) /\ IsFiniteSet(U) /\ L \subseteq T /\ U \subseteq T
    BY <1>2, FS_Subset
  <2>2. \A x \in L : \E q \in 1 .. p - 1 : z[q] = x
    <3> SUFFICES ASSUME NEW x \in L PROVE \E q \in 1 .. p - 1 : z[q] = x
      OBVIOUS
    <3>1. PICK q \in 1 .. n : z[q] = x
      BY <1>4
    <3>2. Judged(z[q]) < Judged(z[p]) /\ Judged(z[q]) \in Int /\ Judged(z[p]) \in Int
      BY <1>4, <3>1
    <3>3. ~(p < q) /\ p # q
      <4>1. p < q => Judged(z[p]) <= Judged(z[q])
        BY <1>4
      <4> QED BY <3>2, <4>1
    <3> QED BY <3>1, <3>3
  <2>3. ASSUME NEW q \in 1 .. p PROVE z[q] \in U
    <3>1. q \in 1 .. n
      OBVIOUS
    <3>2. CASE q = p
      BY <1>4, <3>2
    <3>3. CASE q # p
      <4>1. Judged(z[q]) <= Judged(z[p])
        BY <1>4, <3>1, <3>3
      <4> QED BY <1>4, <3>1, <4>1
    <3> QED BY <3>2, <3>3
  <2> HIDE DEF L, U
  <2>4. Cardinality(L) <= p - 1
    <3>1. p - 1 \in Nat /\ Cardinality(1 .. p - 1) = p - 1 /\ IsFiniteSet(1 .. p - 1)
      BY FS_Interval
    <3> QED BY <2>1, <2>2, <3>1, FilledFrom
  <2>5. p <= Cardinality(U)
    <3> DEFINE g == [q \in 1 .. p |-> z[q]]
    <3>1. g \in [1 .. p -> U]
      BY <2>3
    <3>2. IsInjective(g)
      BY <1>4 DEF IsInjective
    <3>3. g \in Injection(1 .. p, U)
      BY <3>1, <3>2 DEF Injection
    <3> HIDE DEF g
    <3>4. Cardinality(1 .. p) = p /\ IsFiniteSet(1 .. p)
      BY FS_Interval
    <3>5. Cardinality(1 .. p) <= Cardinality(U)
      BY <2>1, <3>3, <3>4, FS_Injection
    <3> QED BY <3>4, <3>5
  <2>6. Cardinality(L) \in Nat /\ Cardinality(U) \in Nat
    BY <2>1, FS_CardinalityType
  <2> DEFINE a == Cardinality(L)
             b == Cardinality(U)
  <2>7. p \in a + 1 .. b
    <3> HIDE DEF a, b
    <3>1. a \in Nat /\ b \in Nat /\ a <= p - 1 /\ p <= b
      BY <2>4, <2>5, <2>6 DEF a, b
    <3> QED BY <3>1
  <2> QED BY <2>7 DEF L, U
<1> HIDE DEF Places
<1>8. ASSUME NEW x \in T
      PROVE  /\ Places(x) \subseteq W => x \in selected
             /\ Places(x) \cap W = {} => x \notin selected
  <2>1. PICK p \in 1 .. n : z[p] = x
    BY <1>4
  <2>2. p \in Places(x)
    BY <1>7, <2>1
  <2>3. x \in selected <=> p \in W
    BY <1>4, <1>5, <2>1
  <2> QED BY <2>2, <2>3
<1>9. T # {} =>
        /\ Cardinality(selected) = Cardinality(UNION {Interval(Cardinality(T), area[1], area[2]) : area \in SelectionAreas})
        /\ \A x \in T :
             /\ Places(x) \subseteq UNION {Interval(Cardinality(T), area[1], area[2]) : area \in SelectionAreas} => x \in selected
             /\ Places(x) \cap UNION {Interval(Cardinality(T), area[1], area[2]) : area \in SelectionAreas} = {} => x \notin selected
  <2>1. UNION {Interval(Cardinality(T), area[1], area[2]) : area \in SelectionAreas} = W
    BY <1>2 DEF W, Wanted
  <2> QED BY <1>6, <1>8, <2>1
<1>10. SelectsByRank(selected, T)
  BY <1>9, Zenon DEF SelectsByRank, Places, Under, Upto, Judged
<1> QED BY <1>10 DEF selected, W

\* The intervals a mode stands for are not empty.
LEMMA SelectionAreasAre ==
  ASSUME cfg \in Configs, cfg.mode \in RankingModes
  PROVE  \A area \in SelectionAreas : Percents(area)
<1>1. cfg.fraction \in 1 .. 100 /\ \A area \in {cfg.ladder} \cup cfg.areas : Percents(area)
  BY ConfigsAssumption DEF Percents
<1>2. Percents(<<100 - cfg.fraction, 100>>) /\ Percents(<<0, cfg.fraction>>)
  BY <1>1 DEF Percents
<1>3. SelectionAreas \subseteq {<<100 - cfg.fraction, 100>>, <<0, cfg.fraction>>} \cup ({cfg.ladder} \cup cfg.areas)
  BY DEF SelectionAreas, AreasOf, RankingModes
<1> QED BY <1>1, <1>2, <1>3

\* A mask of areas selects by rank, under whatever names the tokens have.
LEMMA RankedTokens ==
  ASSUME cfg \in Configs, cfg.mode \in RankingModes, NEW n \in Nat, NEW tokens, NEW T,
         Enumerates(tokens, n, T), NEW divergence, NEW f,
         \A x \in T : divergence[x] = Judged(f[x]) /\ divergence[x] \in Int,
         \A x, y \in T : f[x] = f[y] => x = y
  PROVE  /\ AreasMask(tokens, divergence, SelectionAreas) \subseteq T
         /\ SelectsByRank({f[x] : x \in AreasMask(tokens, divergence, SelectionAreas)}, {f[x] : x \in T})
<1> DEFINE areas == SelectionAreas
           mask == AreasMask(tokens, divergence, areas)
           number == [p \in 1 .. n |-> divergence[tokens[p]]]
           y == [p \in 1 .. n |-> f[tokens[p]]]
           W == Wanted(n, areas)
<1>1. /\ Column(tokens, n) /\ (\A p, q \in 1 .. n : tokens[p] = tokens[q] => p = q)
      /\ T = {tokens[p] : p \in 1 .. n}
  BY DEF Enumerates
<1>2. \A p \in 1 .. n : tokens[p] \in T /\ divergence[tokens[p]] \in Int
  BY <1>1
<1>3. CASE n = 0
  <2>1. tokens = <<>>
    <3> DEFINE S == {tokens[p] : p \in 1 .. n}
    <3>1. Len(tokens) = n /\ tokens \in Seq(S)
      BY <1>1, ColumnIs
    <3> HIDE DEF S
    <3> QED BY <1>3, <3>1, EmptySeq
  <2>2. mask = {}
    BY <2>1 DEF AreasMask, LadderMask
  <2>3. T = {}
    BY <1>1, <1>3
  <2>4. {f[x] : x \in T} = {}
    BY <2>3
  <2>5. SelectsByRank({f[x] : x \in mask}, {f[x] : x \in T})
    BY <2>4, Zenon DEF SelectsByRank
  <2> QED BY <2>2, <2>5
<1>4. CASE n # 0
  <2>1. n \in Nat \ {0}
    BY <1>4
  <2>2. RankedMask(tokens, n, number, areas, mask) /\ W \subseteq 1 .. n
    BY <1>1, <1>2, <2>1, SelectionAreasAre, AreasMaskIs
  <2>3. PICK o : Ranking(o, n, number) /\ mask = {tokens[o[p]] : p \in W}
    BY <2>2 DEF RankedMask
  <2>4. \A p \in W : o[p] \in 1 .. n
    BY <2>2, <2>3 DEF Ranking, Orders
  <2>5. mask \subseteq T
    BY <1>2, <2>3, <2>4
  <2>6. Enumerates(y, n, {f[x] : x \in T})
    <3>1. Column(y, n)
      BY DEF Column
    <3>2. \A p \in 1 .. n : y[p] = f[tokens[p]]
      OBVIOUS
    <3> HIDE DEF y
    <3>3. ASSUME NEW p \in 1 .. n, NEW q \in 1 .. n, y[p] = y[q] PROVE p = q
      <4>1. tokens[p] = tokens[q]
        BY <1>2, <3>2, <3>3
      <4> QED BY <1>1, <4>1
    <3>4. {f[x] : x \in T} = {y[p] : p \in 1 .. n}
      BY <1>1, <3>2
    <3> QED BY <3>1, <3>3, <3>4 DEF Enumerates
  <2>7. \A p \in 1 .. n : number[p] = Judged(y[p]) /\ number[p] \in Int
    BY <1>2
  <2>8. {y[o[p]] : p \in W} = {f[x] : x \in mask}
    <3>1. \A p \in W : y[o[p]] = f[tokens[o[p]]]
      BY <2>4
    <3> HIDE DEF y, W, mask
    <3> QED BY <2>3, <3>1
  <2> HIDE DEF y, number
  <2>9. SelectsByRank({y[o[p]] : p \in W}, {f[x] : x \in T})
    BY <2>1, <2>2, <2>3, <2>6, <2>7, RankingSelects
  <2> QED BY <2>5, <2>8, <2>9
<1> QED BY <1>3, <1>4

-----------------------------------------------------------------------------
\* The tokens a rank selects in its rows.

\* Of one row.
OwnPart(r, data, i) ==
  CASE cfg.mode = "off"      -> ToSet(RowTokens(data, i))
    [] cfg.mode = "random"   ->
         LET tokens == RowTokens(data, i)
             keep   == KeepCount(Len(tokens), 0, cfg.fraction)
         IN  IF tokens = <<>> THEN {} ELSE {tokens[p] : p \in Drawn(SeedOf(r), i, Len(tokens), keep)}
    [] cfg.mode = "absolute" -> AbsoluteMask(RowTokens(data, i), JsOf(data), cfg.threshold)
    [] OTHER                 -> AreasMask(RowTokens(data, i), JsOf(data), SelectionAreas)

\* SelectsByRank, of a configuration.
AreasIn(c) == AreasOf(c.mode, c.fraction, c.ladder, c.areas)
PlacesIn(tokens, token) ==
  Cardinality({x \in tokens : Judged(x) < Judged(token)}) + 1
  .. Cardinality({x \in tokens : Judged(x) <= Judged(token)})
SelectsIn(c, selected, tokens) ==
  LET wanted == Wanted(Cardinality(tokens), AreasIn(c))
  IN  tokens # {} =>
        /\ Cardinality(selected) = Cardinality(wanted)
        /\ \A token \in tokens :
             /\ PlacesIn(tokens, token) \subseteq wanted => token \in selected
             /\ PlacesIn(tokens, token) \cap wanted = {} => token \notin selected

\* It is the same.
LEMMA SelectsInIs ==
  ASSUME NEW selected, NEW tokens
  PROVE  SelectsByRank(selected, tokens) <=> SelectsIn(cfg, selected, tokens)
<1>1. SelectionAreas = AreasIn(cfg)
  BY DEF SelectionAreas, AreasIn
<1> QED BY <1>1, Zenon DEF SelectsByRank, SelectsIn, PlacesIn, Wanted, Judged

\* That is what a mode means for it: M of its valid positions V.
Meant(c, id, V, M) ==
  /\ M \subseteq V
  /\ c.mode = "off" => M = V
  /\ c.mode = "absolute" => M = {t \in V : Divergence(id, t) >= c.threshold}
  /\ c.mode = "random" => (V # {} => Cardinality(M) = KeepCount(Cardinality(V), 0, c.fraction))
  /\ c.mode \in RankingModes => SelectsIn(c, {<<id, t>> : t \in M}, {<<id, t>> : t \in V})

\* A row of which the divergences are known.
JudgedRow(data, i) ==
  /\ i \in 1 .. Rows(data)
  /\ data.responses[i].valid \subseteq 1 .. ResponseLength
  /\ \A t \in 1 .. ResponseLength :
       /\ data.js_divergence[i][t] = Divergence(data.responses[i].id, t)
       /\ Divergence(data.responses[i].id, t) \in Int

\* The parts of the rows make the selection.
LEMMA OwnParts ==
  ASSUME NEW r, NEW data
  PROVE  OwnSelection(r, data) = UNION {OwnPart(r, data, i) : i \in 1 .. Rows(data)}
<1>1. CASE cfg.mode = "off"
  BY <1>1 DEF OwnSelection, OwnPart, AllTokens
<1>2. CASE cfg.mode = "random"
  BY <1>2 DEF OwnSelection, OwnPart, RandomMask
<1>3. CASE cfg.mode = "absolute"
  BY <1>3 DEF OwnSelection, OwnPart
<1>4. CASE cfg.mode \notin {"off", "random", "absolute"}
  BY <1>4 DEF OwnSelection, OwnPart
<1> QED BY <1>1, <1>2, <1>3, <1>4

\* The seed of a rank is a number.
LEMMA SeedIs ==
  ASSUME cfg \in Configs, NEW r \in Ranks
  PROVE  SeedOf(r) \in Nat
<1> DEFINE g == cfg.globalStep - 1
           m == Max({g, 0})
           d == Dp
           u == DpRank(r)
<1>1. d \in Nat /\ u \in Nat
  <2>1. Meshed(cfg, Dp) /\ u \in 0 .. d - 1
    BY MeshIs, DealtToIs
  <2> QED BY <2>1 DEF Meshed
<1>2. m \in Nat
  <2>1. g \in Int
    BY ConfigsAssumption
  <2> HIDE DEF g
  <2>2. \E x \in {g, 0} : \A j \in {g, 0} : x >= j
    BY <2>1
  <2>3. m \in {g, 0} /\ \A j \in {g, 0} : m >= j
    BY <2>2 DEF Max
  <2> HIDE DEF m
  <2> QED BY <2>1, <2>3
<1>3. SeedOf(r) = m * d + u
  BY DEF SeedOf
<1> HIDE DEF m, d, u
<1> QED BY <1>1, <1>2, <1>3

\* What is selected of the tokens of one row, as positions.
SpotsOf(i, V, part) == {t \in V : <<i, t>> \in part}

\* What is drawn of some tokens.
DrawnOf(x, seed, i, fraction) == {x[p] : p \in Drawn(seed, i, Len(x), KeepCount(Len(x), 0, fraction))}

\* As many positions of row i as a random selection keeps of V.
DrawnFrom(i, V, x, fraction, drawn) ==
  /\ drawn \subseteq {<<i, t>> : t \in V}
  /\ x # <<>>
  /\ Cardinality(SpotsOf(i, V, drawn)) = KeepCount(Cardinality(V), 0, fraction)

\* Random selection keeps as many as it counts.
LEMMA RandomPart ==
  ASSUME cfg \in Configs, NEW r \in Ranks, NEW data, NEW i \in Nat, NEW V, data.responses[i].valid = V,
         V \subseteq 1 .. ResponseLength, V # {}
  PROVE  DrawnFrom(i, V, RowTokens(data, i), cfg.fraction,
                   DrawnOf(RowTokens(data, i), SeedOf(r), i, cfg.fraction))
<1> DEFINE seed == SeedOf(r)
           fraction == cfg.fraction
           x == RowTokens(data, i)
           drawn == DrawnOf(x, seed, i, fraction)
<1>a. seed \in Nat /\ fraction \in 1 .. 100
  BY SeedIs, ConfigsAssumption
<1>b. drawn = DrawnOf(x, seed, i, fraction) /\ x = RowTokens(data, i)
  OBVIOUS
<1> HIDE DEF seed, fraction, x, drawn
<1> DEFINE n == Cardinality(V)
           tokens == RowTokens(data, i)
           keep == KeepCount(n, 0, fraction)
           e == seed + i
           o == Turned(n, e)
           part == {tokens[p] : p \in Drawn(seed, i, n, keep)}
           M == SpotsOf(i, V, part)
           s == [j \in 1 .. keep |-> tokens[o[j]][2]]
<1>1. n \in Nat /\ Enumerates(tokens, n, {<<i, t>> : t \in V})
  BY RowTokensAre
<1>2. n \in Nat \ {0}
  <2>1. IsFiniteSet(V)
    <3>1. IsFiniteSet(1 .. ResponseLength)
      BY LengthsAssumption, FS_Interval
    <3> QED BY <3>1, FS_Subset
  <2>2. n # 0
    BY <2>1, FS_EmptySet
  <2> QED BY <1>1, <2>2
<1> HIDE DEF n, tokens
<1>3. Column(tokens, n) /\ Len(tokens) = n /\ tokens # <<>>
  <2>1. Column(tokens, n) /\ Len(tokens) = n
    BY <1>1, ColumnIs DEF Enumerates
  <2> QED BY <1>2, <2>1
<1>4. /\ \A p, q \in 1 .. n : tokens[p] = tokens[q] => p = q
      /\ {<<i, t>> : t \in V} = {tokens[p] : p \in 1 .. n}
  BY <1>1 DEF Enumerates
<1>5. keep \in 1 .. n
  <2>1. 0 \in Nat /\ fraction \in 1 .. 100 /\ 0 < fraction
    BY <1>a
  <2> QED BY <1>2, <2>1, KeepCountIs
<1>6. /\ \A j \in 1 .. n : o[j] \in 1 .. n
      /\ \A j, h \in 1 .. n : o[j] = o[h] => j = h
  <2>1. e \in Nat
    BY <1>a
  <2> HIDE DEF e
  <2>2. o \in Orders(n)
    BY <1>2, <2>1, TurnedIs
  <2> QED BY <2>2 DEF Orders
<1>0. keep \in Nat /\ n \in Nat /\ keep <= n
  <2> HIDE DEF keep
  <2> QED BY <1>1, <1>5
<1>7. Drawn(seed, i, n, keep) = {o[j] : j \in 1 .. keep}
  <2>1. \A j \in 1 .. keep : j \in 1 .. n
    <3> HIDE DEF keep, o, e
    <3> QED BY <1>0
  <2>2. \A j \in 1 .. n : o[j] = ((j + e) % n) + 1
    BY DEF Turned
  <2>3. \A j \in 1 .. n : seed + i + j = j + e
    BY <1>2, <1>a
  <2>4. \A j \in 1 .. keep : ((seed + i + j) % n) + 1 = o[j]
    BY <2>1, <2>2, <2>3
  <2> HIDE DEF o, e
  <2> QED BY <2>4 DEF Drawn
<1> HIDE DEF keep, o, e
<1>8. part = {tokens[o[j]] : j \in 1 .. keep}
  BY <1>7
<1>9. ASSUME NEW j \in 1 .. keep
      PROVE  /\ j \in 1 .. n /\ o[j] \in 1 .. n /\ tokens[o[j]] \in part
             /\ s[j] \in V /\ tokens[o[j]] = <<i, s[j]>>
  <2>1. j \in 1 .. n /\ o[j] \in 1 .. n /\ tokens[o[j]] \in part
    <3>1. j \in 1 .. n
      BY <1>0
    <3> HIDE DEF part
    <3> QED BY <1>6, <1>8, <3>1
  <2>2. PICK t \in V : tokens[o[j]] = <<i, t>>
    BY <1>4, <2>1
  <2>3. s[j] = t
    BY <2>2
  <2> QED BY <2>1, <2>2, <2>3
<1>10. part \subseteq {<<i, t>> : t \in V}
  BY <1>8, <1>9
<1>11. Enumerates(s, keep, M)
  <2>1. Column(s, keep)
    BY DEF Column
  <2> HIDE DEF s, part
  <2>2. ASSUME NEW j \in 1 .. keep, NEW h \in 1 .. keep, s[j] = s[h] PROVE j = h
    <3>1. tokens[o[j]] = tokens[o[h]]
      BY <1>9, <2>2
    <3>2. o[j] = o[h]
      BY <1>4, <1>9, <3>1
    <3> QED BY <1>6, <1>9, <3>2
  <2>3. M = {s[j] : j \in 1 .. keep}
    <3>1. ASSUME NEW j \in 1 .. keep PROVE s[j] \in M
      <4>1. s[j] \in V /\ <<i, s[j]>> \in part
        BY <1>9
      <4> QED BY <4>1 DEF SpotsOf
    <3>2. ASSUME NEW t \in M PROVE \E j \in 1 .. keep : s[j] = t
      <4>1. t \in V /\ <<i, t>> \in part
        BY DEF SpotsOf
      <4>2. PICK j \in 1 .. keep : tokens[o[j]] = <<i, t>>
        BY <1>8, <4>1
      <4>3. <<i, s[j]>> = <<i, t>>
        BY <1>9, <4>2
      <4> QED BY <4>3
    <3> HIDE DEF M
    <3> QED BY <3>1, <3>2
  <2> QED BY <2>1, <2>2, <2>3 DEF Enumerates
<1> HIDE DEF s, part, M
<1>12. Cardinality(M) = keep
  BY <1>0, <1>11, EnumeratedCount, Zenon
<1>13. x = tokens
  BY <1>b DEF tokens
<1>14. drawn = part
  BY <1>3, <1>13, <1>b DEF part, keep, DrawnOf
<1>15. x # <<>> /\ drawn \subseteq {<<i, t>> : t \in V}
  BY <1>3, <1>10, <1>13, <1>14
<1>16. Cardinality(SpotsOf(i, V, drawn)) = KeepCount(Cardinality(V), 0, fraction)
  BY <1>12, <1>14 DEF keep, M, n
<1>17. DrawnFrom(i, V, x, fraction, drawn)
  BY <1>15, <1>16 DEF DrawnFrom
<1> QED BY <1>17 DEF drawn, x, seed, fraction

\* The divergence of a token.
LEMMA JsIs ==
  ASSUME NEW data, NEW i \in 1 .. Rows(data), NEW t \in 1 .. ResponseLength
  PROVE  JsOf(data)[<<i, t>>] = data.js_divergence[i][t]
<1>1. <<i, t>> \in (1 .. Rows(data)) \X (1 .. ResponseLength)
  OBVIOUS
<1>2. <<i, t>>[1] = i /\ <<i, t>>[2] = t
  OBVIOUS
<1> DEFINE x == <<i, t>>
<1> HIDE DEF x
<1>3. x \in (1 .. Rows(data)) \X (1 .. ResponseLength) /\ x[1] = i /\ x[2] = t
  BY <1>1, <1>2 DEF x
<1>4. JsOf(data)[x] = data.js_divergence[x[1]][x[2]]
  BY <1>3 DEF JsOf
<1> QED BY <1>3, <1>4 DEF x

\* A rank selects in a row what the mode means.
LEMMA PartMeans ==
  ASSUME cfg \in Configs, NEW r \in Ranks, NEW data, NEW i \in Nat, JudgedRow(data, i)
  PROVE  LET row == data.responses[i]
         IN  /\ OwnPart(r, data, i) \subseteq {<<i, t>> : t \in row.valid}
             /\ Meant(cfg, row.id, row.valid, SpotsOf(i, row.valid, OwnPart(r, data, i)))
<1> DEFINE id == data.responses[i].id
           V == data.responses[i].valid
           part == OwnPart(r, data, i)
           M == SpotsOf(i, V, part)
           n == Cardinality(V)
           tokens == RowTokens(data, i)
           T == {<<i, t>> : t \in V}
           D == JsOf(data)
<1>1. /\ i \in 1 .. Rows(data) /\ V \subseteq 1 .. ResponseLength
      /\ \A t \in 1 .. ResponseLength : data.js_divergence[i][t] = Divergence(id, t) /\ Divergence(id, t) \in Int
  BY DEF JudgedRow
<1>2. n \in Nat /\ Enumerates(tokens, n, T)
  BY <1>1, RowTokensAre
<1>3. \A t \in V : D[<<i, t>>] = Divergence(id, t) /\ Divergence(id, t) \in Int
  BY <1>1, JsIs
<1>4. ToSet(tokens) = T
  <2>1. DOMAIN tokens = 1 .. n /\ T = {tokens[p] : p \in 1 .. n}
    BY <1>2, ColumnIs DEF Enumerates
  <2> HIDE DEF tokens, n, T
  <2> QED BY <2>1 DEF ToSet
<1>5. cfg.mode \in {"off", "absolute", "random"} \cup RankingModes /\ cfg.fraction \in 1 .. 100
  BY ConfigsAssumption
<1>6. CASE cfg.mode = "off"
  <2>1. part = T
    BY <1>4, <1>6 DEF OwnPart
  <2>2. M = V
    BY <2>1 DEF SpotsOf
  <2> QED BY <1>6, <2>1, <2>2 DEF Meant, RankingModes
<1>7. CASE cfg.mode = "absolute"
  <2>1. part = {x \in T : D[x] >= cfg.threshold}
    BY <1>4, <1>7 DEF OwnPart, AbsoluteMask
  <2>2. M = {t \in V : Divergence(id, t) >= cfg.threshold}
    <3>1. \A t \in V : <<i, t>> \in T
      OBVIOUS
    <3>2. \A t \in V : <<i, t>> \in part <=> Divergence(id, t) >= cfg.threshold
      <4> HIDE DEF part, D, T
      <4> QED BY <1>3, <2>1, <3>1
    <3> HIDE DEF part
    <3> QED BY <3>2 DEF SpotsOf
  <2>3. part \subseteq T
    BY <2>1
  <2> QED BY <1>7, <2>2, <2>3 DEF Meant, RankingModes
<1>8. CASE cfg.mode = "random"
  <2>1. part = IF tokens = <<>> THEN {}
               ELSE {tokens[p] : p \in Drawn(SeedOf(r), i, Len(tokens), KeepCount(Len(tokens), 0, cfg.fraction))}
    BY <1>8 DEF OwnPart
  <2>2. SeedOf(r) \in Nat
    BY SeedIs
  <2>3. CASE V = {}
    <3>1. n = 0 /\ T = {}
      BY <2>3, FS_EmptySet
    <3>2. tokens = <<>>
      <4> DEFINE S == {tokens[p] : p \in 1 .. n}
      <4>1. Len(tokens) = n /\ tokens \in Seq(S)
        BY <1>2, ColumnIs DEF Enumerates
      <4> HIDE DEF S, tokens, n
      <4> QED BY <3>1, <4>1, EmptySeq
    <3>3. part = {}
      BY <2>1, <3>2
    <3> QED BY <1>8, <2>3, <3>3 DEF Meant, RankingModes, SpotsOf
  <2>4. CASE V # {}
    <3> DEFINE drawn == {tokens[p] : p \in Drawn(SeedOf(r), i, Len(tokens), KeepCount(Len(tokens), 0, cfg.fraction))}
    <3>0. DrawnFrom(i, V, tokens, cfg.fraction, drawn)
      <4>1. drawn = DrawnOf(tokens, SeedOf(r), i, cfg.fraction)
        BY DEF DrawnOf
      <4>2. DrawnFrom(i, V, tokens, cfg.fraction, DrawnOf(tokens, SeedOf(r), i, cfg.fraction))
        BY <1>1, <2>4, RandomPart
      <4> HIDE DEF drawn, tokens, V
      <4> QED BY <4>1, <4>2
    <3>1. /\ drawn \subseteq {<<i, t>> : t \in V} /\ tokens # <<>>
          /\ Cardinality(SpotsOf(i, V, drawn)) = KeepCount(Cardinality(V), 0, cfg.fraction)
      <4> HIDE DEF drawn, tokens, V
      <4> QED BY <3>0 DEF DrawnFrom
    <3>2. part = drawn
      BY <2>1, <3>1
    <3> HIDE DEF drawn, part
    <3>3. M \subseteq V
      BY DEF SpotsOf
    <3>4. part \subseteq T /\ Cardinality(M) = KeepCount(Cardinality(V), 0, cfg.fraction)
      BY <3>1, <3>2
    <3> HIDE DEF M, V, T
    <3>5. Meant(cfg, id, V, M)
      BY <1>8, <3>3, <3>4 DEF Meant, RankingModes
    <3> QED BY <3>4, <3>5 DEF M, V, T, part
  <2> QED BY <2>3, <2>4
<1>9. CASE cfg.mode \in RankingModes
  <2> DEFINE f == [x \in T |-> <<id, x[2]>>]
  <2>1. part = AreasMask(tokens, D, SelectionAreas)
    BY <1>9 DEF OwnPart, RankingModes
  <2>2. \A t \in V : <<i, t>> \in T /\ f[<<i, t>>] = <<id, t>>
    OBVIOUS
  <2>3. \A x \in T : \E t \in V : x = <<i, t>>
    OBVIOUS
  <2> HIDE DEF f, T
  <2>4. \A x \in T : D[x] = Judged(f[x]) /\ D[x] \in Int
    <3> SUFFICES ASSUME NEW x \in T PROVE D[x] = Judged(f[x]) /\ D[x] \in Int
      OBVIOUS
    <3>1. PICK t \in V : x = <<i, t>>
      BY <2>3
    <3>2. f[x] = <<id, t>>
      BY <2>2, <3>1
    <3>3. Judged(f[x]) = Divergence(id, t)
      BY <3>2 DEF Judged
    <3> QED BY <1>3, <3>1, <3>3
  <2>5. \A x, y \in T : f[x] = f[y] => x = y
    <3> SUFFICES ASSUME NEW x \in T, NEW y \in T, f[x] = f[y] PROVE x = y
      OBVIOUS
    <3>1. PICK t \in V : x = <<i, t>>
      BY <2>3
    <3>2. PICK u \in V : y = <<i, u>>
      BY <2>3
    <3>3. <<id, t>> = <<id, u>>
      BY <2>2, <3>1, <3>2
    <3> QED BY <3>1, <3>2, <3>3
  <2> HIDE DEF D, tokens, n, part
  <2>6. part \subseteq T /\ SelectsByRank({f[x] : x \in part}, {f[x] : x \in T})
    BY <1>2, <1>9, <2>1, <2>4, <2>5, RankedTokens
  <2>7. {f[x] : x \in T} = {<<id, t>> : t \in V}
    <3>1. ASSUME NEW x \in T PROVE \E t \in V : f[x] = <<id, t>>
      <4>1. PICK t \in V : x = <<i, t>>
        BY <2>3
      <4> QED BY <2>2, <4>1
    <3> QED BY <2>2, <3>1
  <2>8. {f[x] : x \in part} = {<<id, t>> : t \in M}
    <3>1. ASSUME NEW x \in part PROVE \E t \in M : f[x] = <<id, t>>
      <4>1. PICK t \in V : x = <<i, t>>
        BY <2>3, <2>6
      <4>2. t \in M
        BY <4>1 DEF SpotsOf
      <4> QED BY <2>2, <4>1, <4>2
    <3>2. ASSUME NEW t \in M PROVE \E x \in part : f[x] = <<id, t>>
      <4>1. t \in V /\ <<i, t>> \in part
        BY DEF SpotsOf
      <4> QED BY <2>2, <4>1
    <3> HIDE DEF M
    <3> QED BY <3>1, <3>2
  <2>9. M \subseteq V /\ cfg.mode \notin {"off", "absolute", "random"}
    BY <1>9 DEF SpotsOf, RankingModes
  <2> HIDE DEF M
  <2>10. Meant(cfg, id, V, M)
    BY <2>6, <2>7, <2>8, <2>9, SelectsInIs DEF Meant
  <2> QED BY <2>6, <2>10 DEF T, M, part
<1> QED BY <1>5, <1>6, <1>7, <1>8, <1>9

\* A rank's own mask has of every row what the mode means.
MaskName == "js_token_selection_mask"
RowMeant(c, data, i) ==
  LET row == data.responses[i]
  IN  MaskName \in DOMAIN data /\ Meant(c, row.id, row.valid, row.valid \cap data.js_token_selection_mask[i])

\* The mask of a row is its own part of the selection.
LEMMA OwnMask ==
  ASSUME cfg \in Configs, NEW r \in Ranks, NEW data, NEW n \in Nat, n = Rows(data),
         \A j \in 1 .. n : JudgedRow(data, j), NEW i \in 1 .. n
  PROVE  data.responses[i].valid \cap MaskColumn(data, OwnSelection(r, data))[i]
           = SpotsOf(i, data.responses[i].valid, OwnPart(r, data, i))
<1> DEFINE S == OwnSelection(r, data)
           P(j) == OwnPart(r, data, j)
           V(j) == data.responses[j].valid
           x == MaskColumn(data, S)
<1>1. S = UNION {P(j) : j \in 1 .. n}
  BY OwnParts
<1>2. \A j \in 1 .. n : P(j) \subseteq {<<j, t>> : t \in V(j)}
  <2> SUFFICES ASSUME NEW j \in 1 .. n PROVE P(j) \subseteq {<<j, t>> : t \in V(j)}
    OBVIOUS
  <2>1. j \in Nat /\ JudgedRow(data, j)
    OBVIOUS
  <2> QED BY <2>1, PartMeans
<1>3. V(i) \subseteq 1 .. ResponseLength
  BY DEF JudgedRow
<1>4. x[i] = {t \in 1 .. ResponseLength : <<i, t>> \in S}
  BY DEF MaskColumn
<1> HIDE DEF S, P, x, V
<1>5. \A t : <<i, t>> \in S <=> <<i, t>> \in P(i)
  <2>1. ASSUME NEW t, <<i, t>> \in S PROVE <<i, t>> \in P(i)
    <3>1. PICK j \in 1 .. n : <<i, t>> \in P(j)
      BY <1>1, <2>1
    <3>2. PICK v \in V(j) : <<i, t>> = <<j, v>>
      BY <1>2, <3>1
    <3>3. i = j
      BY <3>2
    <3> QED BY <3>1, <3>3
  <2>2. ASSUME NEW t, <<i, t>> \in P(i) PROVE <<i, t>> \in S
    BY <1>1, <2>2
  <2> QED BY <2>1, <2>2
<1>6. V(i) \cap x[i] = SpotsOf(i, V(i), P(i))
  BY <1>3, <1>4, <1>5 DEF SpotsOf
<1> QED BY <1>6 DEF V, x, S, P

\* Joined to the data of a rank, the mask means that for each of its rows.
LEMMA OwnMasks ==
  ASSUME cfg \in Configs, NEW r \in Ranks, NEW data, NEW n \in Nat, Table(data, n), "responses" \in DOMAIN data,
         \A j \in 1 .. n : JudgedRow(data, j), NEW x,
         x = Union(data, [js_token_selection_mask |-> MaskColumn(data, OwnSelection(r, data))])
  PROVE  \A i \in 1 .. n : RowMeant(cfg, x, i)
<1> DEFINE column == MaskColumn(data, OwnSelection(r, data))
           o == [js_token_selection_mask |-> column]
<1>1. Rows(data) = n
  BY TableRows
<1>2. DOMAIN o = {MaskName} /\ o[MaskName] = column
  BY DEF MaskName
<1> HIDE DEF o, column
<1>3. x = [c \in DOMAIN data \cup DOMAIN o |-> IF c \in DOMAIN o THEN o[c] ELSE data[c]]
  BY DEF Union, o, column
<1>4. MaskName \in DOMAIN x /\ x.js_token_selection_mask = column
  BY <1>2, <1>3 DEF MaskName
<1> SUFFICES ASSUME NEW i \in 1 .. n PROVE RowMeant(cfg, x, i)
  OBVIOUS
<1>5. x.responses = data.responses
  BY <1>2, <1>3 DEF MaskName
<1> DEFINE row == data.responses[i]
           part == OwnPart(r, data, i)
<1>6. row.valid \cap column[i] = SpotsOf(i, row.valid, part)
  BY <1>1, OwnMask DEF column
<1>7. Meant(cfg, row.id, row.valid, SpotsOf(i, row.valid, part))
  <2>1. i \in Nat /\ JudgedRow(data, i)
    OBVIOUS
  <2> QED BY <2>1, PartMeans
<1> HIDE DEF part
<1>8. Meant(cfg, row.id, row.valid, row.valid \cap column[i])
  BY <1>6, <1>7
<1> QED BY <1>4, <1>5, <1>8 DEF RowMeant

-----------------------------------------------------------------------------
\* The mask on its way to the ranks.

\* Rows picked of picked rows.
LEMMA PickedTwice ==
  ASSUME NEW b, NEW n \in Nat, NEW q, NEW x, Picked(b, q, n, x), NEW m \in Nat, NEW p, \A i \in 1 .. m : p[i] \in 1 .. n,
         NEW y, Picked(x, p, m, y)
  PROVE  Picked(b, [i \in 1 .. m |-> q[p[i]]], m, y)
<1> DEFINE f == [i \in 1 .. m |-> q[p[i]]]
<1>1. \A i \in 1 .. m : f[i] = q[p[i]]
  OBVIOUS
<1> HIDE DEF f
<1> QED BY <1>1 DEF Picked

\* A rank is dealt rows next to each other, in all their columns.
LEMMA DealtPicked ==
  ASSUME cfg \in Configs, NEW n \in Nat, n % Dp = 0, NEW data, Table(data, n), NEW r \in Ranks
  PROVE  LET m == n \div Dp
         IN  /\ m \in Nat
             /\ Picked(data, [i \in 1 .. m |-> DpRank(r) * m + i], m, DispatchTo(data)[r])
             /\ \A i \in 1 .. m : DpRank(r) * m + i \in 1 .. n
<1> DEFINE d == Dp
           m == n \div d
           x == Chunk(data, d)
           u == DpRank(r)
           w == u + 1
           q == [i \in 1 .. m |-> u * m + i]
<1>1. DispatchTo(data)[r] = x[w]
  BY DEF DispatchTo
<1>2. d \in Nat \ {0} /\ u \in 0 .. d - 1
  BY MeshIs, DealtToIs DEF Meshed
<1>3. Chunked(data, d, m, x)
  BY <1>2, ChunkIs
<1>4. m \in Nat /\ d * m = n
  <2>1. d \in Nat \ {0} /\ n % d = 0
    BY <1>2
  <2> HIDE DEF d
  <2> QED BY <2>1, Shares
<1> HIDE DEF d, m, x, u
<1>5. w \in 1 .. d /\ w - 1 = u
  BY <1>2
<1>6. \A i \in 1 .. m : q[i] = u * m + i
  OBVIOUS
<1> HIDE DEF w, q
<1>7. Picked(data, q, m, x[w])
  BY <1>3, <1>5, <1>6 DEF Chunked, Picked
<1>8. \A i \in 1 .. m : u * m + i \in 1 .. n
  <2> SUFFICES ASSUME NEW i \in 1 .. m PROVE u * m + i \in 1 .. n
    OBVIOUS
  <2> DEFINE v == d - 1 - u
             y == u * m
             z == v * m
  <2>1. v \in Nat /\ u \in Nat
    BY <1>2
  <2>2. y \in Nat /\ z \in Nat
    <3> HIDE DEF v
    <3> QED BY <1>4, <2>1
  <2>3. (u + v + 1) * m = y + z + m
    <3> HIDE DEF v
    <3> QED BY <1>4, <2>1
  <2>4. u + v + 1 = d
    BY <1>2
  <2> HIDE DEF v, y, z
  <2>5. n = y + z + m
    BY <1>4, <2>3, <2>4
  <2> QED BY <1>4, <2>2, <2>5 DEF y
<1> QED BY <1>1, <1>4, <1>7, <1>8 DEF m, d, u, q

\* What a mini-batch has of the share of a rank: rows next to each other, where they are not drawn.
Cuts(model, k, r, m, q, x) ==
  /\ Picked(ShareFor(model, r), q, m, x)
  /\ \A i \in 1 .. m : q[i] \in 1 .. OfRank /\ (~Megatron => q[i] = (k - 1) * LocalMini + i)

\* It is cut out of it, after its rows were drawn in an order where make_iterator does that.
LEMMA MiniCuts ==
  ASSUME cfg \in Configs, Dealable, NEW model, NEW k \in 1 .. MiniBatches, NEW epoch \in Int, NEW r \in Ranks
  PROVE  LET m == PieceRows(OfRank, LocalMini, k)
         IN  m \in Nat /\ \E q : Cuts(model, k, r, m, q, MiniBatch(k, epoch, model)[r])
<1> DEFINE n == OfRank
           l == LocalMini
           m == PieceRows(n, l, k)
           a == (k - 1) * l
           e == Min({k * l, n})
           share == ShareFor(model, r)
           drawn == IF Megatron THEN Reorder(share, EpochOrder(Rows(share), epoch)) ELSE share
           g == Split(drawn, l)[k]
           p == [i \in 1 .. m |-> a + i]
<1>1. n \in Nat \ {0} /\ l \in Nat \ {0} /\ k \in 1 .. CeilDiv(n, l)
  BY NumbersAre
<1>2. Share(share, n)
  BY UpdateShares DEF ShareFor
<1>3. MiniBatch(k, epoch, model)[r] = g
  BY DEF MiniBatch, ShareFor
<1> HIDE DEF n, l, share
<1>4. /\ k \in 1 .. (n + l - 1) \div l
      /\ m \in Nat \ {0} /\ a \in Nat /\ e = a + m /\ a + m <= n
  BY <1>1, PieceRowsAre
<1>5. Table(share, n) /\ Rows(share) = n /\ DOMAIN share # {}
  BY <1>1, <1>2, TableRows DEF Share, Table
<1>6. \E o : Picked(share, o, n, drawn) /\ \A i \in 1 .. n : o[i] \in 1 .. n /\ (~Megatron => o[i] = i)
  <2>1. CASE Megatron
    <3> DEFINE o == EpochOrder(n, epoch)
    <3>1. o = [i \in 1 .. n |-> IF cfg.shuffle THEN ((i + epoch) % n) + 1 ELSE i]
      BY DEF EpochOrder
    <3>2. ASSUME NEW i \in 1 .. n PROVE o[i] \in 1 .. n
      <4> DEFINE y == i + epoch
                 z == y % n
      <4>1. y \in Int
        OBVIOUS
      <4> HIDE DEF y
      <4>2. z \in 0 .. n - 1
        BY <1>1, <4>1
      <4>3. o[i] = IF cfg.shuffle THEN z + 1 ELSE i
        BY <3>1 DEF y
      <4>4. z + 1 \in 1 .. n
        <5> HIDE DEF z
        <5> QED BY <1>1, <4>2
      <4> HIDE DEF z, o
      <4> QED BY <4>3, <4>4
    <3>3. DOMAIN o = 1 .. n
      BY <3>1
    <3> HIDE DEF o
    <3>4. Picked(share, o, n, SelectIdxs(share, o))
      BY <1>1, <1>5, <3>3, SelectIdxsIs
    <3>5. drawn = SelectIdxs(share, o)
      BY <1>5, <2>1 DEF Reorder, o
    <3> HIDE DEF drawn
    <3> QED BY <2>1, <3>2, <3>4, <3>5
  <2>2. CASE ~Megatron
    <3> DEFINE o == [i \in 1 .. n |-> i]
    <3>1. \A i \in 1 .. n : o[i] = i
      OBVIOUS
    <3> HIDE DEF o
    <3>2. Picked(share, o, n, share)
      BY <1>5, <3>1 DEF Picked
    <3> QED BY <2>2, <3>1, <3>2
  <2> QED BY <2>1, <2>2
<1>7. PICK o : Picked(share, o, n, drawn) /\ \A i \in 1 .. n : o[i] \in 1 .. n /\ (~Megatron => o[i] = i)
  BY <1>6
<1> HIDE DEF drawn
<1>8. Table(drawn, n)
  BY <1>7 DEF Picked
<1>9. Rows(drawn) = n
  BY <1>1, <1>8, TableRows
<1>10. g = Slice(drawn, a + 1, e)
  BY <1>4, <1>9 DEF Split
<1> HIDE DEF a, m, e, g
<1>11. Picked(drawn, p, m, g)
  BY <1>1, <1>4, <1>8, <1>10, CutOut
<1>12. \A i \in 1 .. m : p[i] \in 1 .. n /\ p[i] = a + i
  BY <1>1, <1>4
<1> HIDE DEF p
<1> DEFINE q == [i \in 1 .. m |-> o[p[i]]]
<1>13. Picked(share, q, m, g)
  BY <1>1, <1>4, <1>7, <1>11, <1>12, PickedTwice
<1>14. \A i \in 1 .. m : q[i] \in 1 .. n /\ (~Megatron => q[i] = a + i)
  BY <1>7, <1>12
<1> HIDE DEF q
<1>15. Cuts(model, k, r, m, q, g)
  BY <1>13, <1>14 DEF Cuts, share, n, a, l
<1> QED BY <1>3, <1>4, <1>15 DEF m, n, l

\* The divergences of the n rows of a batch.
JudgedBatch(b, n) ==
  /\ "js_divergence" \in DOMAIN b
  /\ \A i \in 1 .. n : \A t \in 1 .. ResponseLength : b.js_divergence[i][t] = Divergence(b.responses[i].id, t)

\* They are numbers.
LEMMA DivergencesAre ==
  ASSUME cfg \in Configs, OwnIds(batch.responses, Samples(cfg)), NEW x \in 1 .. Samples(cfg), NEW t \in 1 .. ResponseLength
  PROVE  Divergence(batch.responses[x].id, t) \in Int
<1>1. batch.responses[x].id \in 1 .. Samples(cfg)
  BY DEF OwnIds
<1>2. \A id \in 1 .. Samples(cfg) : \A u \in 1 .. ResponseLength : Divergence(id, u) \in Int
  BY ConfigsAssumption DEF Samples
<1> QED BY <1>1, <1>2

\* So they are for the rows of a rank, if not yet with a mask.
LEMMA ShareMeans ==
  ASSUME cfg \in Configs, Dealable, Sound(cfg, batch, Samples(cfg)), OwnIds(batch.responses, Samples(cfg)),
         JudgedBatch(batch, Samples(cfg)), MaskName \notin DOMAIN batch, NEW r \in Ranks
  PROVE  \A i \in 1 .. OfRank : RowMeant(cfg, UpdateShare(r), i)
<1> DEFINE n == Samples(cfg)
           m == OfRank
           data == DispatchTo(batch)[r]
           q == [i \in 1 .. m |-> DpRank(r) * m + i]
           share == UpdateShare(r)
<1>1. n \in Nat /\ n % Dp = 0 /\ m = n \div Dp
  BY NumbersAre DEF Dealable, OfRank
<1>2. Table(batch, n) /\ "responses" \in DOMAIN batch /\ "js_divergence" \in DOMAIN batch
  BY DEF Sound, JudgedBatch
<1>3. m \in Nat /\ Picked(batch, q, m, data) /\ \A i \in 1 .. m : q[i] \in 1 .. n
  <2> HIDE DEF n
  <2>1. /\ n \div Dp \in Nat
        /\ Picked(batch, [i \in 1 .. n \div Dp |-> DpRank(r) * (n \div Dp) + i], n \div Dp, data)
        /\ \A i \in 1 .. n \div Dp : DpRank(r) * (n \div Dp) + i \in 1 .. n
    BY <1>1, <1>2, DealtPicked
  <2> QED BY <1>1, <2>1
<1> HIDE DEF q, data, m, n
<1>4. /\ DOMAIN data = DOMAIN batch /\ Table(data, m)
      /\ \A i \in 1 .. m : /\ data.responses[i] = batch.responses[q[i]]
                           /\ data.js_divergence[i] = batch.js_divergence[q[i]]
  BY <1>2, <1>3 DEF Picked
<1>5. share = Union(data, [js_token_selection_mask |-> MaskColumn(data, OwnSelection(r, data))])
  BY <1>4 DEF UpdateShare, MaskName, data
<1>6. ASSUME NEW i \in 1 .. m PROVE JudgedRow(data, i)
  <2> DEFINE x == q[i]
             row == batch.responses[x]
  <2>1. x \in 1 .. n /\ data.responses[i] = row /\ data.js_divergence[i] = batch.js_divergence[x]
    BY <1>3, <1>4
  <2>2. Rows(data) = m
    BY <1>3, <1>4, TableRows
  <2>3. Fitting(row)
    BY <2>1 DEF Sound, RowSound, n
  <2>4. row.valid \subseteq 1 .. ResponseLength
    BY <2>3, LengthsAssumption DEF Fitting
  <2>5. \A t \in 1 .. ResponseLength : batch.js_divergence[x][t] = Divergence(row.id, t) /\ Divergence(row.id, t) \in Int
    BY <2>1, DivergencesAre DEF JudgedBatch, n
  <2> QED BY <2>1, <2>2, <2>4, <2>5 DEF JudgedRow
<1> HIDE DEF share
<1>7. \A i \in 1 .. m : RowMeant(cfg, share, i)
  BY <1>2, <1>3, <1>4, <1>5, <1>6, OwnMasks
<1> QED BY <1>7 DEF m, share

\* Picked rows keep their masks.
LEMMA MeantPicked ==
  ASSUME NEW c, NEW n \in Nat, NEW b, "responses" \in DOMAIN b, \A i \in 1 .. n : RowMeant(c, b, i), NEW m \in Nat,
         NEW q, \A i \in 1 .. m : q[i] \in 1 .. n, NEW x, Picked(b, q, m, x)
  PROVE  \A i \in 1 .. m : RowMeant(c, x, i)
<1> SUFFICES ASSUME NEW i \in 1 .. m PROVE RowMeant(c, x, i)
  OBVIOUS
<1>1. q[i] \in 1 .. n /\ RowMeant(c, b, q[i])
  OBVIOUS
<1>2. MaskName \in DOMAIN b
  BY <1>1 DEF RowMeant
<1>3. /\ DOMAIN x = DOMAIN b /\ x.responses[i] = b.responses[q[i]]
      /\ x.js_token_selection_mask[i] = b.js_token_selection_mask[q[i]]
  BY <1>2 DEF Picked, MaskName
<1> QED BY <1>1, <1>3 DEF RowMeant

\* A mini-batch of the actor does.
LEMMA PieceMeans ==
  ASSUME cfg \in Configs, Dealable, Sound(cfg, batch, Samples(cfg)), OwnIds(batch.responses, Samples(cfg)),
         JudgedBatch(batch, Samples(cfg)), MaskName \notin DOMAIN batch,
         NEW k \in 1 .. MiniBatches, NEW epoch \in Int, NEW r \in Ranks
  PROVE  \A i \in 1 .. Rows(MiniBatch(k, epoch, "actor")[r]) : RowMeant(cfg, MiniBatch(k, epoch, "actor")[r], i)
<1> DEFINE n == OfRank
           m == PieceRows(n, LocalMini, k)
           share == ShareFor("actor", r)
           x == MiniBatch(k, epoch, "actor")[r]
<1>1. m \in Nat /\ \E q : Cuts("actor", k, r, m, q, x)
  BY MiniCuts
<1>2. PICK q : Cuts("actor", k, r, m, q, x)
  BY <1>1
<1>3. share = UpdateShare(r)
  BY DEF ShareFor
<1>4. \A i \in 1 .. n : RowMeant(cfg, share, i)
  BY <1>3, ShareMeans
<1>5. "responses" \in DOMAIN share /\ n \in Nat
  BY <1>3, UpdateShares, NumbersAre DEF Share
<1> HIDE DEF n, m, share, x
<1>6. Picked(share, q, m, x) /\ \A i \in 1 .. m : q[i] \in 1 .. n
  BY <1>2 DEF Cuts, share, n
<1>7. \A i \in 1 .. m : RowMeant(cfg, x, i)
  BY <1>1, <1>4, <1>5, <1>6, MeantPicked
<1>8. Rows(x) = m
  BY <1>1, <1>6, TableRows DEF Picked
<1> QED BY <1>7, <1>8 DEF x

\* One of the critic has no mask.
LEMMA PieceUnmasked ==
  ASSUME cfg \in Configs, Dealable, NEW k \in 1 .. MiniBatches, NEW epoch \in Int, NEW r \in Ranks
  PROVE  MaskName \notin DOMAIN MiniBatch(k, epoch, "critic")[r]
<1> DEFINE x == MiniBatch(k, epoch, "critic")[r]
           C == {"responses", "values", "returns"}
           b == Select(batch, C)
           n == Samples(cfg)
<1>1. \E m, q : Cuts("critic", k, r, m, q, x)
  BY MiniCuts
<1>2. DOMAIN x = DOMAIN CriticShare(r)
  BY <1>1 DEF Cuts, Picked, ShareFor
<1>3. n \in Nat /\ n % Dp = 0 /\ Share(batch, n)
  BY NumbersAre DEF Dealable, Held, Share
<1>4. Share(b, n)
  BY <1>3, SelectShare
<1>5. CriticShare(r) = DispatchTo(b)[r] /\ DOMAIN b \subseteq C
  BY DEF CriticShare, Select
<1> HIDE DEF b, n, x
<1>6. DOMAIN DispatchTo(b)[r] = DOMAIN b
  BY <1>3, <1>4, DealtPicked DEF Share, Picked
<1> QED BY <1>2, <1>5, <1>6 DEF MaskName, x

-----------------------------------------------------------------------------
\* Whole mini-batches that compete.

\* The rows of mini-batch k of all ranks.
PoolOf(c, k) ==
  {u * PerRank(c) + ((k - 1) * PerMini(c) + i) :
     u \in 0 .. DpOf(c) - 1, i \in 1 .. PieceRows(PerRank(c), PerMini(c), k)}

\* What is left of n rows for a piece, counted from its first row or from the first of all.
LEMMA PieceRowsSame ==
  ASSUME NEW n \in Nat \ {0}, NEW size \in Nat \ {0}, NEW k \in 1 .. CeilDiv(n, size)
  PROVE  Min({size, n - (k - 1) * size}) = PieceRows(n, size, k)
<1> DEFINE a == (k - 1) * size
           b == k * size
<1>1. a \in Nat /\ b \in Nat /\ b = a + size
  <2>1. k \in Nat \ {0}
    OBVIOUS
  <2>2. a \in Nat /\ b \in Nat
    BY <2>1
  <2>3. b = ((k - 1) + 1) * size /\ ((k - 1) + 1) * size = a + size
    BY <2>1
  <2> QED BY <2>2, <2>3
<1> HIDE DEF a, b
<1>2. Min({b, n}) = IF b <= n THEN b ELSE n
  <2> DEFINE m == IF b <= n THEN b ELSE n
  <2>1. m \in {b, n} /\ \A y \in {b, n} : m <= y
    BY <1>1
  <2> HIDE DEF m
  <2>2. Min({b, n}) \in {b, n} /\ \A y \in {b, n} : Min({b, n}) <= y
    BY <2>1 DEF Min
  <2> QED BY <1>1, <2>2
<1>3. Min({size, n - a}) = IF size <= n - a THEN size ELSE n - a
  <2> DEFINE m == IF size <= n - a THEN size ELSE n - a
  <2>1. m \in {size, n - a} /\ \A y \in {size, n - a} : m <= y
    BY <1>1
  <2> HIDE DEF m
  <2>2. Min({size, n - a}) \in {size, n - a} /\ \A y \in {size, n - a} : Min({size, n - a}) <= y
    BY <2>1 DEF Min
  <2> QED BY <1>1, <2>2
<1>4. Min({size, n - a}) = Min({b, n}) - a
  BY <1>1, <1>2, <1>3
<1> QED BY <1>4 DEF PieceRows, a, b

\* Row y of the share of a data-parallel rank.
LEMMA RowFound ==
  ASSUME NEW n \in Nat \ {0}, NEW d \in Nat \ {0}
  PROVE  /\ \A u \in 0 .. d - 1 : \A y \in 1 .. n : u * n + y \in 1 .. d * n
         /\ \A u, v \in 0 .. d - 1 : \A y, z \in 1 .. n : u * n + y = v * n + z => u = v /\ y = z
<1>1. ASSUME NEW u \in 0 .. d - 1, NEW y \in 1 .. n PROVE u * n + y \in 1 .. d * n
  <2>1. y - 1 \in 0 .. n - 1
    OBVIOUS
  <2>2. u * n + (y - 1) \in 0 .. d * n - 1
    BY <2>1, FromZero
  <2> DEFINE a == u * n
             b == d * n
  <2>3. a \in Nat /\ b \in Nat
    OBVIOUS
  <2> HIDE DEF a, b
  <2>4. a + y \in 1 .. b
    BY <2>2, <2>3 DEF a, b
  <2> QED BY <2>4 DEF a, b
<1>2. ASSUME NEW u \in 0 .. d - 1, NEW v \in 0 .. d - 1, NEW y \in 1 .. n, NEW z \in 1 .. n, u * n + y = v * n + z
      PROVE  u = v /\ y = z
  <2> DEFINE x == u * n + y
  <2>1. At(x, u, n, y) /\ At(x, v, n, z)
    BY <1>2 DEF At
  <2>2. u \in Nat /\ v \in Nat
    OBVIOUS
  <2> HIDE DEF x
  <2>3. FoundAt(x, u, n, y) /\ FoundAt(x, v, n, z)
    BY <2>1, <2>2, LineOf
  <2>4. u = v /\ y - 1 = z - 1
    BY <2>3 DEF FoundAt
  <2> QED BY <2>4
<1> QED BY <1>1, <1>2

\* A row is in one pool at the most.
LEMMA PoolsApart ==
  ASSUME cfg \in Configs, Dealable, NEW k \in 1 .. MiniBatches
  PROVE  /\ PoolOf(cfg, k) \subseteq 1 .. Samples(cfg)
         /\ \A l \in 1 .. MiniBatches : k # l => PoolOf(cfg, k) \cap PoolOf(cfg, l) = {}
<1> DEFINE n == PerRank(cfg)
           s == PerMini(cfg)
           d == DpOf(cfg)
           M(j) == PieceRows(n, s, j)
<1>1. /\ n \in Nat \ {0} /\ s \in Nat \ {0} /\ d \in Nat \ {0} /\ d * n = Samples(cfg)
      /\ MiniBatches = CeilDiv(n, s)
  BY SizedIs DEF Sized, SameSizes, Minis
<1>2. \A j \in 1 .. MiniBatches : PoolOf(cfg, j) = {u * n + ((j - 1) * s + i) : u \in 0 .. d - 1, i \in 1 .. M(j)}
  BY DEF PoolOf
<1> HIDE DEF n, s, d
<1>3. \A j \in 1 .. MiniBatches : \A i \in 1 .. M(j) : (j - 1) * s + i \in 1 .. n
  BY <1>1, PiecesAre
<1>4. ASSUME NEW x \in PoolOf(cfg, k) PROVE x \in 1 .. Samples(cfg)
  <2>1. PICK u \in 0 .. d - 1, i \in 1 .. M(k) : x = u * n + ((k - 1) * s + i)
    BY <1>2
  <2>2. (k - 1) * s + i \in 1 .. n
    BY <1>3
  <2>3. x \in 1 .. d * n
    BY <1>1, <2>1, <2>2, RowFound
  <2> QED BY <1>1, <2>3
<1>5. ASSUME NEW l \in 1 .. MiniBatches, NEW x, x \in PoolOf(cfg, k), x \in PoolOf(cfg, l) PROVE k = l
  <2>1. PICK u \in 0 .. d - 1, i \in 1 .. M(k) : x = u * n + ((k - 1) * s + i)
    BY <1>2, <1>5
  <2>2. PICK v \in 0 .. d - 1, j \in 1 .. M(l) : x = v * n + ((l - 1) * s + j)
    BY <1>2, <1>5
  <2> DEFINE y == (k - 1) * s + i
             z == (l - 1) * s + j
  <2>3. y \in 1 .. n /\ z \in 1 .. n
    BY <1>3
  <2>4. InPiece(n, s, y, k, i) /\ InPiece(n, s, z, l, j)
    BY <1>1 DEF InPiece, At
  <2> HIDE DEF y, z, M
  <2>5. u * n + y = v * n + z
    BY <2>1, <2>2 DEF y, z
  <2>6. y = z
    <3> QED BY <1>1, <2>3, <2>5, RowFound
  <2> QED BY <1>1, <2>4, <2>6, PiecesAre
<1> QED BY <1>4, <1>5

\* Rows of a batch in a list, each once.
Listed(rows, h, X) == /\ h \in Nat \ {0} /\ Enumerates(rows, h, X)

\* PooledRows lists such a pool.
LEMMA PooledRowsAre ==
  ASSUME cfg \in Configs, Dealable, NEW k \in 1 .. MiniBatches
  PROVE  \E h : Listed(PooledRows(k), h, PoolOf(cfg, k))
<1> DEFINE n == OfRank
           l == LocalMini
           d == Dp
           m == PieceRows(n, l, k)
           a == (k - 1) * l
           h == d * m
           rows == PooledRows(k)
           X == PoolOf(cfg, k)
<1>1. n \in Nat \ {0} /\ l \in Nat \ {0} /\ d \in Nat \ {0} /\ k \in 1 .. CeilDiv(n, l)
  BY NumbersAre
<1>2. X = {u * n + (a + i) : u \in 0 .. d - 1, i \in 1 .. m}
  BY SizedIs DEF PoolOf, SameSizes
<1>3. rows = [i \in 1 .. d * m |-> ((i - 1) \div m) * n + a + ((i - 1) % m) + 1]
  <2>1. Rows(batch) \div d = n
    <3>1. Samples(cfg) \in Nat /\ Table(batch, Samples(cfg))
      BY NumbersAre DEF Dealable, Held
    <3>2. Rows(batch) = Samples(cfg)
      BY <3>1, TableRows
    <3> QED BY <3>2 DEF OfRank
  <2>2. Min({l, n - (k - 1) * l}) = m
    <3> HIDE DEF n, l
    <3> QED BY <1>1, PieceRowsSame
  <2> HIDE DEF n, m, d
  <2> QED BY <2>1, <2>2 DEF PooledRows, d
<1> HIDE DEF n, l, d, rows, X
<1>4. m \in Nat \ {0} /\ a \in Nat /\ a + m <= n
  BY <1>1, PieceRowsAre
<1> HIDE DEF m, a
<1>5. h \in Nat \ {0}
  BY <1>1, <1>4
<1>6. ASSUME NEW i \in 1 .. h
      PROVE  /\ (i - 1) \div m \in 0 .. d - 1 /\ (i - 1) % m \in 0 .. m - 1
             /\ i - 1 = ((i - 1) \div m) * m + ((i - 1) % m)
             /\ rows[i] = ((i - 1) \div m) * n + (a + (((i - 1) % m) + 1))
  <2>1. i - 1 \in 0 .. h - 1
    BY <1>5
  <2>2. /\ (i - 1) \div m \in 0 .. d - 1 /\ (i - 1) % m \in 0 .. m - 1
        /\ i - 1 = ((i - 1) \div m) * m + ((i - 1) % m)
    BY <1>1, <1>4, <2>1, FromZero
  <2>3. rows[i] = ((i - 1) \div m) * n + a + ((i - 1) % m) + 1
    BY <1>3
  <2> DEFINE u == (i - 1) \div m
             j == (i - 1) % m
  <2>4. u \in Nat /\ j \in Nat
    BY <2>2
  <2> HIDE DEF u, j
  <2> DEFINE b == u * n
  <2>5. b \in Nat
    BY <1>1, <2>4
  <2> HIDE DEF b
  <2>6. b + a + j + 1 = b + (a + (j + 1))
    BY <1>4, <2>4, <2>5
  <2>7. rows[i] = b + (a + (j + 1))
    BY <2>3, <2>6 DEF b, u, j
  <2> QED BY <2>2, <2>7 DEF b, u, j
<1>7. Column(rows, h)
  BY <1>3 DEF Column
<1> HIDE DEF h
<1>8. ASSUME NEW p \in 1 .. h, NEW q \in 1 .. h, rows[p] = rows[q] PROVE p = q
  <2> DEFINE u == (p - 1) \div m
             i == (p - 1) % m
             v == (q - 1) \div m
             j == (q - 1) % m
  <2>1. /\ u \in 0 .. d - 1 /\ i \in 0 .. m - 1 /\ p - 1 = u * m + i /\ rows[p] = u * n + (a + (i + 1))
        /\ v \in 0 .. d - 1 /\ j \in 0 .. m - 1 /\ q - 1 = v * m + j /\ rows[q] = v * n + (a + (j + 1))
    BY <1>6
  <2> HIDE DEF u, i, v, j
  <2> DEFINE y == a + (i + 1)
             z == a + (j + 1)
  <2>2. y \in 1 .. n /\ z \in 1 .. n
    BY <1>1, <1>4, <2>1
  <2>6. u * n + y = v * n + z
    BY <1>8, <2>1
  <2>7. u = v /\ y = z
    <3> HIDE DEF y, z
    <3> QED BY <1>1, <2>1, <2>2, <2>6, RowFound
  <2>3. u = v /\ a + (i + 1) = a + (j + 1)
    BY <2>7
  <2>4. u = v /\ i = j
    BY <1>4, <2>1, <2>3
  <2>5. p - 1 = q - 1
    BY <2>1, <2>4
  <2> QED BY <1>5, <2>5
<1>9. X = {rows[i] : i \in 1 .. h}
  <2>1. ASSUME NEW i \in 1 .. h PROVE rows[i] \in X
    <3> DEFINE u == (i - 1) \div m
               j == ((i - 1) % m) + 1
    <3>1. u \in 0 .. d - 1 /\ j \in 1 .. m /\ rows[i] = u * n + (a + j)
      <4> DEFINE z == (i - 1) % m
      <4>1. z \in 0 .. m - 1 /\ u \in 0 .. d - 1 /\ rows[i] = u * n + (a + (z + 1))
        BY <1>6
      <4> HIDE DEF z, u
      <4>2. z + 1 \in 1 .. m
        BY <1>4, <4>1
      <4> QED BY <4>1, <4>2 DEF z
    <3> HIDE DEF u, j
    <3> QED BY <1>2, <3>1
  <2>2. ASSUME NEW x \in X PROVE \E i \in 1 .. h : rows[i] = x
    <3>1. PICK u \in 0 .. d - 1, j \in 1 .. m : x = u * n + (a + j)
      BY <1>2
    <3> DEFINE y == u * m + (j - 1)
               i == y + 1
    <3>2. j - 1 \in 0 .. m - 1
      BY <1>4
    <3>3. y \in 0 .. d * m - 1
      BY <1>1, <1>4, <3>2, FromZero
    <3>4. y \div m = u /\ y % m = j - 1
      <4>1. LeavesOver(y, u, m, j - 1)
        BY DEF LeavesOver
      <4>2. u \in Nat
        OBVIOUS
      <4> HIDE DEF y
      <4> QED BY <1>4, <3>2, <4>1, <4>2, Divided
    <3> HIDE DEF y
    <3>5. i \in 1 .. h /\ i - 1 = y
      BY <1>5, <3>3 DEF h
    <3>6. ((i - 1) % m) + 1 = j
      BY <1>4, <3>4, <3>5
    <3> HIDE DEF i
    <3>7. rows[i] = u * n + (a + j)
      BY <1>6, <3>4, <3>5, <3>6
    <3> QED BY <3>1, <3>5, <3>7
  <2> QED BY <2>1, <2>2
<1>10. Enumerates(rows, h, X)
  BY <1>7, <1>8, <1>9 DEF Enumerates
<1> QED BY <1>5, <1>10 DEF Listed, X, rows

\* The tokens of some rows of a batch, under their places in it.
PlacedTokens(data, X) == UNION {{<<x, t>> : t \in data.responses[x].valid} : x \in X}

\* Lists of the tokens of each row make one of those of all.
LEMMA TokensStrung ==
  ASSUME NEW data, NEW h, NEW rows, NEW X, Listed(rows, h, X),
         \A x \in X : data.responses[x].valid \subseteq 1 .. ResponseLength
  PROVE  \E N \in Nat : Enumerates(FlattenSeq([i \in DOMAIN rows |-> RowTokens(data, rows[i])]), N,
                                   PlacedTokens(data, X))
<1> DEFINE s == [i \in 1 .. h |-> RowTokens(data, rows[i])]
           V(i) == data.responses[rows[i]].valid
           l == [i \in 1 .. h |-> Cardinality(V(i))]
           T == PlacedTokens(data, X)
           y == FlattenSeq(s)
<1>1. /\ h \in Nat \ {0} /\ DOMAIN rows = 1 .. h
      /\ (\A i, j \in 1 .. h : rows[i] = rows[j] => i = j) /\ X = {rows[i] : i \in 1 .. h}
  BY ColumnIs DEF Listed, Enumerates
<1>2. ASSUME NEW i \in 1 .. h
      PROVE  /\ l[i] \in Nat /\ Column(s[i], l[i])
             /\ \A j, k \in 1 .. l[i] : s[i][j] = s[i][k] => j = k
             /\ {<<rows[i], t>> : t \in V(i)} = {s[i][j] : j \in 1 .. l[i]}
  <2> DEFINE W == V(i)
             x == RowTokens(data, rows[i])
             m == Cardinality(W)
  <2>1. W \subseteq 1 .. ResponseLength
    BY <1>1
  <2>2. m \in Nat /\ Enumerates(x, m, {<<rows[i], t>> : t \in W})
    BY <2>1, RowTokensAre
  <2>3. s[i] = x /\ l[i] = m
    OBVIOUS
  <2> HIDE DEF s, l, x, m, W
  <2> QED BY <2>2, <2>3 DEF Enumerates, W
<1>3. Len(s) = h
  <2> HIDE DEF V, l
  <2> QED BY <1>1
<1> HIDE DEF s, l, T, y
<1>4. Lengthy(s, h, l)
  BY <1>2, <1>3 DEF Lengthy
<1>16. h \in Nat /\ h \in Nat \ {0} /\ \A i \in 1 .. h : l[i] \in Nat
  BY <1>1, <1>2
<1> HIDE DEF V
<1>5. PICK o : Offsets(l, h, o)
  BY <1>16, OffsetsExist
<1>6. Strung(s, h, l, o, y)
  BY <1>4, <1>5, <1>16, FlattenStrings DEF y
<1>7. \A p \in 1 .. o[h] : \E i \in 1 .. h : \E j \in 1 .. l[i] : p = o[i - 1] + j
  BY <1>5, <1>16, PlacesAre
<1>8. \A i \in 1 .. h : \A j \in 1 .. l[i] : o[i - 1] + j \in 1 .. o[h]
  BY <1>5, <1>16, PlacesAre
<1>9. o[h] \in Nat
  <2>1. h \in 0 .. h
    BY <1>16
  <2> QED BY <1>5, <1>16, <2>1, OffsetsAre
<1>10. Column(y, o[h]) /\ \A i \in 1 .. h : \A j \in 1 .. l[i] : y[o[i - 1] + j] = s[i][j]
  BY <1>6 DEF Strung
<1>11. T = UNION {{<<rows[i], t>> : t \in V(i)} : i \in 1 .. h}
  BY <1>1 DEF T, V, PlacedTokens
<1>12. ASSUME NEW p \in 1 .. o[h], NEW q \in 1 .. o[h], y[p] = y[q] PROVE p = q
  <2>1. PICK i \in 1 .. h : \E j \in 1 .. l[i] : p = o[i - 1] + j
    BY <1>7
  <2>2. PICK j \in 1 .. l[i] : p = o[i - 1] + j
    BY <2>1
  <2>3. PICK e \in 1 .. h : \E f \in 1 .. l[e] : q = o[e - 1] + f
    BY <1>7
  <2>4. PICK f \in 1 .. l[e] : q = o[e - 1] + f
    BY <2>3
  <2>5. y[p] = s[i][j] /\ y[q] = s[e][f]
    BY <1>10, <2>2, <2>4
  <2>6. PICK t : s[i][j] = <<rows[i], t>>
    BY <1>2
  <2>7. PICK u : s[e][f] = <<rows[e], u>>
    BY <1>2
  <2>8. <<rows[i], t>> = <<rows[e], u>>
    BY <1>12, <2>5, <2>6, <2>7
  <2>9. rows[i] = rows[e]
    BY <2>8
  <2>10. i = e
    BY <1>1, <2>9
  <2>11. s[i][j] = s[i][f] /\ f \in 1 .. l[i]
    BY <1>12, <2>5, <2>10
  <2>12. j = f
    BY <1>2, <2>11
  <2> QED BY <2>2, <2>4, <2>10, <2>12
<1>13. T = {y[p] : p \in 1 .. o[h]}
  <2>1. ASSUME NEW x \in T PROVE \E p \in 1 .. o[h] : y[p] = x
    <3>1. PICK i \in 1 .. h : x \in {<<rows[i], t>> : t \in V(i)}
      BY <1>11
    <3>2. PICK j \in 1 .. l[i] : x = s[i][j]
      BY <1>2, <3>1
    <3> QED BY <1>8, <1>10, <3>2
  <2>2. ASSUME NEW p \in 1 .. o[h] PROVE y[p] \in T
    <3>1. PICK i \in 1 .. h : \E j \in 1 .. l[i] : p = o[i - 1] + j
      BY <1>7
    <3>2. PICK j \in 1 .. l[i] : p = o[i - 1] + j
      BY <3>1
    <3>3. y[p] = s[i][j]
      BY <1>10, <3>2
    <3>4. s[i][j] \in {<<rows[i], t>> : t \in V(i)}
      BY <1>2
    <3> QED BY <1>11, <3>3, <3>4
  <2> QED BY <2>1, <2>2
<1>14. Enumerates(y, o[h], T)
  BY <1>10, <1>12, <1>13 DEF Enumerates
<1>15. [i \in DOMAIN rows |-> RowTokens(data, rows[i])] = s
  BY <1>1 DEF s
<1> QED BY <1>9, <1>14, <1>15 DEF T, y

\* The tokens of some rows, under the names of their responses, and those of them a mask keeps.
NamedTokens(B, X) == UNION {{<<B[x].id, t>> : t \in B[x].valid} : x \in X}
KeptTokens(B, mask, X) == UNION {{<<B[x].id, t>> : t \in B[x].valid \cap mask[x]} : x \in X}

\* A mini-batch that competes keeps what its intervals take of all its tokens.
PooledBatch(c, b, k) ==
  SelectsIn(c, KeptTokens(b.responses, b.js_token_selection_mask, PoolOf(c, k)),
               NamedTokens(b.responses, PoolOf(c, k)))

\* A mask has of a pool the tokens A, which f names by their responses.
MaskOfPool(data, X, S, A, mask, f) ==
  /\ A \subseteq PlacedTokens(data, X)
  /\ \A x \in X : data.responses[x].valid \subseteq 1 .. ResponseLength
  /\ \A x \in X : \A t : <<x, t>> \in S <=> <<x, t>> \in A
  /\ \A x \in X : mask[x] = {t \in 1 .. ResponseLength : <<x, t>> \in S}
  /\ \A x \in X : \A t \in data.responses[x].valid : f[<<x, t>>] = <<data.responses[x].id, t>>

\* So it keeps those.
LEMMA KeptOfPool ==
  ASSUME NEW data, NEW X, NEW S, NEW A, NEW mask, NEW f, MaskOfPool(data, X, S, A, mask, f)
  PROVE  /\ {f[z] : z \in A} = KeptTokens(data.responses, mask, X)
         /\ {f[z] : z \in PlacedTokens(data, X)} = NamedTokens(data.responses, X)
<1> DEFINE B == data.responses
           T == PlacedTokens(data, X)
<1>0. /\ A \subseteq T
      /\ \A x \in X : B[x].valid \subseteq 1 .. ResponseLength
      /\ \A x \in X : \A t : <<x, t>> \in S <=> <<x, t>> \in A
      /\ \A x \in X : mask[x] = {t \in 1 .. ResponseLength : <<x, t>> \in S}
      /\ \A x \in X : \A t \in B[x].valid : f[<<x, t>>] = <<B[x].id, t>>
  BY DEF MaskOfPool
<1>1. \A z \in T : \E x \in X : \E t \in B[x].valid : z = <<x, t>> /\ f[z] = <<B[x].id, t>>
  <2> SUFFICES ASSUME NEW z \in T PROVE \E x \in X : \E t \in B[x].valid : z = <<x, t>> /\ f[z] = <<B[x].id, t>>
    OBVIOUS
  <2>1. PICK x \in X : \E t \in B[x].valid : z = <<x, t>>
    BY DEF PlacedTokens
  <2> QED BY <1>0, <2>1
<1>2. \A x \in X : \A t \in B[x].valid : <<x, t>> \in T
  <2> SUFFICES ASSUME NEW x \in X, NEW t \in B[x].valid PROVE <<x, t>> \in T
    OBVIOUS
  <2> DEFINE G(v) == {<<v, u>> : u \in data.responses[v].valid}
             z == <<x, t>>
  <2>1. z \in G(x)
    OBVIOUS
  <2>2. PlacedTokens(data, X) = UNION {G(v) : v \in X}
    BY DEF PlacedTokens
  <2> HIDE DEF z, G
  <2>3. z \in PlacedTokens(data, X)
    BY <2>1, <2>2
  <2> QED BY <2>3 DEF z
<1> HIDE DEF T, B
<1>3. {f[z] : z \in T} = NamedTokens(B, X)
  <2>1. ASSUME NEW z \in T PROVE f[z] \in NamedTokens(B, X)
    BY <1>1 DEF NamedTokens
  <2>2. ASSUME NEW w \in NamedTokens(B, X) PROVE \E z \in T : w = f[z]
    <3>1. PICK x \in X : \E t \in B[x].valid : w = <<B[x].id, t>>
      BY DEF NamedTokens
    <3>2. PICK t \in B[x].valid : w = <<B[x].id, t>>
      BY <3>1
    <3> QED BY <1>0, <1>2, <3>2
  <2> QED BY <2>1, <2>2
<1>4. {f[z] : z \in A} = KeptTokens(B, mask, X)
  <2>1. ASSUME NEW z \in A PROVE f[z] \in KeptTokens(B, mask, X)
    <3>1. PICK x \in X : \E t \in B[x].valid : z = <<x, t>> /\ f[z] = <<B[x].id, t>>
      BY <1>0, <1>1
    <3>2. PICK t \in B[x].valid : z = <<x, t>> /\ f[z] = <<B[x].id, t>>
      BY <3>1
    <3>3. t \in mask[x]
      BY <1>0, <3>2
    <3> QED BY <3>2, <3>3 DEF KeptTokens
  <2>2. ASSUME NEW w \in KeptTokens(B, mask, X) PROVE \E z \in A : w = f[z]
    <3>1. PICK x \in X : \E t \in B[x].valid \cap mask[x] : w = <<B[x].id, t>>
      BY DEF KeptTokens
    <3>2. PICK t \in B[x].valid \cap mask[x] : w = <<B[x].id, t>>
      BY <3>1
    <3>3. <<x, t>> \in A
      BY <1>0, <3>2
    <3> QED BY <1>0, <3>2, <3>3
  <2> QED BY <2>1, <2>2
<1> QED BY <1>3, <1>4 DEF T, B

\* The driver's mask keeps of every pool what its intervals take of it.
LEMMA PoolsSelected ==
  ASSUME cfg \in Configs, cfg.mode \in RankingModes, Dealable, Sound(cfg, batch, Samples(cfg)),
         OwnIds(batch.responses, Samples(cfg)),
         NEW data, data.responses = batch.responses, Rows(data) = Samples(cfg), JudgedBatch(data, Samples(cfg)),
         NEW mask, mask = MaskColumn(data, BatchAggregated(data)), NEW k \in 1 .. MiniBatches
  PROVE  SelectsIn(cfg, KeptTokens(batch.responses, mask, PoolOf(cfg, k)), NamedTokens(batch.responses, PoolOf(cfg, k)))
<1> DEFINE B == batch.responses
           n == Samples(cfg)
           L(j) == FlattenSeq([i \in DOMAIN PooledRows(j) |-> RowTokens(data, PooledRows(j)[i])])
           P(j) == AreasMask(L(j), JsOf(data), SelectionAreas)
           T(j) == PlacedTokens(data, PoolOf(cfg, j))
           S == BatchAggregated(data)
           f == [z \in (1 .. n) \X (1 .. ResponseLength) |-> <<B[z[1]].id, z[2]>>]
           D == JsOf(data)
<1>1. S = UNION {P(j) : j \in 1 .. MiniBatches}
  BY DEF BatchAggregated
<1>2. n \in Nat /\ \A x \in 1 .. n : B[x].valid \subseteq 1 .. ResponseLength
  <2>1. \A x \in 1 .. n : Fitting(B[x])
    BY DEF Sound, RowSound
  <2> QED BY <2>1, NumbersAre, LengthsAssumption DEF Fitting
<1>3. \A x \in 1 .. n : \A t \in 1 .. ResponseLength :
        /\ D[<<x, t>>] = Divergence(B[x].id, t) /\ Divergence(B[x].id, t) \in Int
        /\ f[<<x, t>>] = <<B[x].id, t>>
  <2> SUFFICES ASSUME NEW x \in 1 .. n, NEW t \in 1 .. ResponseLength
               PROVE  /\ D[<<x, t>>] = Divergence(B[x].id, t) /\ Divergence(B[x].id, t) \in Int
                      /\ f[<<x, t>>] = <<B[x].id, t>>
    OBVIOUS
  <2>1. f[<<x, t>>] = <<B[x].id, t>>
    OBVIOUS
  <2>2. Divergence(B[x].id, t) \in Int
    BY DivergencesAre
  <2>3. D[<<x, t>>] = data.js_divergence[x][t]
    BY JsIs
  <2>4. data.js_divergence[x][t] = Divergence(B[x].id, t)
    BY DEF JudgedBatch
  <2> QED BY <2>1, <2>2, <2>3, <2>4
<1>4. \A x, y \in 1 .. n : B[x].id = B[y].id => x = y
  BY DEF OwnIds
<1>5. ASSUME NEW j \in 1 .. MiniBatches
      PROVE  /\ PoolOf(cfg, j) \subseteq 1 .. n
             /\ \A z \in T(j) : \E x \in PoolOf(cfg, j) : \E t \in B[x].valid : z = <<x, t>>
             /\ P(j) \subseteq T(j)
             /\ SelectsByRank({f[z] : z \in P(j)}, {f[z] : z \in T(j)})
  <2> DEFINE X == PoolOf(cfg, j)
             rows == PooledRows(j)
             Q == T(j)
             l == L(j)
  <2>1. X \subseteq 1 .. n
    BY PoolsApart
  <2>2. PICK h : Listed(rows, h, X)
    BY PooledRowsAre
  <2>3. \A x \in X : data.responses[x].valid \subseteq 1 .. ResponseLength
    BY <1>2, <2>1
  <2>4. \E N \in Nat : Enumerates(l, N, Q)
    <3>1. \E N \in Nat : Enumerates(FlattenSeq([i \in DOMAIN rows |-> RowTokens(data, rows[i])]), N, PlacedTokens(data, X))
      <4> HIDE DEF rows, X, L, T
      <4> QED BY <2>2, <2>3, TokensStrung
    <3> QED BY <3>1
  <2>5. \A z \in Q : \E x \in X : \E t \in B[x].valid : z = <<x, t>>
    BY DEF PlacedTokens
  <2> HIDE DEF Q, X, l, f, D, B, n, T
  <2>6. \A z \in Q : D[z] = Judged(f[z]) /\ D[z] \in Int
    <3> SUFFICES ASSUME NEW z \in Q PROVE D[z] = Judged(f[z]) /\ D[z] \in Int
      OBVIOUS
    <3>1. PICK x \in X : \E t \in B[x].valid : z = <<x, t>>
      BY <2>5
    <3>2. PICK t \in B[x].valid : z = <<x, t>>
      BY <3>1
    <3>3. x \in 1 .. n /\ t \in 1 .. ResponseLength
      BY <1>2, <2>1
    <3>4. f[z] = <<B[x].id, t>> /\ D[z] = Divergence(B[x].id, t) /\ Divergence(B[x].id, t) \in Int
      BY <1>3, <3>2, <3>3
    <3>5. Judged(f[z]) = Divergence(B[x].id, t)
      BY <3>4 DEF Judged
    <3> QED BY <3>4, <3>5
  <2>7. PICK N \in Nat : Enumerates(l, N, Q)
    BY <2>4
  <2>8. P(j) = AreasMask(l, D, SelectionAreas)
    BY DEF l, D
  <2> HIDE DEF P
  <2>9. \A y, z \in Q : f[y] = f[z] => y = z
    <3> SUFFICES ASSUME NEW y \in Q, NEW z \in Q, f[y] = f[z] PROVE y = z
      OBVIOUS
    <3>1. PICK x \in X : \E t \in B[x].valid : y = <<x, t>>
      BY <2>5
    <3>2. PICK t \in B[x].valid : y = <<x, t>>
      BY <3>1
    <3>3. PICK v \in X : \E u \in B[v].valid : z = <<v, u>>
      BY <2>5
    <3>4. PICK u \in B[v].valid : z = <<v, u>>
      BY <3>3
    <3>5. x \in 1 .. n /\ v \in 1 .. n /\ t \in 1 .. ResponseLength /\ u \in 1 .. ResponseLength
      BY <1>2, <2>1
    <3>6. <<B[x].id, t>> = <<B[v].id, u>>
      BY <1>3, <3>2, <3>4, <3>5
    <3>7. B[x].id = B[v].id /\ t = u
      BY <3>6
    <3> QED BY <1>4, <3>2, <3>4, <3>5, <3>7
  <2>10. /\ AreasMask(l, D, SelectionAreas) \subseteq Q
         /\ SelectsByRank({f[z] : z \in AreasMask(l, D, SelectionAreas)}, {f[z] : z \in Q})
    BY <2>6, <2>7, <2>9, RankedTokens
  <2> QED BY <2>1, <2>5, <2>8, <2>10 DEF Q, X
<1> DEFINE X == PoolOf(cfg, k)
           Q == T(k)
           A == P(k)
<1>6. \A x \in X : \A t : <<x, t>> \in S <=> <<x, t>> \in A
  <2> SUFFICES ASSUME NEW x \in X, NEW t PROVE <<x, t>> \in S <=> <<x, t>> \in A
    OBVIOUS
  <2> HIDE DEF S, P, T, B
  <2>1. ASSUME <<x, t>> \in S PROVE <<x, t>> \in A
    <3>1. PICK j \in 1 .. MiniBatches : <<x, t>> \in P(j)
      BY <1>1, <2>1
    <3>2. PICK v \in PoolOf(cfg, j) : \E u \in B[v].valid : <<x, t>> = <<v, u>>
      BY <1>5, <3>1
    <3>3. x \in PoolOf(cfg, j)
      BY <3>2
    <3>4. j = k
      BY <3>3, PoolsApart
    <3> QED BY <3>1, <3>4
  <2>2. ASSUME <<x, t>> \in A PROVE <<x, t>> \in S
    BY <1>1, <2>2
  <2> QED BY <2>1, <2>2
<1>7. X \subseteq 1 .. n /\ A \subseteq Q
  BY <1>5
<1>8. \A x \in X : mask[x] = {t \in 1 .. ResponseLength : <<x, t>> \in S}
  BY <1>7 DEF MaskColumn
<1>9. Q = PlacedTokens(data, X) /\ B = data.responses
  OBVIOUS
<1>10. SelectsByRank({f[z] : z \in A}, {f[z] : z \in Q})
  BY <1>5
<1> HIDE DEF L, B, n, P, T, S, f, D, X, Q, A
<1>11. /\ \A x \in X : B[x].valid \subseteq 1 .. ResponseLength
       /\ \A x \in X : \A t \in B[x].valid : f[<<x, t>>] = <<B[x].id, t>>
  BY <1>2, <1>3, <1>7
<1>14. MaskOfPool(data, X, S, A, mask, f)
  BY <1>6, <1>7, <1>8, <1>9, <1>11 DEF MaskOfPool
<1>12. {f[z] : z \in A} = KeptTokens(B, mask, X) /\ {f[z] : z \in Q} = NamedTokens(B, X)
  BY <1>9, <1>14, KeptOfPool
<1>13. SelectsByRank(KeptTokens(B, mask, X), NamedTokens(B, X))
  BY <1>10, <1>12
<1> QED BY <1>13, SelectsInIs DEF B, X

\* A batch that has been ranked: with the mask of every pool, or without one.
Chosen(c, b) ==
  /\ JudgedBatch(b, Samples(c))
  /\ IF c.batchAgg THEN MaskName \in DOMAIN b /\ \A k \in 1 .. Minis(c) : PooledBatch(c, b, k)
                   ELSE MaskName \notin DOMAIN b

\* Ranking makes it one.
LEMMA RankChooses ==
  ASSUME AlignInv, TrainInv, Rank, MaskName \notin DOMAIN batch
  PROVE  Chosen(cfg, batch') /\ batch'.responses = batch.responses
<1> DEFINE n == Samples(cfg)
           x == [i \in 1 .. Rows(batch) |->
                   [t \in 1 .. ResponseLength |-> Divergence(batch.responses[i].id, t)]]
           js == [js_divergence |-> x]
           data == Union(batch, js)
           y == MaskColumn(data, BatchAggregated(data))
           mask == [js_token_selection_mask |-> y]
<1>1. /\ phase \in {"criticized", "credited"} /\ cfg' = cfg
      /\ batch' = IF cfg.batchAgg THEN Union(data, mask) ELSE data
  BY DEF Rank
<1>2. phase \in AfterBalance
  BY <1>1 DEF AfterBalance
<1>3. /\ cfg \in Configs /\ Dealable /\ n \in Nat /\ Sound(cfg, batch, n)
      /\ OwnIds(batch.responses, n)
  BY <1>2, TrainingSound DEF TrainInv, TrainRest, Complete
<1>4. Table(batch, n) /\ "responses" \in DOMAIN batch /\ Rows(batch) = n
  BY <1>3, TableRows DEF Sound
<1>5. DOMAIN js = {"js_divergence"} /\ js.js_divergence = x
  OBVIOUS
<1>6. DOMAIN mask = {MaskName} /\ mask.js_token_selection_mask = y
  BY DEF MaskName
<1>7. Column(x, n) /\ \A i \in 1 .. n : \A t \in 1 .. ResponseLength : x[i][t] = Divergence(batch.responses[i].id, t)
  BY <1>4 DEF Column
<1> HIDE DEF x, js, mask, n
<1>8. /\ DOMAIN data = DOMAIN batch \cup {"js_divergence"} /\ data.responses = batch.responses
      /\ data.js_divergence = x
  BY <1>4, <1>5 DEF Union
<1>9. Table(data, n)
  <2>1. Table(js, n)
    BY <1>5, <1>7 DEF Table
  <2> HIDE DEF data
  <2> QED BY <1>3, <1>4, <2>1, UnionIs DEF data
<1> HIDE DEF data
<1>10. Rows(data) = n /\ JudgedBatch(data, n)
  BY <1>3, <1>7, <1>8, <1>9, TableRows DEF JudgedBatch
<1>11. MaskName \notin DOMAIN data
  BY <1>8 DEF MaskName
<1>12. CASE ~cfg.batchAgg
  BY <1>1, <1>8, <1>10, <1>11, <1>12 DEF Chosen, n
<1>13. CASE cfg.batchAgg
  <2> DEFINE z == Union(data, mask)
  <2>1. /\ MaskName \in DOMAIN z /\ z.responses = batch.responses /\ z.js_token_selection_mask = y
        /\ z.js_divergence = x /\ "js_divergence" \in DOMAIN z
    <3>1. z = [c \in DOMAIN data \cup DOMAIN mask |-> IF c \in DOMAIN mask THEN mask[c] ELSE data[c]]
      BY DEF Union
    <3>2. MaskName = "js_token_selection_mask" /\ mask[MaskName] = y
      BY <1>6 DEF MaskName
    <3> HIDE DEF y, z
    <3> QED BY <1>4, <1>6, <1>8, <3>1, <3>2
  <2>2. cfg.mode \in RankingModes
    BY <1>3, <1>13, ConfigsAssumption
  <2>3. JudgedBatch(z, n)
    BY <1>7, <2>1 DEF JudgedBatch
  <2>4. y = MaskColumn(data, BatchAggregated(data))
    OBVIOUS
  <2> HIDE DEF y, z
  <2>5. ASSUME NEW k \in 1 .. Minis(cfg) PROVE PooledBatch(cfg, z, k)
    <3>1. k \in 1 .. MiniBatches
      BY <1>3, SizedIs DEF SameSizes
    <3>2. SelectsIn(cfg, KeptTokens(batch.responses, y, PoolOf(cfg, k)), NamedTokens(batch.responses, PoolOf(cfg, k)))
      BY <1>3, <1>8, <1>10, <2>2, <2>4, <3>1, PoolsSelected DEF n
    <3> QED BY <2>1, <3>2 DEF PooledBatch
  <2>6. batch' = z
    BY <1>1, <1>13 DEF z
  <2> QED BY <1>13, <2>1, <2>3, <2>5, <2>6 DEF Chosen, n
<1> QED BY <1>12, <1>13

\* The masks of the rows of step k, as the ranks have them: the driver's, or their own.
RowsChosen(c, b, ws, k) ==
  \A r \in 0 .. c.world - 1 :
    /\ MaskName \in DOMAIN ws[r].data
    /\ \A i \in 1 .. RowsOfStep(c, k) :
         IF c.batchAgg
           THEN ws[r].data.js_token_selection_mask[i] = b.js_token_selection_mask[RowAt(c, r, k, i)]
           ELSE RowMeant(c, ws[r].data, i)

\* Row i of mini-batch k on rank r has the driver's mask.
MaskedAlike(c, b, k, r, x) ==
  /\ MaskName \in DOMAIN x
  /\ \A i \in 1 .. PieceRows(PerRank(c), PerMini(c), k) :
       x.js_token_selection_mask[i]
         = b.js_token_selection_mask[DealtTo(c, r) * PerRank(c) + ((k - 1) * PerMini(c) + i)]

\* It is dealt with the rows, if there is one.
LEMMA PieceMasked ==
  ASSUME cfg \in Configs, Dealable, cfg.batchAgg, MaskName \in DOMAIN batch,
         NEW k \in 1 .. MiniBatches, NEW epoch \in Int, NEW r \in Ranks
  PROVE  MaskedAlike(cfg, batch, k, r, MiniBatch(k, epoch, "actor")[r])
<1> DEFINE n == Samples(cfg)
           m == OfRank
           l == LocalMini
           p == PieceRows(m, l, k)
           data == DispatchTo(batch)[r]
           u == DpRank(r)
           o == [i \in 1 .. m |-> u * m + i]
           x == MiniBatch(k, epoch, "actor")[r]
           z(i) == (k - 1) * l + i
<1>1. n \in Nat /\ n % Dp = 0 /\ m = n \div Dp /\ Table(batch, n)
  BY NumbersAre DEF Dealable, OfRank, Held
<1>2. m \in Nat /\ Picked(batch, o, m, data)
  <2> HIDE DEF n
  <2>1. /\ n \div Dp \in Nat
        /\ Picked(batch, [i \in 1 .. n \div Dp |-> u * (n \div Dp) + i], n \div Dp, data)
    BY <1>1, DealtPicked
  <2> QED BY <1>1, <2>1
<1>3. ~Megatron
  BY ConfigsAssumption DEF Megatron, RankingModes
<1>4. MaskName \in DOMAIN data
  BY <1>2 DEF Picked
<1>5. UpdateShare(r) = data
  BY <1>4 DEF UpdateShare, MaskName
<1>6. p \in Nat /\ \E q : Cuts("actor", k, r, p, q, x)
  BY MiniCuts
<1>7. PICK q : Cuts("actor", k, r, p, q, x)
  BY <1>6
<1>8. m = PerRank(cfg) /\ l = PerMini(cfg) /\ u = DealtTo(cfg, r)
  BY SizedIs DEF SameSizes
<1>a. \A i \in 1 .. m : o[i] = u * m + i
  OBVIOUS
<1> HIDE DEF data, u, p, x, n, o
<1>9. Picked(data, q, p, x) /\ \A i \in 1 .. p : q[i] \in 1 .. m /\ q[i] = z(i)
  BY <1>3, <1>5, <1>7 DEF Cuts, ShareFor
<1> HIDE DEF m, l, z
<1>10. ASSUME NEW i \in 1 .. p
       PROVE  x.js_token_selection_mask[i] = batch.js_token_selection_mask[u * m + z(i)]
  <2>1. q[i] \in 1 .. m /\ q[i] = z(i) /\ o[q[i]] = u * m + z(i)
    BY <1>9, <1>a
  <2>2. x[MaskName][i] = data[MaskName][q[i]]
    BY <1>4, <1>9 DEF Picked
  <2>3. data[MaskName][q[i]] = batch[MaskName][o[q[i]]]
    BY <1>2, <2>1 DEF Picked
  <2> QED BY <2>1, <2>2, <2>3 DEF MaskName
<1>11. MaskName \in DOMAIN x
  BY <1>4, <1>9 DEF Picked
<1> QED BY <1>8, <1>10, <1>11 DEF MaskedAlike, p, z, x

\* So the ranks have the masks when a step of the actor begins.
LEMMA ChosenBegins ==
  ASSUME cfg \in Configs, Dealable, Sound(cfg, batch, Samples(cfg)), OwnIds(batch.responses, Samples(cfg)),
         Chosen(cfg, batch), NEW k \in 1 .. Minis(cfg) * cfg.epochs, NEW next,
         Begin(MiniBatch(MiniOf(cfg, k), EpochOf(cfg, k), "actor"), next), phase' # "raised"
  PROVE  RowsChosen(cfg, batch, work', k)
<1> DEFINE j == MiniOf(cfg, k)
           e == EpochOf(cfg, k)
           g == MiniBatch(j, e, "actor")
           n == RowsOfStep(cfg, k)
<1>1. Sized(cfg) /\ SameSizes(cfg)
  BY SizedIs
<1>2. StepIs(cfg, k, e, j)
  BY <1>1, StepsAre
<1>3. j \in 1 .. MiniBatches /\ e \in Nat /\ e \in Int
  BY <1>1, <1>2 DEF StepIs, SameSizes, Sized
<1>4. work' = MicroBatched(g) /\ phase' = next
  BY DEF Begin
<1>5. \A r \in Ranks : /\ PieceOf(cfg, batch.responses, j, e, r, g[r])
                       /\ cfg.batchAgg => MaskedAlike(cfg, batch, j, r, g[r])
                       /\ ~cfg.batchAgg => \A i \in 1 .. Rows(g[r]) : RowMeant(cfg, g[r], i)
  <2> SUFFICES ASSUME NEW r \in Ranks
               PROVE  /\ PieceOf(cfg, batch.responses, j, e, r, g[r])
                      /\ cfg.batchAgg => MaskedAlike(cfg, batch, j, r, g[r])
                      /\ ~cfg.batchAgg => \A i \in 1 .. Rows(g[r]) : RowMeant(cfg, g[r], i)
    OBVIOUS
  <2>1. PieceOf(cfg, batch.responses, j, e, r, g[r])
    BY <1>3, MiniBatchRows
  <2>2. cfg.batchAgg => MaskedAlike(cfg, batch, j, r, g[r])
    BY <1>3, PieceMasked DEF Chosen
  <2>3. ~cfg.batchAgg => \A i \in 1 .. Rows(g[r]) : RowMeant(cfg, g[r], i)
    <3> HIDE DEF j, e
    <3> QED BY <1>3, PieceMeans DEF Chosen
  <2> QED BY <2>1, <2>2, <2>3
<1> HIDE DEF g, j, e
<1>6. \A r \in Ranks : work'[r].data = g[LastStage(r)]
  BY <1>4 DEF MicroBatched
<1>7. n \in Nat /\ n = PieceRows(PerRank(cfg), PerMini(cfg), j)
  <2>1. n = PieceRows(PerRank(cfg), PerMini(cfg), j)
    BY DEF RowsOfStep, j
  <2>2. j \in 1 .. CeilDiv(PerRank(cfg), PerMini(cfg))
    BY <1>1, <1>3 DEF SameSizes, Minis
  <2> QED BY <1>1, <2>1, <2>2, PieceRowsAre DEF Sized
<1>8. ASSUME NEW r \in Ranks
      PROVE  /\ MaskName \in DOMAIN work'[r].data
             /\ \A i \in 1 .. n :
                  IF cfg.batchAgg
                    THEN work'[r].data.js_token_selection_mask[i]
                           = batch.js_token_selection_mask[RowAt(cfg, r, k, i)]
                    ELSE RowMeant(cfg, work'[r].data, i)
  <2> DEFINE s == LastStage(r)
             x == work'[r].data
  <2>1. s \in Ranks /\ DealtTo(cfg, s) = DealtTo(cfg, r)
    BY <1>1, LastStageIs, DealtToIs DEF SameSizes
  <2>2. /\ PieceOf(cfg, batch.responses, j, e, s, x)
        /\ cfg.batchAgg => MaskedAlike(cfg, batch, j, s, x)
        /\ ~cfg.batchAgg => \A i \in 1 .. Rows(x) : RowMeant(cfg, x, i)
    BY <1>5, <1>6, <2>1
  <2> HIDE DEF s, x, n
  <2>3. Rows(x) = n /\ n # 0
    <3>1. Table(x, n)
      BY <1>7, <2>2 DEF PieceOf, Share
    <3>2. n \in Nat \ {0}
      <4>1. j \in 1 .. CeilDiv(PerRank(cfg), PerMini(cfg))
        BY <1>1, <1>3 DEF SameSizes, Minis
      <4> QED BY <1>1, <1>7, <4>1, PieceRowsAre DEF Sized
    <3> QED BY <1>7, <3>1, <3>2, TableRows
  <2>4. CASE cfg.batchAgg
    <3>1. OrderIn(cfg, e) = [i \in 1 .. PerRank(cfg) |-> i]
      BY <2>4, ConfigsAssumption DEF OrderIn, RankingModes
    <3>2. \A i \in 1 .. n : (j - 1) * PerMini(cfg) + i \in 1 .. PerRank(cfg)
      <4>1. j \in 1 .. CeilDiv(PerRank(cfg), PerMini(cfg))
        BY <1>1, <1>3 DEF SameSizes, Minis
      <4> QED BY <1>1, <1>7, <4>1, PiecesAre DEF Sized
    <3>3. \A i \in 1 .. n : RowAt(cfg, r, k, i) = DealtTo(cfg, r) * PerRank(cfg) + ((j - 1) * PerMini(cfg) + i)
      BY <3>1, <3>2 DEF RowAt, j, e
    <3> QED BY <1>7, <2>1, <2>2, <2>4, <3>3 DEF MaskedAlike, x
  <2>5. CASE ~cfg.batchAgg
    <3>1. \A i \in 1 .. n : RowMeant(cfg, x, i)
      BY <2>2, <2>3, <2>5
    <3>2. 1 \in 1 .. n
      BY <1>7, <2>3
    <3>3. MaskName \in DOMAIN x
      BY <3>1, <3>2 DEF RowMeant
    <3> QED BY <2>5, <3>1, <3>3 DEF x
  <2> QED BY <2>4, <2>5
<1> QED BY <1>8 DEF RowsChosen, Ranks, n

\* The critic has none.
LEMMA UnmaskedBegins ==
  ASSUME cfg \in Configs, Dealable, NEW k \in 1 .. Minis(cfg) * cfg.epochs, NEW next,
         Begin(MiniBatch(MiniOf(cfg, k), EpochOf(cfg, k), "critic"), next), phase' # "raised"
  PROVE  \A r \in Ranks : MaskName \notin DOMAIN work'[r].data
<1> DEFINE j == MiniOf(cfg, k)
           e == EpochOf(cfg, k)
           g == MiniBatch(j, e, "critic")
<1>1. Sized(cfg) /\ SameSizes(cfg)
  BY SizedIs
<1>2. StepIs(cfg, k, e, j)
  BY <1>1, StepsAre
<1>3. j \in 1 .. MiniBatches /\ e \in Int
  BY <1>1, <1>2 DEF StepIs, SameSizes, Sized
<1>4. work' = MicroBatched(g)
  BY DEF Begin
<1>5. \A r \in Ranks : MaskName \notin DOMAIN g[r]
  BY <1>3, PieceUnmasked
<1> HIDE DEF g, j, e
<1>6. \A r \in Ranks : work'[r].data = g[LastStage(r)]
  BY <1>4 DEF MicroBatched
<1> QED BY <1>5, <1>6, LastStageIs

-----------------------------------------------------------------------------
\* What a step is said to have selected.

\* The tokens that were kept of the rows X of a batch: of each those M maps it to.
KeptBy(B, X, M) == UNION {{<<B[x].id, t>> : t \in M[x]} : x \in X}

\* Those are the ones the critic is trained on, or what the mode means.
MaskOf(c, B, model, X, M) ==
  /\ model = "critic" =>
       \A x \in X : M[x] = IF c.backend = "megatron" THEN 1 .. B[x].response ELSE B[x].valid
  /\ model = "actor" =>
       IF c.batchAgg THEN SelectsIn(c, KeptBy(B, X, M), NamedTokens(B, X))
                     ELSE \A x \in X : Meant(c, B[x].id, B[x].valid, M[x])

\* The step of an optimizer trained them, of some rows, and on the ranks of a group the same.
StepSelects(c, B, model, step) ==
  /\ \A r, q \in 0 .. c.world - 1 : DealtTo(c, r) = DealtTo(c, q) => step[r].selected = step[q].selected
  /\ \E X \in SUBSET (1 .. Samples(c)) : \E M :
       /\ UNION {step[r].selected : r \in 0 .. c.world - 1} = KeptBy(B, X, M)
       /\ UNION {ToSet(step[r].rows) : r \in 0 .. c.world - 1} = {B[x].id : x \in X}
       /\ MaskOf(c, B, model, X, M)

\* Rows that are numbered through, with the positions of their tokens.
NamedRows(B, n) ==
  /\ Column(B, n) /\ OwnIds(B, n)
  /\ \A x \in 1 .. n : B[x].valid \subseteq 1 .. ResponseLength

\* As many tokens as positions.
LEMMA PairsCounted ==
  ASSUME NEW id, NEW M, IsFiniteSet(M)
  PROVE  Cardinality({<<id, t>> : t \in M}) = Cardinality(M)
<1> DEFINE T == {<<id, t>> : t \in M}
           f == [t \in M |-> <<id, t>>]
<1>1. f \in [M -> T] /\ \A t \in M : f[t] = <<id, t>>
  OBVIOUS
<1>2. \A z \in T : \E t \in M : z = <<id, t>>
  OBVIOUS
<1> HIDE DEF f, T
<1>3. f \in Injection(M, T)
  <2>1. \A t, u \in M : <<id, t>> = <<id, u>> => t = u
    OBVIOUS
  <2>2. \A t, u \in M : f[t] = f[u] => t = u
    BY <1>1, <2>1
  <2> QED BY <1>1, <2>2 DEF Injection, IsInjective
<1>4. f \in Surjection(M, T)
  <2>1. \A z \in T : \E t \in M : f[t] = z
    BY <1>1, <1>2
  <2> QED BY <1>1, <2>1 DEF Surjection
<1>5. ExistsBijection(M, T)
  BY <1>3, <1>4 DEF ExistsBijection, Bijection
<1> QED BY <1>5, FS_Bijection DEF T

\* The rows of some responses.
LEMMA RowsNamed ==
  ASSUME NEW n \in Nat, NEW B, Column(B, n), OwnIds(B, n), NEW X, X \subseteq 1 .. n
  PROVE  {row \in Range(B) : row.id \in {B[x].id : x \in X}} = {B[x] : x \in X}
<1> DEFINE S == {B[x].id : x \in X}
           R == Range(B)
<1>1. R = {B[i] : i \in 1 .. n}
  <2>1. DOMAIN B = 1 .. n
    BY ColumnIs
  <2> QED BY <2>1 DEF Range
<1> HIDE DEF S, R
<1>2. ASSUME NEW row \in R, row.id \in S PROVE \E x \in X : row = B[x]
  <2>1. PICK i \in 1 .. n : row = B[i]
    BY <1>1
  <2>2. PICK x \in X : B[i].id = B[x].id
    BY <1>2, <2>1 DEF S
  <2>3. i = x
    BY <2>2 DEF OwnIds
  <2> QED BY <2>1, <2>3
<1>3. ASSUME NEW x \in X PROVE B[x] \in R /\ B[x].id \in S
  BY <1>1 DEF S
<1>4. {row \in R : row.id \in S} = {B[x] : x \in X}
  BY <1>2, <1>3
<1> QED BY <1>4 DEF R, S

\* The attended tokens of some responses, and those of the critic.
LEMMA TokensNamed ==
  ASSUME NEW n \in Nat, NamedRows(batch.responses, n), NEW X, X \subseteq 1 .. n
  PROVE  LET B == batch.responses
             ids == {B[x].id : x \in X}
         IN  /\ ValidOf(ids) = NamedTokens(B, X)
             /\ CriticTokens(ids) = UNION {{<<B[x].id, t>> : t \in CriticMask(B[x])} : x \in X}
<1> DEFINE B == batch.responses
           ids == {B[x].id : x \in X}
           R == {row \in Range(batch.responses) : row.id \in ids}
<1>1. R = {B[x] : x \in X}
  BY RowsNamed, Zenon DEF NamedRows
<1>2. ValidOf(ids) = UNION {{<<row.id, t>> : t \in row.valid} : row \in R}
  BY DEF ValidOf, TokensOf
<1>3. CriticTokens(ids) = UNION {{<<row.id, t>> : t \in CriticMask(row)} : row \in R}
  BY DEF CriticTokens, TokensOf
<1> HIDE DEF R, ids, B
<1>4. UNION {{<<row.id, t>> : t \in row.valid} : row \in R} = UNION {{<<B[x].id, t>> : t \in B[x].valid} : x \in X}
  BY <1>1
<1>5. UNION {{<<row.id, t>> : t \in CriticMask(row)} : row \in R}
        = UNION {{<<B[x].id, t>> : t \in CriticMask(B[x])} : x \in X}
  BY <1>1
<1> QED BY <1>2, <1>3, <1>4, <1>5 DEF NamedTokens, ids, B

\* The kept tokens of one response.
OfResponse(selected, id) == {token \in selected : token[1] = id}
KeepsOf(B, X, M, x) == OfResponse(KeptBy(B, X, M), B[x].id) = {<<B[x].id, t>> : t \in M[x]}

\* They are those kept of its row.
LEMMA KeptWithin ==
  ASSUME NEW n \in Nat, NEW B, OwnIds(B, n), NEW X, X \subseteq 1 .. n, NEW M, NEW x \in X
  PROVE  KeepsOf(B, X, M, x)
<1> DEFINE K == KeptBy(B, X, M)
           G(y) == {<<B[y].id, t>> : t \in M[y]}
           W == {token \in K : token[1] = B[x].id}
<1>1. K = UNION {G(y) : y \in X}
  BY DEF KeptBy
<1>2. ASSUME NEW token \in W PROVE token \in G(x)
  <2>1. PICK y \in X : token \in G(y)
    BY <1>1
  <2>2. token[1] = B[y].id /\ token[1] = B[x].id
    BY <2>1
  <2>3. y = x
    BY <2>2 DEF OwnIds
  <2> QED BY <2>1, <2>3
<1>3. ASSUME NEW token \in G(x) PROVE token \in W
  <2>1. token \in K
    <3> HIDE DEF G, K
    <3> QED BY <1>1, <1>3
  <2>2. token[1] = B[x].id
    BY <1>3
  <2> QED BY <2>1, <2>2
<1>4. W = G(x)
  <2> HIDE DEF W, G
  <2> QED BY <1>2, <1>3
<1> QED BY <1>4 DEF KeepsOf, OfResponse

\* What SelectedOfStep says of the tokens a step selected of some rows.
AboveThreshold(tokens)   == {x \in tokens : Divergence(x[1], x[2]) >= cfg.threshold}
DrawnOfEach(selected, rows) ==
  \A id \in rows : ValidOf({id}) # {} =>
    Cardinality(OfResponse(selected, id)) = KeepCount(Cardinality(ValidOf({id})), 0, cfg.fraction)
RankedOfEach(selected, rows) == \A id \in rows : SelectsByRank(OfResponse(selected, id), ValidOf({id}))
ChosenOf(model, selected, rows) ==
  IF model = "critic" THEN selected = CriticTokens(rows)
  ELSE CASE cfg.mode = "off"      -> selected = ValidOf(rows)
         [] cfg.mode = "absolute" -> selected = AboveThreshold(ValidOf(rows))
         [] cfg.mode = "random"   -> DrawnOfEach(selected, rows)
         [] OTHER -> IF cfg.batchAgg THEN SelectsByRank(selected, ValidOf(rows)) ELSE RankedOfEach(selected, rows)

\* Case by case.
LEMMA ChosenIs ==
  ASSUME NEW model, NEW selected, NEW rows, cfg.mode \in {"off", "absolute", "random"} \cup RankingModes,
         \/ model = "critic" /\ selected = CriticTokens(rows)
         \/ model = "actor" /\ cfg.mode = "off" /\ selected = ValidOf(rows)
         \/ model = "actor" /\ cfg.mode = "absolute" /\ selected = AboveThreshold(ValidOf(rows))
         \/ model = "actor" /\ cfg.mode = "random" /\ DrawnOfEach(selected, rows)
         \/ model = "actor" /\ cfg.mode \in RankingModes /\ cfg.batchAgg /\ SelectsByRank(selected, ValidOf(rows))
         \/ model = "actor" /\ cfg.mode \in RankingModes /\ ~cfg.batchAgg /\ RankedOfEach(selected, rows)
  PROVE  ChosenOf(model, selected, rows)
<1>1. CASE model = "critic" /\ selected = CriticTokens(rows)
  BY <1>1 DEF ChosenOf
<1>2. CASE model = "actor" /\ cfg.mode = "off" /\ selected = ValidOf(rows)
  BY <1>2 DEF ChosenOf
<1>3. CASE model = "actor" /\ cfg.mode = "absolute" /\ selected = AboveThreshold(ValidOf(rows))
  BY <1>3 DEF ChosenOf
<1>4. CASE model = "actor" /\ cfg.mode = "random" /\ DrawnOfEach(selected, rows)
  BY <1>4 DEF ChosenOf
<1>5. CASE model = "actor" /\ cfg.mode \in RankingModes /\ cfg.batchAgg /\ SelectsByRank(selected, ValidOf(rows))
  BY <1>5 DEF ChosenOf, RankingModes
<1>6. CASE model = "actor" /\ cfg.mode \in RankingModes /\ ~cfg.batchAgg /\ RankedOfEach(selected, rows)
  BY <1>6 DEF ChosenOf, RankingModes
<1> QED BY <1>1, <1>2, <1>3, <1>4, <1>5, <1>6

\* The tokens of one response.
LEMMA ValidNamed ==
  ASSUME NEW n \in Nat, NamedRows(batch.responses, n), NEW x \in 1 .. n
  PROVE  /\ ValidOf({batch.responses[x].id}) = {<<batch.responses[x].id, t>> : t \in batch.responses[x].valid}
         /\ IsFiniteSet(batch.responses[x].valid)
<1> DEFINE B == batch.responses
           X == {x}
<1>1. {B[y].id : y \in X} = {B[x].id}
  OBVIOUS
<1>2. ValidOf({B[y].id : y \in X}) = NamedTokens(B, X)
  BY TokensNamed
<1>3. NamedTokens(B, X) = {<<B[x].id, t>> : t \in B[x].valid}
  BY DEF NamedTokens
<1>4. IsFiniteSet(B[x].valid)
  <2>1. IsFiniteSet(1 .. ResponseLength)
    BY LengthsAssumption, FS_Interval
  <2> QED BY <2>1, FS_Subset DEF NamedRows
<1> QED BY <1>1, <1>2, <1>3, <1>4

\* What is meant is what the property says.
LEMMA MaskChooses ==
  ASSUME cfg \in Configs, NEW n \in Nat, NamedRows(batch.responses, n), NEW X, X \subseteq 1 .. n, NEW M,
         NEW model \in {"critic", "actor"}, MaskOf(cfg, batch.responses, model, X, M)
  PROVE  ChosenOf(model, KeptBy(batch.responses, X, M), {batch.responses[x].id : x \in X})
<1> DEFINE B == batch.responses
           K == KeptBy(B, X, M)
           ids == {B[x].id : x \in X}
<1>1. /\ ValidOf(ids) = NamedTokens(B, X)
      /\ CriticTokens(ids) = UNION {{<<B[x].id, t>> : t \in CriticMask(B[x])} : x \in X}
  BY TokensNamed
<1>2. \A x \in X : /\ ValidOf({B[x].id}) = {<<B[x].id, t>> : t \in B[x].valid} /\ IsFiniteSet(B[x].valid)
                   /\ OfResponse(K, B[x].id) = {<<B[x].id, t>> : t \in M[x]}
  <2> SUFFICES ASSUME NEW x \in X
               PROVE  /\ ValidOf({B[x].id}) = {<<B[x].id, t>> : t \in B[x].valid} /\ IsFiniteSet(B[x].valid)
                      /\ OfResponse(K, B[x].id) = {<<B[x].id, t>> : t \in M[x]}
    OBVIOUS
  <2>1. x \in 1 .. n
    OBVIOUS
  <2>2. ValidOf({B[x].id}) = {<<B[x].id, t>> : t \in B[x].valid} /\ IsFiniteSet(B[x].valid)
    BY <2>1, ValidNamed
  <2>3. KeepsOf(B, X, M, x)
    <3> HIDE DEF B
    <3>1. OwnIds(B, n)
      BY DEF NamedRows, B
    <3> QED BY <3>1, KeptWithin
  <2> QED BY <2>2, <2>3 DEF KeepsOf
<1>3. K = UNION {{<<B[x].id, t>> : t \in M[x]} : x \in X}
  BY DEF KeptBy
<1>4. cfg.mode \in {"off", "absolute", "random"} \cup RankingModes /\ (cfg.batchAgg => cfg.mode \in RankingModes)
  BY ConfigsAssumption
<1> SUFFICES ChosenOf(model, K, ids)
  OBVIOUS
<1>5. CASE model = "critic"
  <2>1. \A x \in X : M[x] = CriticMask(B[x])
    BY <1>5 DEF MaskOf, CriticMask, Megatron
  <2>2. K = CriticTokens(ids)
    BY <1>1, <1>3, <2>1
  <2> HIDE DEF K, ids
  <2> QED BY <1>4, <1>5, <2>2, ChosenIs
<1>6. CASE model = "actor" /\ cfg.batchAgg
  <2>1. SelectsIn(cfg, K, NamedTokens(B, X))
    BY <1>6 DEF MaskOf
  <2>2. SelectsByRank(K, ValidOf(ids))
    <3> HIDE DEF K, ids
    <3> QED BY <1>1, <2>1, SelectsInIs
  <2>3. cfg.mode \in RankingModes
    BY <1>4, <1>6
  <2> HIDE DEF K, ids
  <2> QED BY <1>4, <1>6, <2>2, <2>3, ChosenIs
<1>7. CASE model = "actor" /\ ~cfg.batchAgg
  <2>1. \A x \in X : Meant(cfg, B[x].id, B[x].valid, M[x])
    BY <1>7 DEF MaskOf
  <2>2. CASE cfg.mode = "off"
    <3>1. \A x \in X : M[x] = B[x].valid
      BY <2>1, <2>2 DEF Meant
    <3>2. K = ValidOf(ids)
      BY <1>1, <1>3, <3>1 DEF NamedTokens
    <3> HIDE DEF K, ids
    <3> QED BY <1>4, <1>7, <2>2, <3>2, ChosenIs
  <2>3. CASE cfg.mode = "absolute"
    <3>1. \A x \in X : M[x] = {t \in B[x].valid : Divergence(B[x].id, t) >= cfg.threshold}
      BY <2>1, <2>3 DEF Meant
    <3> DEFINE V == NamedTokens(B, X)
    <3>2. V = UNION {{<<B[x].id, t>> : t \in B[x].valid} : x \in X}
      BY DEF NamedTokens
    <3> HIDE DEF K, V, B
    <3>3. K = {y \in V : Divergence(y[1], y[2]) >= cfg.threshold}
      <4>1. ASSUME NEW y \in K PROVE y \in V /\ Divergence(y[1], y[2]) >= cfg.threshold
        <5>1. PICK x \in X : \E t \in M[x] : y = <<B[x].id, t>>
          BY <1>3
        <5>2. PICK t \in M[x] : y = <<B[x].id, t>>
          BY <5>1
        <5>3. t \in B[x].valid /\ Divergence(B[x].id, t) >= cfg.threshold
          BY <3>1
        <5>4. y[1] = B[x].id /\ y[2] = t
          BY <5>2
        <5> QED BY <3>2, <5>2, <5>3, <5>4
      <4>2. ASSUME NEW y \in V, Divergence(y[1], y[2]) >= cfg.threshold PROVE y \in K
        <5>1. PICK x \in X : \E t \in B[x].valid : y = <<B[x].id, t>>
          BY <3>2
        <5>2. PICK t \in B[x].valid : y = <<B[x].id, t>>
          BY <5>1
        <5>3. y[1] = B[x].id /\ y[2] = t
          BY <5>2
        <5>4. Divergence(B[x].id, t) >= cfg.threshold
          BY <4>2, <5>3
        <5>5. t \in M[x]
          BY <3>1, <5>4
        <5> QED BY <1>3, <5>2, <5>5
      <4> QED BY <4>1, <4>2
    <3>4. K = AboveThreshold(ValidOf(ids))
      BY <1>1, <3>3 DEF V, AboveThreshold, B
    <3> HIDE DEF ids
    <3> QED BY <1>4, <1>7, <2>3, <3>4, ChosenIs
  <2>4. CASE cfg.mode = "random"
    <3>1. ASSUME NEW id \in ids, ValidOf({id}) # {}
          PROVE  Cardinality(OfResponse(K, id)) = KeepCount(Cardinality(ValidOf({id})), 0, cfg.fraction)
      <4>1. PICK x \in X : id = B[x].id
        OBVIOUS
      <4> DEFINE V == B[x].valid
      <4>2. ValidOf({id}) = {<<id, t>> : t \in V} /\ IsFiniteSet(V) /\ OfResponse(K, id) = {<<id, t>> : t \in M[x]}
        <5> HIDE DEF K
        <5> QED BY <1>2, <4>1
      <4>3. M[x] \subseteq V /\ (V # {} => Cardinality(M[x]) = KeepCount(Cardinality(V), 0, cfg.fraction))
        BY <2>1, <2>4 DEF Meant
      <4>4. V # {}
        BY <3>1, <4>2
      <4> DEFINE N == M[x]
      <4>5. IsFiniteSet(N)
        BY <4>2, <4>3, FS_Subset
      <4> HIDE DEF V, N
      <4>6. Cardinality({<<id, t>> : t \in V}) = Cardinality(V)
        BY <4>2, PairsCounted
      <4>7. Cardinality({<<id, t>> : t \in N}) = Cardinality(N)
        BY <4>5, PairsCounted
      <4> HIDE DEF K
      <4> QED BY <4>2, <4>3, <4>4, <4>6, <4>7 DEF N
    <3> HIDE DEF K, ids
    <3>2. DrawnOfEach(K, ids)
      BY <3>1 DEF DrawnOfEach
    <3> QED BY <1>4, <1>7, <2>4, <3>2, ChosenIs
  <2>5. CASE cfg.mode \in RankingModes
    <3>1. ASSUME NEW id \in ids PROVE SelectsByRank(OfResponse(K, id), ValidOf({id}))
      <4>1. PICK x \in X : id = B[x].id
        OBVIOUS
      <4>2. SelectsIn(cfg, {<<id, t>> : t \in M[x]}, {<<id, t>> : t \in B[x].valid})
        BY <2>1, <2>5, <4>1 DEF Meant
      <4> HIDE DEF K, ids, B
      <4>3. OfResponse(K, id) = {<<id, t>> : t \in M[x]} /\ ValidOf({id}) = {<<id, t>> : t \in B[x].valid}
        BY <1>2, <4>1
      <4>4. SelectsIn(cfg, OfResponse(K, id), ValidOf({id}))
        BY <4>2, <4>3
      <4> QED BY <4>4, SelectsInIs
    <3> HIDE DEF K, ids
    <3>2. RankedOfEach(K, ids)
      BY <3>1 DEF RankedOfEach
    <3> QED BY <1>4, <1>7, <2>5, <3>2, ChosenIs
  <2> QED BY <1>4, <2>2, <2>3, <2>4, <2>5
<1> QED BY <1>5, <1>6, <1>7

\* So every step of an optimizer that selects it selects what the property says.
LEMMA StepsChoose ==
  ASSUME cfg \in Configs, NamedRows(batch.responses, Samples(cfg)), DOMAIN steps = {"critic", "actor"},
         \A model \in {"critic", "actor"} : \A k \in DOMAIN steps[model] :
           StepSelects(cfg, batch.responses, model, steps[model][k])
  PROVE  SelectedOfStep
<1> DEFINE B == batch.responses
           n == Samples(cfg)
<1>1. n \in Nat
  BY KnownConfig
<1>2. ASSUME NEW model \in {"critic", "actor"}, NEW k \in DOMAIN steps[model]
      PROVE  LET step == steps[model][k]
             IN  /\ \A r, q \in Ranks : DpRank(r) = DpRank(q) => step[r].selected = step[q].selected
                 /\ ChosenOf(model, UNION {step[r].selected : r \in Ranks}, UNION {ToSet(step[r].rows) : r \in Ranks})
  <2> DEFINE step == steps[model][k]
  <2>1. StepSelects(cfg, B, model, step)
    OBVIOUS
  <2> HIDE DEF step
  <2>2. PICK X \in SUBSET (1 .. n) : \E M :
          /\ UNION {step[r].selected : r \in 0 .. cfg.world - 1} = KeptBy(B, X, M)
          /\ UNION {ToSet(step[r].rows) : r \in 0 .. cfg.world - 1} = {B[x].id : x \in X}
          /\ MaskOf(cfg, B, model, X, M)
    BY <2>1 DEF StepSelects
  <2>3. PICK M :
          /\ UNION {step[r].selected : r \in 0 .. cfg.world - 1} = KeptBy(B, X, M)
          /\ UNION {ToSet(step[r].rows) : r \in 0 .. cfg.world - 1} = {B[x].id : x \in X}
          /\ MaskOf(cfg, B, model, X, M)
    BY <2>2
  <2>4. ChosenOf(model, KeptBy(B, X, M), {B[x].id : x \in X})
    BY <1>1, <2>3, MaskChooses
  <2>5. \A r : DealtTo(cfg, r) = DpRank(r)
    BY DEF DealtTo, DpRank, DpOf, Dp
  <2>6. \A r, q \in Ranks : DpRank(r) = DpRank(q) => step[r].selected = step[q].selected
    BY <2>1, <2>5 DEF StepSelects, Ranks
  <2> QED BY <2>3, <2>4, <2>6 DEF Ranks, step
<1> QED BY <1>2 DEF SelectedOfStep, ChosenOf, OfResponse, AboveThreshold, DrawnOfEach, RankedOfEach

-----------------------------------------------------------------------------
\* What a step trains is what is meant.

\* Ranks that take the same row of the batch in a step belong to one group, and take it alike.
LEMMA TakenAlike ==
  ASSUME cfg \in Configs, Dealable, NEW k \in 1 .. Minis(cfg) * cfg.epochs, NEW r \in Ranks, NEW q \in Ranks,
         NEW i \in 1 .. RowsOfStep(cfg, k), NEW j \in 1 .. RowsOfStep(cfg, k),
         RowAt(cfg, r, k, i) = RowAt(cfg, q, k, j)
  PROVE  DealtTo(cfg, r) = DealtTo(cfg, q) /\ i = j
<1> DEFINE c == cfg
           m == PerRank(c)
           l == PerMini(c)
           x == RowAt(c, r, k, i)
           y == OrderIn(c, EpochOf(c, k))[(MiniOf(c, k) - 1) * l + i]
           u == DealtTo(c, r)
<1>1. Sized(c) /\ OfMesh(c, r) /\ OfMesh(c, q)
  BY SizedIs, DealtToIs DEF SameSizes, OfMesh
<1>2. x = u * m + y
  BY DEF RowAt
<1>3. y \in 1 .. m
  <2>1. StepIs(c, k, EpochOf(c, k), MiniOf(c, k))
    BY <1>1, StepsAre
  <2>2. MiniOf(c, k) \in 1 .. CeilDiv(m, l) /\ EpochOf(c, k) \in Nat
    BY <1>1, <2>1 DEF StepIs, Minis, Sized
  <2>3. m \in Nat \ {0} /\ l \in Nat \ {0}
    BY <1>1 DEF Sized
  <2>4. OrderIn(c, EpochOf(c, k)) \in Orders(m)
    BY <2>2, <2>3, OrderInIs
  <2>5. (MiniOf(c, k) - 1) * l + i \in 1 .. m
    BY <2>2, <2>3, PiecesAre DEF RowsOfStep
  <2> QED BY <2>4, <2>5 DEF Orders
<1>4. At(x, u, m, y) /\ u \in 0 .. DpOf(c) - 1
  BY <1>1, <1>2, <1>3 DEF At, OfMesh
<1>5. Takes(c, q, k, x)
  BY DEF Takes
<1>6. DealtTo(c, q) = u
  <2> HIDE DEF x, y, u
  <2> QED BY <1>1, <1>3, <1>4, <1>5, TakenOnce
<1>7. RowAt(c, q, k, j) = RowAt(c, r, k, j)
  BY <1>6 DEF RowAt
<1>8. i = j
  BY <1>1, <1>7, StepRowsAre
<1> QED BY <1>6, <1>8

\* The rows of the batch a step takes, and of each the tokens its loss keeps.
TakenRows(c, k) == {x \in 1 .. Samples(c) : \E r \in 0 .. c.world - 1 : Takes(c, r, k, x)}
DataAlike(c, ws) == \A r, q \in 0 .. c.world - 1 : DealtTo(c, r) = DealtTo(c, q) => ws[r].data = ws[q].data
LossKeeps(k, M) ==
  \A r \in Ranks : \A i \in 1 .. RowsOfStep(cfg, k) : LossMask(work[r].data, i) = M[RowAt(cfg, r, k, i)]

\* The tokens are the same on whichever rank.
LEMMA KeepsAlike ==
  ASSUME cfg \in Configs, Dealable, NEW k \in 1 .. Minis(cfg) * cfg.epochs, DataAlike(cfg, work)
  PROVE  \E M : LossKeeps(k, M)
<1> DEFINE n == RowsOfStep(cfg, k)
           P == Ranks \X (1 .. n)
           D == TakenRows(cfg, k)
           At2(w) == RowAt(cfg, w[1], k, w[2])
           L(w) == LossMask(work[w[1]].data, w[2])
           pick == [x \in D |-> CHOOSE w \in P : At2(w) = x]
           M == [x \in D |-> L(pick[x])]
<1>1. ASSUME NEW v \in P, NEW w \in P, At2(v) = At2(w) PROVE L(v) = L(w)
  <2>1. v[1] \in Ranks /\ w[1] \in Ranks /\ v[2] \in 1 .. n /\ w[2] \in 1 .. n
    OBVIOUS
  <2>2. DealtTo(cfg, v[1]) = DealtTo(cfg, w[1]) /\ v[2] = w[2]
    BY <1>1, <2>1, TakenAlike
  <2>3. work[v[1]].data = work[w[1]].data
    BY <2>1, <2>2 DEF DataAlike, Ranks
  <2> QED BY <2>2, <2>3
<1>2. ASSUME NEW r \in Ranks, NEW i \in 1 .. n PROVE RowAt(cfg, r, k, i) \in D /\ <<r, i>> \in P
  <2>1. Sized(cfg) /\ OfMesh(cfg, r)
    BY SizedIs, DealtToIs DEF SameSizes, OfMesh
  <2>2. RowAt(cfg, r, k, i) \in 1 .. Samples(cfg)
    BY <2>1, StepRowsAre
  <2> QED BY <2>2 DEF TakenRows, Takes, Ranks
<1>3. ASSUME NEW r \in Ranks, NEW i \in 1 .. n PROVE LossMask(work[r].data, i) = M[RowAt(cfg, r, k, i)]
  <2> DEFINE x == RowAt(cfg, r, k, i)
             w == <<r, i>>
             v == pick[x]
  <2>1. x \in D /\ w \in P /\ At2(w) = x /\ L(w) = LossMask(work[r].data, i)
    BY <1>2
  <2>2. v = CHOOSE y \in P : At2(y) = x
    BY <2>1
  <2>3. M[x] = L(v)
    BY <2>1
  <2> HIDE DEF x, w, v, At2, L, P, pick, M, D
  <2>4. v \in P /\ At2(v) = x
    BY <2>1, <2>2
  <2>5. L(v) = L(w)
    BY <1>1, <2>1, <2>4
  <2> QED BY <2>1, <2>3, <2>5 DEF x
<1> HIDE DEF M
<1> QED BY <1>3 DEF LossKeeps, n

\* The rows that the ranks train on in a step, and the tokens.
LEMMA StepTakes ==
  ASSUME cfg \in Configs, Dealable, NEW k \in 1 .. Minis(cfg) * cfg.epochs,
         Holds(cfg, batch.responses, work, k), OwnIds(batch.responses, Samples(cfg)),
         NEW M, LossKeeps(k, M)
  PROVE  /\ UNION {TrainedBy(r).selected : r \in Ranks} = KeptBy(batch.responses, TakenRows(cfg, k), M)
         /\ UNION {ToSet(TrainedBy(r).rows) : r \in Ranks} = {batch.responses[x].id : x \in TakenRows(cfg, k)}
<1> DEFINE n == RowsOfStep(cfg, k)
           B == batch.responses
           X == TakenRows(cfg, k)
           x(r, i) == RowAt(cfg, r, k, i)
           K(y) == {<<B[y].id, t>> : t \in M[y]}
           S(r) == TrainedBy(r).selected
           R(r) == ToSet(TrainedBy(r).rows)
<1>1. X = {x(r, i) : r \in Ranks, i \in 1 .. n}
  <2>1. ASSUME NEW r \in Ranks, NEW i \in 1 .. n PROVE x(r, i) \in 1 .. Samples(cfg)
    <3>1. Sized(cfg) /\ OfMesh(cfg, r)
      BY SizedIs, DealtToIs DEF SameSizes, OfMesh
    <3> QED BY <3>1, StepRowsAre
  <2>2. X = {y \in 1 .. Samples(cfg) : \E r \in Ranks : \E i \in 1 .. n : x(r, i) = y}
    BY DEF TakenRows, Takes, Ranks
  <2> HIDE DEF x, X
  <2> QED BY <2>1, <2>2
<1>2. ASSUME NEW r \in Ranks
      PROVE  S(r) = UNION {K(x(r, i)) : i \in 1 .. n} /\ R(r) = {B[x(r, i)].id : i \in 1 .. n}
  <2> DEFINE data == work[r].data
             F(i) == {<<data.responses[i].id, t>> : t \in LossMask(data, i)}
             rows == TrainedBy(r).rows
  <2>1. Table(data, n) /\ data.responses = [i \in 1 .. n |-> B[x(r, i)]]
    BY DEF Holds, Ranks
  <2>2. n \in Nat
    <3>1. Sized(cfg) /\ OfMesh(cfg, r)
      BY SizedIs, DealtToIs DEF SameSizes, OfMesh
    <3> QED BY <3>1, StepRowsAre
  <2>3. Rows(data) = n
    <3> HIDE DEF n, data
    <3> QED BY <2>1, <2>2, TableRows
  <2>4. S(r) = UNION {F(i) : i \in 1 .. Rows(data)}
    BY DEF TrainedBy
  <2>5. \A i \in 1 .. n : F(i) = K(x(r, i))
    <3> SUFFICES ASSUME NEW i \in 1 .. n PROVE F(i) = K(x(r, i))
      OBVIOUS
    <3>1. LossMask(data, i) = M[x(r, i)]
      BY DEF LossKeeps
    <3>2. data.responses[i].id = B[x(r, i)].id
      <4> HIDE DEF x, n, data, B
      <4> QED BY <2>1
    <3> QED BY <3>1, <3>2
  <2>6. rows = [i \in 1 .. n |-> B[x(r, i)].id]
    BY TrainedRows
  <2> HIDE DEF F, x, n, K, S, data, rows
  <2>7. S(r) = UNION {K(x(r, i)) : i \in 1 .. n}
    BY <2>3, <2>4, <2>5
  <2>8. ToSet(rows) = {B[x(r, i)].id : i \in 1 .. n}
    BY <2>6 DEF ToSet
  <2> QED BY <2>7, <2>8 DEF rows
<1>3. KeptBy(B, X, M) = UNION {K(y) : y \in X}
  BY DEF KeptBy
<1> HIDE DEF S, R, K, x, X, n
<1>4. UNION {S(r) : r \in Ranks} = UNION {K(y) : y \in X}
  BY <1>1, <1>2
<1>5. UNION {R(r) : r \in Ranks} = {B[y].id : y \in X}
  BY <1>1, <1>2
<1>6. UNION {TrainedBy(r).selected : r \in Ranks} = UNION {S(r) : r \in Ranks}
  BY DEF S
<1>7. UNION {ToSet(TrainedBy(r).rows) : r \in Ranks} = UNION {R(r) : r \in Ranks}
  BY DEF R
<1> QED BY <1>3, <1>4, <1>5, <1>6, <1>7 DEF X

\* Mini-batches that compete are taken whole.
LEMMA PoolTaken ==
  ASSUME cfg \in Configs, Dealable, cfg.batchAgg, NEW k \in 1 .. Minis(cfg) * cfg.epochs
  PROVE  TakenRows(cfg, k) = PoolOf(cfg, MiniOf(cfg, k)) /\ MiniOf(cfg, k) \in 1 .. Minis(cfg)
<1> DEFINE j == MiniOf(cfg, k)
           e == EpochOf(cfg, k)
           n == RowsOfStep(cfg, k)
           d == DpOf(cfg)
           m == PerRank(cfg)
           l == PerMini(cfg)
           y(u, i) == u * m + ((j - 1) * l + i)
<1>1. Sized(cfg) /\ SameSizes(cfg)
  BY SizedIs
<1>2. StepIs(cfg, k, e, j)
  BY <1>1, StepsAre
<1>3. j \in 1 .. Minis(cfg)
  BY <1>2 DEF StepIs
<1>4. /\ j \in 1 .. CeilDiv(m, l) /\ m \in Nat \ {0} /\ l \in Nat \ {0} /\ n = PieceRows(m, l, j)
  BY <1>1, <1>3 DEF Minis, Sized, RowsOfStep
<1>5. OrderIn(cfg, e) = [i \in 1 .. m |-> i]
  BY ConfigsAssumption DEF OrderIn, RankingModes
<1>6. \A i \in 1 .. n : (j - 1) * l + i \in 1 .. m
  <2> HIDE DEF m, l, j, n
  <2> QED BY <1>4, PiecesAre
<1>7. \A r : \A i \in 1 .. n : RowAt(cfg, r, k, i) = y(DealtTo(cfg, r), i)
  BY <1>5, <1>6 DEF RowAt
<1>8. ASSUME NEW u \in 0 .. d - 1 PROVE \E r \in Ranks : DealtTo(cfg, r) = u
  <2>1. d = Dp
    BY <1>1 DEF SameSizes
  <2> DEFINE S == {r \in Ranks : DpRank(r) = u}
  <2>2. Cardinality(S) * Dp = cfg.world
    <3> HIDE DEF S
    <3>1. u \in 0 .. Dp - 1 /\ S = {r \in Ranks : DpRank(r) = u}
      BY <2>1 DEF S
    <3> QED BY <3>1, OwnersAre
  <2>3. cfg.world \in Nat \ {0} /\ Dp \in Nat \ {0}
    BY <1>1, <2>1, KnownConfig DEF Sized
  <2>4. S # {}
    <3> SUFFICES ASSUME S = {} PROVE FALSE
      OBVIOUS
    <3>1. Cardinality(S) = 0
      BY FS_EmptySet
    <3>2. 0 * Dp = 0
      BY <2>3
    <3> QED BY <2>2, <2>3, <3>1, <3>2
  <2> QED BY <1>1, <2>4 DEF SameSizes
<1>9. \A r \in Ranks : DealtTo(cfg, r) \in 0 .. d - 1
  BY <1>1, DealtToIs DEF SameSizes
<1>10. \A r \in Ranks : \A i \in 1 .. n : RowAt(cfg, r, k, i) \in 1 .. Samples(cfg)
  <2> SUFFICES ASSUME NEW r \in Ranks PROVE \A i \in 1 .. n : RowAt(cfg, r, k, i) \in 1 .. Samples(cfg)
    OBVIOUS
  <2>1. OfMesh(cfg, r)
    BY <1>9 DEF OfMesh
  <2> QED BY <1>1, <2>1, StepRowsAre
<1>11. TakenRows(cfg, k) = {x \in 1 .. Samples(cfg) : \E r \in Ranks : \E i \in 1 .. n : RowAt(cfg, r, k, i) = x}
  BY DEF TakenRows, Takes, Ranks
<1>12. PoolOf(cfg, j) = {y(u, i) : u \in 0 .. d - 1, i \in 1 .. n}
  BY <1>4 DEF PoolOf
<1> HIDE DEF y, n, d, j
<1>13. ASSUME NEW x \in TakenRows(cfg, k) PROVE x \in PoolOf(cfg, j)
  BY <1>7, <1>9, <1>11, <1>12
<1>14. ASSUME NEW x \in PoolOf(cfg, j) PROVE x \in TakenRows(cfg, k)
  <2>1. PICK u \in 0 .. d - 1, i \in 1 .. n : x = y(u, i)
    BY <1>12
  <2>2. PICK r \in Ranks : DealtTo(cfg, r) = u
    BY <1>8
  <2>3. RowAt(cfg, r, k, i) = x
    BY <1>7, <2>1, <2>2
  <2> QED BY <1>10, <1>11, <2>3
<1>15. TakenRows(cfg, k) = PoolOf(cfg, j)
  BY <1>13, <1>14
<1> QED BY <1>3, <1>15 DEF j

\* What the ranks train on in a step is what was meant.
LEMMA StepIsMeant ==
  ASSUME cfg \in Configs, Dealable, NEW k \in 1 .. Minis(cfg) * cfg.epochs,
         Holds(cfg, batch.responses, work, k), NamedRows(batch.responses, Samples(cfg)), DataAlike(cfg, work),
         NEW model \in {"critic", "actor"},
         model = "critic" => \A r \in Ranks : MaskName \notin DOMAIN work[r].data,
         model = "actor" => Chosen(cfg, batch) /\ RowsChosen(cfg, batch, work, k)
  PROVE  StepSelects(cfg, batch.responses, model, [r \in Ranks |-> TrainedBy(r)])
<1> DEFINE n == RowsOfStep(cfg, k)
           B == batch.responses
           X == TakenRows(cfg, k)
           z == [r \in Ranks |-> TrainedBy(r)]
           x(r, i) == RowAt(cfg, r, k, i)
<1>1. OwnIds(B, Samples(cfg))
  BY DEF NamedRows
<1>2. PICK M : LossKeeps(k, M)
  BY KeepsAlike
<1>3. /\ UNION {TrainedBy(r).selected : r \in Ranks} = KeptBy(B, X, M)
      /\ UNION {ToSet(TrainedBy(r).rows) : r \in Ranks} = {B[y].id : y \in X}
  BY <1>1, <1>2, StepTakes
<1>4. \A r \in Ranks : z[r] = TrainedBy(r)
  OBVIOUS
<1>5. \A r, q \in Ranks : DealtTo(cfg, r) = DealtTo(cfg, q) => z[r].selected = z[q].selected
  <2> SUFFICES ASSUME NEW r \in Ranks, NEW q \in Ranks, DealtTo(cfg, r) = DealtTo(cfg, q)
               PROVE  TrainedBy(r).selected = TrainedBy(q).selected
    BY <1>4
  <2>1. work[r].data = work[q].data
    BY DEF DataAlike, Ranks
  <2> QED BY <2>1 DEF TrainedBy
<1>6. ASSUME NEW y \in X
      PROVE  \E r \in Ranks : \E i \in 1 .. n :
               x(r, i) = y /\ M[y] = LossMask(work[r].data, i) /\ work[r].data.responses[i] = B[y]
  <2>1. PICK r \in Ranks : \E i \in 1 .. n : x(r, i) = y
    BY DEF TakenRows, Takes, Ranks
  <2>2. PICK i \in 1 .. n : x(r, i) = y
    BY <2>1
  <2>3. M[y] = LossMask(work[r].data, i)
    BY <1>2, <2>2 DEF LossKeeps
  <2>4. work[r].data.responses = [h \in 1 .. n |-> B[x(r, h)]]
    BY DEF Holds, Ranks
  <2> QED BY <2>2, <2>3, <2>4
<1>7. X \in SUBSET (1 .. Samples(cfg))
  BY DEF TakenRows
<1> HIDE DEF z, B
<1>8. MaskOf(cfg, B, model, X, M)
  <2>1. ASSUME model = "critic", NEW y \in X
        PROVE  M[y] = IF cfg.backend = "megatron" THEN 1 .. B[y].response ELSE B[y].valid
    <3>1. PICK r \in Ranks, i \in 1 .. n : M[y] = LossMask(work[r].data, i) /\ work[r].data.responses[i] = B[y]
      BY <1>6
    <3>2. MaskName \notin DOMAIN work[r].data
      BY <2>1
    <3> QED BY <3>1, <3>2 DEF LossMask, CriticMask, Megatron, MaskName
  <2>2. ASSUME model = "actor", ~cfg.batchAgg, NEW y \in X
        PROVE  Meant(cfg, B[y].id, B[y].valid, M[y])
    <3>1. PICK r \in Ranks, i \in 1 .. n : M[y] = LossMask(work[r].data, i) /\ work[r].data.responses[i] = B[y]
      BY <1>6
    <3>2. RowMeant(cfg, work[r].data, i)
      BY <2>2 DEF RowsChosen, Ranks
    <3>3. M[y] = B[y].valid \cap work[r].data.js_token_selection_mask[i]
      BY <3>1, <3>2 DEF RowMeant, LossMask, MaskName
    <3> QED BY <3>1, <3>2, <3>3 DEF RowMeant
  <2>3. ASSUME model = "actor", cfg.batchAgg PROVE SelectsIn(cfg, KeptBy(B, X, M), NamedTokens(B, X))
    <3> DEFINE mask == batch.js_token_selection_mask
    <3>1. \A y \in X : M[y] = B[y].valid \cap mask[y]
      <4> SUFFICES ASSUME NEW y \in X PROVE M[y] = B[y].valid \cap mask[y]
        OBVIOUS
      <4>1. PICK r \in Ranks, i \in 1 .. n :
              x(r, i) = y /\ M[y] = LossMask(work[r].data, i) /\ work[r].data.responses[i] = B[y]
        BY <1>6
      <4>2. MaskName \in DOMAIN work[r].data /\ work[r].data.js_token_selection_mask[i] = mask[y]
        BY <2>3, <4>1 DEF RowsChosen, Ranks
      <4> QED BY <4>1, <4>2 DEF LossMask, MaskName
    <3>2. X = PoolOf(cfg, MiniOf(cfg, k)) /\ MiniOf(cfg, k) \in 1 .. Minis(cfg)
      BY <2>3, PoolTaken
    <3>3. SelectsIn(cfg, KeptTokens(B, mask, X), NamedTokens(B, X))
      BY <2>3, <3>2 DEF Chosen, PooledBatch, B
    <3> HIDE DEF mask, X
    <3>4. KeptBy(B, X, M) = KeptTokens(B, mask, X)
      BY <3>1 DEF KeptBy, KeptTokens
    <3> QED BY <3>3, <3>4
  <2> HIDE DEF X
  <2> QED BY <2>1, <2>2, <2>3 DEF MaskOf
<1>9. /\ UNION {z[r].selected : r \in Ranks} = KeptBy(B, X, M)
      /\ UNION {ToSet(z[r].rows) : r \in Ranks} = {B[y].id : y \in X}
  BY <1>3, <1>4
<1> HIDE DEF X
<1> QED BY <1>5, <1>7, <1>8, <1>9 DEF StepSelects, Ranks, z, B

-----------------------------------------------------------------------------
\* The tokens that are selected, from step to step.

\* What the steps so far have selected of the rows of the batch.
StepsSelected(c, B, s) ==
  \/ NoSteps(s)
  \/ /\ c \in Configs /\ NamedRows(B, Samples(c)) /\ DOMAIN s = {"critic", "actor"}
     /\ \A model \in {"critic", "actor"} : \A k \in DOMAIN s[model] : StepSelects(c, B, model, s[model][k])

\* The batch has no mask until it is ranked, and so has none that the critic is trained on; the
\* one the actor is trained on is right in the batch and on the ranks.
MaskedInTime(c, b, s, ws, ph) ==
  /\ ph \in BeforeSteps \cup {"update_critic", "criticized"} => MaskName \notin DOMAIN b
  /\ ph \in {"ranked", "update"} => Chosen(c, b)
  /\ ph = "update_critic" => \A r \in 0 .. c.world - 1 : MaskName \notin DOMAIN ws[r].data
  /\ ph = "update" => RowsChosen(c, b, ws, Len(s.actor) + 1)

\* What every step keeps.
SelectRest ==
  /\ StepsSelected(cfg, batch.responses, steps)
  /\ MaskedInTime(cfg, batch, steps, work, phase)
SelectInv == TrainInv /\ AlignRest /\ SelectRest

\* It has both.
LEMMA SelectHas ==
  ASSUME SelectInv
  PROVE  TrainInv /\ AlignInv
BY DEF SelectInv, AlignInv, TrainInv

\* Before an optimizer makes a step all that matters is that there is no mask.
LEMMA EarlySelects ==
  ASSUME NoSteps(steps), steps' = steps, phase' \in BeforeSteps \cup {"raised", "failed", "done"},
         MaskName \notin DOMAIN batch'
  PROVE  SelectRest'
<1>1. phase' \notin {"ranked", "update"} /\ phase' # "update_critic" /\ phase' # "update"
  BY DEF BeforeSteps
<1> QED BY <1>1 DEF SelectRest, StepsSelected, MaskedInTime

\* The step is over.
LEMMA EndSelects ==
  ASSUME StepsSelected(cfg', batch'.responses, steps'), phase' \in {"raised", "failed", "done"}
  PROVE  SelectRest'
<1>1. phase' \notin BeforeSteps \cup {"update_critic", "criticized", "ranked", "update"}
  BY DEF BeforeSteps
<1> QED BY <1>1 DEF SelectRest, MaskedInTime

\* Generation, balancing, the log-probabilities, the values and the advantages.
LEMMA DriverSelects ==
  ASSUME SelectInv,
         \/ CallGenerate \/ (\E w \in DOMAIN work : phase = "generating" /\ Generate(w)) \/ CollectGenerate
         \/ Balance \/ CallLogProb \/ ComputeLogProb \/ CollectLogProb
         \/ CallValues \/ ComputeValues \/ CollectValues \/ ComputeAdvantage
  PROVE  SelectRest'
<1>1. AlignInv /\ TrainInv
  BY SelectHas
<1>2. ASSUME phase \in BeforeSteps PROVE NoSteps(steps) /\ MaskName \notin DOMAIN batch
  BY <1>1, <1>2 DEF TrainInv, TrainRest, SelectInv, SelectRest, MaskedInTime
<1>3. ASSUME NEW shares, NEW next, Begin(shares, next) PROVE phase' \in {next, "raised"}
  BY <1>3 DEF Begin
<1>4. CASE CallGenerate
  <2>1. phase = "start" /\ phase' = "generating" /\ steps' = steps /\ batch' = GenerationBatch
    BY <1>4 DEF CallGenerate
  <2>2. cfg \in Configs
    BY <2>1, <1>1 DEF TrainInv, WaitInv, BalanceInv
  <2>3. MaskName \notin DOMAIN GenerationBatch
    BY <2>2, BatchNames DEF MaskName
  <2> QED BY <1>2, <2>1, <2>3, EarlySelects DEF BeforeSteps
<1>5. CASE \E w \in DOMAIN work : phase = "generating" /\ Generate(w)
  <2>1. phase = "generating" /\ phase' = phase /\ steps' = steps /\ batch' = batch
    BY <1>5 DEF Generate
  <2> QED BY <1>2, <2>1, EarlySelects DEF BeforeSteps
<1>6. CASE CollectGenerate
  <2>1. phase = "generating" /\ phase' \in {"done", "generated"} /\ steps' = steps
    BY <1>6 DEF CollectGenerate
  <2>2. DOMAIN batch' = DOMAIN batch \cup {"uid", "responses"}
    BY <1>1, <1>6, CollectGenerateAligns
  <2> QED BY <1>2, <2>1, <2>2, EarlySelects DEF BeforeSteps, MaskName
<1>7. CASE Balance
  <2>1. phase = "generated" /\ phase' = "balanced" /\ steps' = steps
    BY <1>7 DEF Balance
  <2>2. DOMAIN batch' = DOMAIN batch
    BY <1>7 DEF Balance, Reorder, SelectIdxs
  <2> QED BY <1>2, <2>1, <2>2, EarlySelects DEF BeforeSteps
<1>8. CASE CallLogProb
  <2>1. /\ phase = "balanced" /\ Begin(DispatchTo(Select(batch, {"responses"})), "log_prob")
        /\ steps' = steps /\ batch' = batch
    BY <1>8 DEF CallLogProb
  <2>2. phase' \in {"log_prob", "raised"}
    BY <1>3, <2>1
  <2> QED BY <1>2, <2>1, <2>2, EarlySelects DEF BeforeSteps
<1>9. CASE ComputeLogProb
  <2>1. phase = "log_prob" /\ phase' = phase /\ steps' = steps /\ batch' = batch
    BY <1>9 DEF ComputeLogProb
  <2> QED BY <1>2, <2>1, EarlySelects DEF BeforeSteps
<1>10. CASE CollectLogProb
  <2>1. phase = "log_prob" /\ phase' = "scored" /\ steps' = steps
    BY <1>10 DEF CollectLogProb
  <2>2. DOMAIN batch' = DOMAIN batch \cup ScoredColumns(cfg)
    BY <1>1, <1>10, CollectLogProbAligns
  <2>3. MaskName \notin ScoredColumns(cfg)
    BY DEF ScoredColumns, MaskName
  <2> QED BY <1>2, <2>1, <2>2, <2>3, EarlySelects DEF BeforeSteps
<1>11. CASE CallValues
  <2>1. /\ phase = "scored" /\ Begin(DispatchTo(Select(batch, {"responses"})), "values")
        /\ steps' = steps /\ batch' = batch
    BY <1>11 DEF CallValues
  <2>2. phase' \in {"values", "raised"}
    BY <1>3, <2>1
  <2> QED BY <1>2, <2>1, <2>2, EarlySelects DEF BeforeSteps
<1>12. CASE ComputeValues
  <2>1. phase = "values" /\ phase' = phase /\ steps' = steps /\ batch' = batch
    BY <1>12 DEF ComputeValues
  <2> QED BY <1>2, <2>1, EarlySelects DEF BeforeSteps
<1>13. CASE CollectValues
  <2>1. phase = "values" /\ phase' = "valued" /\ steps' = steps
    BY <1>13 DEF CollectValues
  <2>2. DOMAIN batch' = DOMAIN batch \cup {"values"}
    BY <1>1, <1>13, CollectValuesAligns
  <2> QED BY <1>2, <2>1, <2>2, EarlySelects DEF BeforeSteps, MaskName
<1>14. CASE ComputeAdvantage
  <2>1. phase \in {"scored", "valued"} /\ phase' = "credited" /\ steps' = steps
    BY <1>14 DEF ComputeAdvantage
  <2>2. DOMAIN batch' = DOMAIN batch \cup {"advantages", "returns"}
    BY <1>1, <1>14, ComputeAdvantageAligns
  <2> QED BY <1>2, <2>1, <2>2, EarlySelects DEF BeforeSteps, MaskName
<1> QED BY <1>4, <1>5, <1>6, <1>7, <1>8, <1>9, <1>10, <1>11, <1>12, <1>13, <1>14

\* The rows are numbered through once they are in training, and the ranks of a group have the same.
LEMMA RowsInTraining ==
  ASSUME SelectInv, phase \in AfterBalance
  PROVE  /\ cfg \in Configs /\ Dealable /\ Counted(steps) /\ Sound(cfg, batch, Samples(cfg))
         /\ OwnIds(batch.responses, Samples(cfg)) /\ NamedRows(batch.responses, Samples(cfg))
         /\ (phase \in Forwards => DataAlike(cfg, work) /\ InStep(cfg, work))
<1> DEFINE n == Samples(cfg)
<1>1. AlignInv /\ TrainInv
  BY SelectHas
<1>2. cfg \in Configs /\ Dealable /\ Counted(steps) /\ Sound(cfg, batch, n)
  BY <1>1, InTraining, TrainingSound DEF AlignInv
<1>3. OwnIds(batch.responses, n)
  BY <1>1 DEF TrainInv, TrainRest, Complete
<1>4. Column(batch.responses, n)
  BY <1>2 DEF Sound, Table
<1>5. \A x \in 1 .. n : batch.responses[x].valid \subseteq 1 .. ResponseLength
  <2> SUFFICES ASSUME NEW x \in 1 .. n PROVE batch.responses[x].valid \subseteq 1 .. ResponseLength
    OBVIOUS
  <2>1. Fitting(batch.responses[x])
    BY <1>2 DEF Sound, RowSound
  <2> QED BY <2>1, LengthsAssumption DEF Fitting
<1>6. ASSUME phase \in Forwards PROVE DataAlike(cfg, work) /\ InStep(cfg, work)
  <2>1. PICK m \in Nat : AtWork(cfg, work, m, phase)
    BY <1>1, <1>6 DEF AlignInv, AlignRest, AtForward
  <2>2. InStep(cfg, work)
    BY <1>1, <1>6, InForward DEF AlignInv
  <2> QED BY <2>1, <2>2 DEF AtWork, DataAlike
<1> QED BY <1>2, <1>3, <1>4, <1>5, <1>6 DEF NamedRows

\* No optimizer makes a step, and the responses stay as they are.
LEMMA StepsStay ==
  ASSUME SelectInv, cfg' = cfg, steps' = steps, batch'.responses = batch.responses
  PROVE  StepsSelected(cfg', batch'.responses, steps')
BY DEF SelectInv, SelectRest

\* The driver's ranking.
LEMMA RankSelects ==
  ASSUME SelectInv, Rank
  PROVE  SelectRest'
<1>1. AlignInv /\ TrainInv
  BY SelectHas
<1>2. phase \in {"credited", "criticized"} /\ phase' = "ranked" /\ cfg' = cfg /\ steps' = steps
  BY DEF Rank
<1>3. MaskName \notin DOMAIN batch
  BY <1>2 DEF SelectInv, SelectRest, MaskedInTime, BeforeSteps
<1>4. Chosen(cfg, batch') /\ batch'.responses = batch.responses
  BY <1>1, <1>3, RankChooses
<1>5. StepsSelected(cfg', batch'.responses, steps')
  BY <1>2, <1>4, StepsStay
<1>6. phase' \notin BeforeSteps \cup {"update_critic", "criticized"} /\ phase' # "update"
  BY <1>2 DEF BeforeSteps
<1> QED BY <1>2, <1>4, <1>5, <1>6 DEF SelectRest, MaskedInTime

\* The steps of an optimizer begin.
LEMMA CallSelects ==
  ASSUME SelectInv, CallCritic \/ CallUpdate
  PROVE  SelectRest'
<1>1. AlignInv /\ TrainInv
  BY SelectHas
<1>2. phase \in {"credited", "ranked"} /\ cfg' = cfg /\ batch' = batch /\ steps' = steps
  BY DEF CallCritic, CallUpdate, CallUpdateOf
<1>3. /\ cfg \in Configs /\ Dealable /\ Sound(cfg, batch, Samples(cfg))
      /\ OwnIds(batch.responses, Samples(cfg))
  BY <1>2, RowsInTraining DEF AfterBalance
<1>4. StepsSelected(cfg', batch'.responses, steps')
  BY <1>2, StepsStay
<1>5. 1 \in 1 .. Minis(cfg) * cfg.epochs /\ MiniOf(cfg, 1) = 1 /\ EpochOf(cfg, 1) = 0
  <2>1. Sized(cfg)
    BY <1>3, SizedIs
  <2>2. Minis(cfg) \in Nat \ {0} /\ cfg.epochs \in Nat \ {0}
    BY <2>1 DEF Sized
  <2> DEFINE N == Minis(cfg) * cfg.epochs
  <2>3. N \in Nat \ {0}
    BY <2>2
  <2> HIDE DEF N
  <2>4. 1 \in 1 .. N
    BY <2>3
  <2>5. 0 \in Nat
    OBVIOUS
  <2> QED BY <2>1, <2>4, <2>5, NextMini DEF N
<1>6. CASE phase' = "raised"
  BY <1>4, <1>6, EndSelects
<1>7. CASE CallCritic /\ phase' # "raised"
  <2>1. phase = "credited" /\ Begin(MiniBatch(1, 0, "critic"), "update_critic")
    BY <1>7 DEF CallCritic, CallUpdateOf
  <2>2. phase' = "update_critic"
    BY <1>7, <2>1 DEF Begin
  <2>3. \A r \in Ranks : MaskName \notin DOMAIN work'[r].data
    BY <1>3, <1>5, <1>7, <2>1, UnmaskedBegins
  <2>4. MaskName \notin DOMAIN batch
    BY <2>1 DEF SelectInv, SelectRest, MaskedInTime, BeforeSteps
  <2> QED BY <1>2, <1>4, <2>2, <2>3, <2>4 DEF SelectRest, MaskedInTime, Ranks
<1>8. CASE CallUpdate /\ phase' # "raised"
  <2>1. phase = "ranked" /\ Begin(MiniBatch(1, 0, "actor"), "update")
    BY <1>8 DEF CallUpdate, CallUpdateOf
  <2>2. phase' = "update"
    BY <1>8, <2>1 DEF Begin
  <2>3. Chosen(cfg, batch)
    BY <2>1 DEF SelectInv, SelectRest, MaskedInTime
  <2>4. RowsChosen(cfg, batch, work', 1)
    BY <1>3, <1>5, <1>8, <2>1, <2>3, ChosenBegins
  <2>5. Len(steps'.actor) + 1 = 1
    <3>1. steps.actor = <<>>
      BY <1>1, <2>1 DEF TrainInv, TrainRest
    <3> QED BY <1>2, <3>1
  <2>6. phase' \notin BeforeSteps \cup {"update_critic", "criticized"}
    BY <2>2 DEF BeforeSteps
  <2> QED BY <1>2, <1>4, <2>2, <2>3, <2>4, <2>5, <2>6 DEF SelectRest, MaskedInTime
<1> QED BY <1>6, <1>7, <1>8

\* Micro-batches run.
LEMMA BackwardSelects ==
  ASSUME SelectInv, BackwardCritic \/ Backward
  PROVE  SelectRest'
<1>1. /\ phase \in {"update_critic", "update"} /\ phase' = phase /\ cfg' = cfg /\ batch' = batch
      /\ steps' = steps /\ \E results : Forward(results)
  BY DEF BackwardCritic, Backward
<1>2. cfg \in Configs /\ InStep(cfg, work)
  BY <1>1, RowsInTraining DEF AfterBalance, Forwards
<1>3. \A r \in Ranks : work'[r].data = work[r].data
  BY <1>1, <1>2, ForwardHolds
<1>4. StepsSelected(cfg', batch'.responses, steps')
  BY <1>1, StepsStay
<1>5. MaskedInTime(cfg, batch, steps, work, phase)
  BY DEF SelectInv, SelectRest
<1>6. MaskedInTime(cfg', batch', steps', work', phase')
  <2>1. phase = "update" => RowsChosen(cfg, batch, work', Len(steps.actor) + 1)
    BY <1>3, <1>5 DEF MaskedInTime, RowsChosen, Ranks
  <2>2. phase = "update_critic" => \A r \in 0 .. cfg.world - 1 : MaskName \notin DOMAIN work'[r].data
    BY <1>3, <1>5 DEF MaskedInTime, Ranks
  <2> QED BY <1>1, <1>5, <2>1, <2>2 DEF MaskedInTime
<1> QED BY <1>4, <1>6 DEF SelectRest

\* How an optimizer goes on: to its next mini-batch, or to what comes after its last.
GoesOn(model, o, next) ==
  \/ phase' = next
  \/ /\ o \in 1 .. Minis(cfg) * cfg.epochs
     /\ Begin(MiniBatch(MiniOf(cfg, o), EpochOf(cfg, o), model), phase)

\* A step of an optimizer selects what it should.
LEMMA StepSelectsRows ==
  ASSUME SelectInv, phase \in {"update_critic", "update"}, NEW model \in {"critic", "actor"}, NEW next,
         model = IF phase = "update_critic" THEN "critic" ELSE "actor",
         StepThen(model, MoreSteps(model), next)
  PROVE  /\ cfg' = cfg /\ batch' = batch /\ StepsSelected(cfg', batch'.responses, steps')
         /\ GoesOn(model, Len(steps'[model]) + 1, next)
<1> DEFINE z == [r \in Ranks |-> TrainedBy(r)]
           B == batch.responses
           s == steps[model]
           t == steps'[model]
           N == Minis(cfg) * cfg.epochs
<1>1. /\ cfg' = cfg /\ batch' = batch /\ steps' = [steps EXCEPT ![model] = Append(steps[model], z)]
  BY DEF StepThen
<1>2. /\ cfg \in Configs /\ Dealable /\ Counted(steps) /\ NamedRows(B, Samples(cfg)) /\ DataAlike(cfg, work)
  BY RowsInTraining DEF AfterBalance, Forwards
<1>3. DOMAIN steps = {"critic", "actor"}
  BY <1>2 DEF Counted
<1>4. t = Append(s, z) /\ \A other \in {"critic", "actor"} : other # model => steps'[other] = steps[other]
  BY <1>1, <1>3
<1>5. AlignInv /\ TrainInv
  BY SelectHas
<1>6. Amid(cfg, B, s, work, mini)
  BY <1>5 DEF TrainInv, TrainRest
<1>7. PICK n \in Nat : /\ n < N /\ History(cfg, B, s, n) /\ mini = MiniOf(cfg, n + 1)
                       /\ Holds(cfg, B, work, n + 1)
  BY <1>6 DEF Amid
<1>8. Sized(cfg) /\ SameSizes(cfg)
  BY <1>2, SizedIs
<1>9. N \in Nat
  <2>1. Minis(cfg) \in Nat /\ cfg.epochs \in Nat
    BY <1>8 DEF Sized
  <2> QED BY <2>1
<1>10. n + 1 \in 1 .. N /\ n + 1 \in Nat
  BY <1>7, <1>9
<1>11. Column(s, n) /\ Len(s) = n
  BY <1>7, ColumnIs DEF History
<1>12. StepSelects(cfg, B, model, z)
  <2>1. MaskedInTime(cfg, batch, steps, work, phase)
    BY DEF SelectInv, SelectRest
  <2>2. model = "critic" => \A r \in Ranks : MaskName \notin DOMAIN work[r].data
    BY <2>1 DEF MaskedInTime, Ranks
  <2>3. model = "actor" => Chosen(cfg, batch) /\ RowsChosen(cfg, batch, work, n + 1)
    BY <1>11, <2>1 DEF MaskedInTime
  <2>4. n + 1 \in 1 .. Minis(cfg) * cfg.epochs
    BY <1>10
  <2> QED BY <1>2, <1>7, <2>2, <2>3, <2>4, StepIsMeant
<1> HIDE DEF z
<1>13. Column(t, n + 1) /\ (\A k \in 1 .. n : t[k] = s[k]) /\ t[n + 1] = z
  <2> HIDE DEF s, t
  <2> QED BY <1>4, <1>11, ColumnLonger, LongerAt
<1>14. DOMAIN t = 1 .. n + 1 /\ Len(t) = n + 1 /\ DOMAIN s = 1 .. n
  <2> HIDE DEF s, t
  <2> QED BY <1>10, <1>11, <1>13, ColumnIs
<1>15. \A other \in {"critic", "actor"} : \A k \in DOMAIN steps[other] : StepSelects(cfg, B, other, steps[other][k])
  <2>1. CASE NoSteps(steps)
    BY <2>1 DEF NoSteps
  <2>2. CASE ~NoSteps(steps)
    BY <2>2 DEF SelectInv, SelectRest, StepsSelected
  <2> QED BY <2>1, <2>2
<1>16. ASSUME NEW other \in {"critic", "actor"}, NEW k \in DOMAIN steps'[other]
       PROVE  StepSelects(cfg, B, other, steps'[other][k])
  <2>1. CASE other # model
    <3>1. steps'[other] = steps[other]
      BY <1>4, <2>1
    <3> QED BY <1>15, <3>1
  <2>2. CASE other = model /\ k \in 1 .. n
    <3>1. t[k] = s[k] /\ k \in DOMAIN s
      BY <1>13, <1>14, <2>2
    <3> QED BY <1>15, <2>2, <3>1
  <2>3. CASE other = model /\ k = n + 1
    BY <1>12, <1>13, <2>3
  <2>4. other = model => k \in 1 .. n + 1
    BY <1>14
  <2> QED BY <2>1, <2>2, <2>3, <2>4
<1>17. DOMAIN steps' = {"critic", "actor"}
  BY <1>1, <1>3
<1>18. StepsSelected(cfg', batch'.responses, steps')
  BY <1>1, <1>2, <1>16, <1>17 DEF StepsSelected
<1>19. GoesOn(model, n + 2, next)
  <2>1. CASE ~MoreSteps(model)
    BY <2>1 DEF StepThen, GoesOn
  <2>2. CASE MoreSteps(model)
    <3>1. /\ mini' = (mini % MiniBatches) + 1
          /\ Begin(MiniBatch(mini', (Len(s) + 1) \div MiniBatches, model), phase)
      BY <2>2 DEF StepThen
    <3>2. mini' = MiniOf(cfg, n + 2)
      BY <1>7, <1>8, <3>1, NextMini DEF SameSizes
    <3>3. (Len(s) + 1) \div MiniBatches = EpochOf(cfg, n + 2)
      <4>1. (n + 2) - 1 = n + 1
        OBVIOUS
      <4> QED BY <1>8, <1>11, <4>1 DEF SameSizes, EpochOf
    <3>4. n + 2 \in 1 .. Minis(cfg) * cfg.epochs
      <4>1. Len(s) + 1 < MiniBatches * cfg.epochs
        BY <2>2 DEF MoreSteps
      <4>2. n + 1 < N
        BY <1>8, <1>11, <4>1 DEF SameSizes
      <4> QED BY <1>9, <4>2
    <3> QED BY <3>1, <3>2, <3>3, <3>4 DEF GoesOn
  <2> QED BY <2>1, <2>2
<1>20. Len(steps'[model]) + 1 = n + 2
  BY <1>14
<1> QED BY <1>1, <1>18, <1>19, <1>20

\* A step of the critic, and one of the actor.
LEMMA OptimizersSelect ==
  ASSUME SelectInv, CriticStep \/ OptimizerStep
  PROVE  SelectRest'
<1>1. phase \in {"update_critic", "update"}
  BY DEF CriticStep, OptimizerStep
<1>2. /\ cfg \in Configs /\ Dealable /\ Sound(cfg, batch, Samples(cfg))
      /\ OwnIds(batch.responses, Samples(cfg))
  BY <1>1, RowsInTraining DEF AfterBalance, Forwards
<1>3. MaskedInTime(cfg, batch, steps, work, phase)
  BY DEF SelectInv, SelectRest
<1>4. CASE CriticStep
  <2> DEFINE o == Len(steps'.critic) + 1
  <2>1. phase = "update_critic" /\ StepThen("critic", MoreSteps("critic"), "criticized")
    BY <1>4 DEF CriticStep
  <2>2. /\ cfg' = cfg /\ batch' = batch /\ StepsSelected(cfg', batch'.responses, steps')
        /\ GoesOn("critic", o, "criticized")
    BY <2>1, StepSelectsRows
  <2>3. MaskName \notin DOMAIN batch
    BY <1>3, <2>1 DEF MaskedInTime
  <2> HIDE DEF o
  <2>4. CASE phase' = "raised"
    BY <2>2, <2>4, EndSelects
  <2>5. CASE phase' = "criticized"
    BY <2>2, <2>3, <2>5 DEF SelectRest, MaskedInTime
  <2>6. CASE phase' \notin {"raised", "criticized"}
    <3>1. /\ o \in 1 .. Minis(cfg) * cfg.epochs
          /\ Begin(MiniBatch(MiniOf(cfg, o), EpochOf(cfg, o), "critic"), phase)
      BY <2>2, <2>6 DEF GoesOn
    <3>2. phase' = phase
      BY <2>6, <3>1 DEF Begin
    <3>3. \A r \in Ranks : MaskName \notin DOMAIN work'[r].data
      BY <1>2, <2>6, <3>1, UnmaskedBegins
    <3> QED BY <2>1, <2>2, <2>3, <3>2, <3>3 DEF SelectRest, MaskedInTime, Ranks
  <2> QED BY <2>4, <2>5, <2>6
<1>5. CASE OptimizerStep
  <2> DEFINE o == Len(steps'.actor) + 1
  <2>1. phase = "update" /\ StepThen("actor", MoreSteps("actor"), "done")
    BY <1>5 DEF OptimizerStep
  <2>2. /\ cfg' = cfg /\ batch' = batch /\ StepsSelected(cfg', batch'.responses, steps')
        /\ GoesOn("actor", o, "done")
    BY <2>1, StepSelectsRows
  <2>3. Chosen(cfg, batch)
    BY <1>3, <2>1 DEF MaskedInTime
  <2>4. CASE phase' \in {"raised", "done"}
    BY <2>2, <2>4, EndSelects
  <2>5. CASE phase' \notin {"raised", "done"}
    <3> HIDE DEF o
    <3>1. /\ o \in 1 .. Minis(cfg) * cfg.epochs
          /\ Begin(MiniBatch(MiniOf(cfg, o), EpochOf(cfg, o), "actor"), phase)
      BY <2>2, <2>5 DEF GoesOn
    <3>2. phase' = phase
      BY <2>5, <3>1 DEF Begin
    <3>3. RowsChosen(cfg, batch, work', o)
      BY <1>2, <2>3, <2>5, <3>1, ChosenBegins
    <3>4. phase' \notin BeforeSteps \cup {"update_critic", "criticized"}
      BY <2>1, <3>2 DEF BeforeSteps
    <3> QED BY <2>1, <2>2, <2>3, <3>2, <3>3, <3>4 DEF SelectRest, MaskedInTime, o
  <2> QED BY <2>4, <2>5
<1> QED BY <1>4, <1>5

\* A step that ends with an error leaves the steps so far as they are.
LEMMA FailsSelect ==
  ASSUME SelectInv, CannotDivide \/ EstimatorFails \/ GatherFails
  PROVE  SelectRest'
<1>1. phase' \in {"raised", "failed"} /\ cfg' = cfg /\ batch' = batch /\ steps' = steps
  BY DEF CannotDivide, EstimatorFails, GatherFails
<1>2. StepsSelected(cfg', batch'.responses, steps')
  BY <1>1, StepsStay
<1> QED BY <1>1, <1>2, EndSelects

\* Nothing has been selected at first.
LEMMA SelectStarts ==
  ASSUME Init
  PROVE  SelectInv
<1>1. TrainInv /\ AlignInv
  BY TrainStarts, AlignStarts
<1>2. phase = "start" /\ batch = <<>> /\ NoSteps(steps)
  BY DEF Init, NoSteps
<1>3. MaskName \notin DOMAIN batch
  BY <1>2
<1> QED BY <1>1, <1>2, <1>3 DEF SelectInv, AlignInv, SelectRest, StepsSelected, MaskedInTime

\* Each action keeps it so.
LEMMA SelectStep ==
  ASSUME SelectInv, [Next]_vars
  PROVE  SelectInv'
<1>1. TrainInv' /\ AlignInv'
  BY SelectHas, TrainStep, AlignStep
<1>2. SelectRest'
  <2>1. CASE \/ CallGenerate \/ (\E w \in DOMAIN work : phase = "generating" /\ Generate(w)) \/ CollectGenerate
             \/ Balance \/ CallLogProb \/ ComputeLogProb \/ CollectLogProb
             \/ CallValues \/ ComputeValues \/ CollectValues \/ ComputeAdvantage
    BY <2>1, DriverSelects
  <2>2. CASE Rank
    BY <2>2, RankSelects
  <2>3. CASE CallCritic \/ CallUpdate
    BY <2>3, CallSelects
  <2>4. CASE BackwardCritic \/ Backward
    BY <2>4, BackwardSelects
  <2>5. CASE CriticStep \/ OptimizerStep
    BY <2>5, OptimizersSelect
  <2>6. CASE CannotDivide \/ EstimatorFails \/ GatherFails
    BY <2>6, FailsSelect
  <2>7. CASE Finished \/ UNCHANGED vars
    <3>1. UNCHANGED vars
      BY <2>7 DEF Finished
    <3>2. cfg' = cfg /\ phase' = phase /\ batch' = batch /\ work' = work /\ steps' = steps
      BY <3>1 DEF vars
    <3> QED BY <3>2 DEF SelectInv, SelectRest
  <2> QED BY <2>1, <2>2, <2>3, <2>4, <2>5, <2>6, <2>7 DEF Next
<1> QED BY <1>1, <1>2 DEF SelectInv, AlignInv

\* For every configuration, whichever model a step trains, it trains exactly the tokens the
\* configured selection means, over one response or over the whole mini-batch, on every rank
\* that shares them (actor's and critic's update methods, and the driver's own mask).
THEOREM SelectedOfStepHolds == Spec => []SelectedOfStep
<1>1. Init => SelectInv
  BY SelectStarts
<1>2. SelectInv /\ [Next]_vars => SelectInv'
  BY SelectStep
<1>3. SelectInv => SelectedOfStep
  <2> SUFFICES ASSUME SelectInv PROVE SelectedOfStep
    OBVIOUS
  <2>1. CASE NoSteps(steps)
    <3>1. \A model \in DOMAIN steps : DOMAIN steps[model] = {}
      BY <2>1 DEF NoSteps
    <3> QED BY <3>1 DEF SelectedOfStep
  <2>2. CASE ~NoSteps(steps)
    BY <2>2, StepsChoose DEF SelectInv, SelectRest, StepsSelected
  <2> QED BY <2>1, <2>2
<1> QED BY <1>1, <1>2, <1>3, PTL DEF Spec
=============================================================================
