---------------------------- MODULE Tables_proofs ----------------------------
(***************************************************************************)
(* Lemmas about Tables: what ordering a set, iterating a step, flattening  *)
(* sequences and every operation on tables returns, for any tables.        *)
(***************************************************************************)
EXTENDS Tables, FiniteSetTheorems, FunctionTheorems, SequenceTheorems, TLAPS

-----------------------------------------------------------------------------
(* The elements of a finite set in order *)

\* A strict total order on S.
Orders(R, S) ==
  /\ \A a \in S : <<a, a>> \notin R
  /\ \A a, b \in S : a # b => <<a, b>> \in R \/ <<b, a>> \in R
  /\ \A a, b, c \in S : <<a, b>> \in R /\ <<b, c>> \in R => <<a, c>> \in R

\* InOrder lists every element of S once, in the order R.
LEMMA InOrderLists ==
  ASSUME NEW S, IsFiniteSet(S), NEW R, Orders(R, S)
  PROVE  /\ Cardinality(S) \in Nat
         /\ InOrder(S, R) \in [1 .. Cardinality(S) -> S]
         /\ \A m \in S : \E i \in 1 .. Cardinality(S) : InOrder(S, R)[i] = m
         /\ \A i, j \in 1 .. Cardinality(S) :
              i < j => <<InOrder(S, R)[i], InOrder(S, R)[j]>> \in R
<1> DEFINE Before(m) == {n \in S : <<n, m>> \in R}
           N == Cardinality(S)
           rank == [m \in S |-> Cardinality(Before(m))]
<1>0. N \in Nat
  BY FS_CardinalityType
<1>1. ASSUME NEW m \in S PROVE /\ IsFiniteSet(Before(m)) /\ rank[m] \in 0 .. N - 1
                               /\ rank[m] = Cardinality(Before(m))
  <2>1. /\ IsFiniteSet(Before(m)) /\ Cardinality(Before(m)) <= N
        /\ Cardinality(Before(m)) = N => S = Before(m)
    BY FS_Subset, Before(m) \in SUBSET S
  <2>2. m \notin Before(m)
    BY DEF Orders
  <2>3. Cardinality(Before(m)) \in Nat
    BY <2>1, FS_CardinalityType
  <2> QED
    BY <1>0, <2>1, <2>2, <2>3
<1>1a. /\ rank \in [S -> 0 .. N - 1]
       /\ \A m \in S : rank[m] \in Int /\ 0 <= rank[m] /\ rank[m] <= N - 1
  <2>1. \A m \in S : rank[m] \in 0 .. N - 1
    BY <1>1
  <2>2. rank = [m \in S |-> rank[m]]
    OBVIOUS
  <2> HIDE DEF rank, Before
  <2> QED
    BY <1>0, <2>1, <2>2
<1>2. ASSUME NEW a \in S, NEW b \in S, <<a, b>> \in R PROVE rank[a] < rank[b]
  <2>1. Before(a) \in SUBSET Before(b) /\ a \in Before(b) /\ a \notin Before(a)
    BY <1>2 DEF Orders
  <2>2. Cardinality(Before(a)) <= Cardinality(Before(b))
        /\ Cardinality(Before(a)) # Cardinality(Before(b))
    <3>1. Before(a) # Before(b)
      BY <2>1
    <3> HIDE DEF Before
    <3> QED
      BY <1>1, <2>1, <3>1, FS_Subset
  <2>3. rank[a] \in Int /\ rank[b] \in Int
    BY <1>1a
  <2>4. rank[a] = Cardinality(Before(a)) /\ rank[b] = Cardinality(Before(b))
    BY <1>1
  <2> HIDE DEF rank
  <2> QED
    BY <2>2, <2>3, <2>4
<1> HIDE DEF rank, Before
<1>3. ASSUME NEW a \in S, NEW b \in S, rank[a] = rank[b] PROVE a = b
  <2>1. rank[a] \in Int /\ rank[b] \in Int
    BY <1>1a
  <2>2. <<a, b>> \notin R /\ <<b, a>> \notin R
    BY <1>2, <1>3, <2>1
  <2> QED
    BY <2>2 DEF Orders
<1>4. rank \in Injection(S, 0 .. N - 1)
  <2>1. rank \in [S -> 0 .. N - 1]
    BY <1>1a
  <2> QED
    BY <1>3, <2>1, Fun_IsInj
<1>5. IsFiniteSet(0 .. N - 1) /\ Cardinality(0 .. N - 1) = N
  BY <1>0, FS_Interval
<1>6. rank \in Surjection(S, 0 .. N - 1)
  BY <1>4, <1>5, FS_Injection
<1>7. \A i \in 1 .. N : \E m \in S : rank[m] = i - 1
  BY <1>0, <1>6, \A i \in 1 .. N : i - 1 \in 0 .. N - 1 DEF Surjection
<1>8. \A i \in 1 .. N : InOrder(S, R)[i] \in S /\ rank[InOrder(S, R)[i]] = i - 1
  <2>1. ASSUME NEW i \in 1 .. N
        PROVE  \E m \in S : Cardinality({n \in S : <<n, m>> \in R}) = i - 1
    BY <1>1, <1>7 DEF Before
  <2>2. ASSUME NEW i \in 1 .. N
        PROVE  /\ InOrder(S, R)[i] \in S
               /\ Cardinality({n \in S : <<n, InOrder(S, R)[i]>> \in R}) = i - 1
    <3>1. InOrder(S, R)[i] = CHOOSE m \in S : Cardinality({n \in S : <<n, m>> \in R}) = i - 1
      BY DEF InOrder
    <3> QED
      BY <2>1, <3>1
  <2> QED
    BY <1>1, <2>2 DEF Before
<1>9. ASSUME NEW m \in S PROVE \E i \in 1 .. N : InOrder(S, R)[i] = m
  <2>1. rank[m] \in 0 .. N - 1 /\ rank[m] + 1 \in 1 .. N /\ (rank[m] + 1) - 1 = rank[m]
    BY <1>0, <1>1a
  <2>2. InOrder(S, R)[rank[m] + 1] = m
    BY <1>3, <1>8, <2>1
  <2> QED
    BY <2>1, <2>2
<1>10. InOrder(S, R) \in [1 .. N -> S]
  BY <1>8 DEF InOrder
<1>11. ASSUME NEW i \in 1 .. N, NEW j \in 1 .. N, i < j
       PROVE  <<InOrder(S, R)[i], InOrder(S, R)[j]>> \in R
  <2> DEFINE a == InOrder(S, R)[i]
             b == InOrder(S, R)[j]
  <2>1. a \in S /\ b \in S /\ rank[a] = i - 1 /\ rank[b] = j - 1
    BY <1>8
  <2> HIDE DEF a, b
  <2>2. rank[a] < rank[b]
    BY <1>0, <1>11, <2>1
  <2>3. a # b /\ <<b, a>> \notin R
    <3>1. rank[a] \in Int /\ rank[b] \in Int
      BY <1>1, <2>1
    <3> QED
      BY <1>2, <2>1, <2>2, <3>1
  <2>4. <<a, b>> \in R
    BY <2>1, <2>3 DEF Orders
  <2> QED
    BY <2>4 DEF a, b
<1> QED
  BY <1>0, <1>9, <1>10, <1>11

\* The numbers of a finite set in increasing order.
LEMMA SortedLists ==
  ASSUME NEW S \in SUBSET Int, IsFiniteSet(S)
  PROVE  /\ Cardinality(S) \in Nat
         /\ Sorted(S) \in [1 .. Cardinality(S) -> S]
         /\ \A m \in S : \E i \in 1 .. Cardinality(S) : Sorted(S)[i] = m
         /\ \A i, j \in 1 .. Cardinality(S) : i < j => Sorted(S)[i] < Sorted(S)[j]
<1> DEFINE R == {p \in S \X S : p[1] < p[2]}
<1>1. \A a, b \in S : <<a, b>> \in R <=> a < b
  OBVIOUS
<1> HIDE DEF R
<1>2. Orders(R, S)
  BY <1>1 DEF Orders
<1>3. Sorted(S) = InOrder(S, R)
  BY DEF Sorted, R
<1>4. /\ Cardinality(S) \in Nat
      /\ InOrder(S, R) \in [1 .. Cardinality(S) -> S]
      /\ \A m \in S : \E i \in 1 .. Cardinality(S) : InOrder(S, R)[i] = m
      /\ \A i, j \in 1 .. Cardinality(S) :
           i < j => <<InOrder(S, R)[i], InOrder(S, R)[j]>> \in R
  BY <1>2, InOrderLists
<1>5. \A i, j \in 1 .. Cardinality(S) : i < j => InOrder(S, R)[i] < InOrder(S, R)[j]
  BY <1>1, <1>4
<1> QED
  BY <1>3, <1>4, <1>5

\* The least and the greatest number of a finite set.
LEMMA Extremes ==
  ASSUME NEW S \in SUBSET Int, IsFiniteSet(S), S # {}
  PROVE  /\ Min(S) \in S /\ \A n \in S : Min(S) <= n
         /\ Max(S) \in S /\ \A n \in S : n <= Max(S)
<1> DEFINE N == Cardinality(S)
           order == Sorted(S)
<1>1. /\ N \in Nat /\ order \in [1 .. N -> S]
      /\ \A m \in S : \E i \in 1 .. N : order[i] = m
      /\ \A i, j \in 1 .. N : i < j => order[i] < order[j]
  BY SortedLists
<1> HIDE DEF N, order
<1>2. 1 \in 1 .. N /\ N \in 1 .. N
  <2>1. PICK i \in 1 .. N : TRUE
    BY <1>1
  <2> QED
    BY <1>1, <2>1
<1>3. \A i \in 1 .. N : (i = 1 \/ 1 < i) /\ (i = N \/ i < N)
  BY <1>1
<1>4. ASSUME NEW i \in 1 .. N PROVE order[1] <= order[i] /\ order[i] <= order[N]
  <2>1. order[1] \in Int /\ order[i] \in Int /\ order[N] \in Int
    BY <1>1, <1>2
  <2>2. order[1] = order[i] \/ order[1] < order[i]
    BY <1>1, <1>2, <1>3
  <2>3. order[i] = order[N] \/ order[i] < order[N]
    BY <1>1, <1>2, <1>3
  <2> QED
    BY <2>1, <2>2, <2>3
<1>5. order[1] \in S /\ \A m \in S : order[1] <= m
  BY <1>1, <1>2, <1>4
<1>6. order[N] \in S /\ \A m \in S : order[N] >= m
  BY <1>1, <1>2, <1>4
<1>7. Min(S) \in S /\ \A n \in S : Min(S) =< n
  BY <1>5 DEF Min
<1>8. Max(S) \in S /\ \A n \in S : Max(S) >= n
  BY <1>6 DEF Max
<1> QED
  BY <1>7, <1>8

-----------------------------------------------------------------------------
(* Counting up *)

\* Induction over an interval, for a set of numbers.
LEMMA CountingUp ==
  ASSUME NEW N \in Nat, NEW Good,
         0 \in Good, \A n \in 1 .. N : n - 1 \in Good => n \in Good
  PROVE  \A n \in 0 .. N : n \in Good
<1> DEFINE Bad == {n \in 0 .. N : n \notin Good}
<1> SUFFICES ASSUME Bad # {} PROVE FALSE
  OBVIOUS
<1>1. IsFiniteSet(Bad) /\ Bad \in SUBSET Int
  <2>1. IsFiniteSet(0 .. N)
    BY FS_Interval
  <2>2. Bad \in SUBSET (0 .. N)
    OBVIOUS
  <2> QED
    BY <2>1, <2>2, FS_Subset
<1>2. Min(Bad) \in Bad /\ \A n \in Bad : Min(Bad) <= n
  BY <1>1, Extremes
<1> DEFINE n == Min(Bad)
<1>3. n \in 0 .. N /\ n \notin Good /\ n # 0
  BY <1>2
<1>4. n - 1 \notin Bad
  <2> HIDE DEF Bad, n
  <2> QED
    BY <1>2, <1>3 DEF n
<1> HIDE DEF n
<1> QED
  BY <1>3, <1>4

\* f[n] is what n steps make of base.
Repeats(f, N, D, base, step) ==
  /\ f \in [0 .. N -> D]
  /\ f[0] = base
  /\ \A n \in 1 .. N : f[n] = step[<<f[n - 1], n>>]

\* A step that stays within D can be repeated.
LEMMA Repeating ==
  ASSUME NEW N \in Nat, NEW D, NEW base \in D, NEW step \in [D \X (1 .. N) -> D]
  PROVE  \E f : Repeats(f, N, D, base, step)
<1> DEFINE Runs(f, k) ==
             /\ f \in [0 .. k -> D]
             /\ f[0] = base
             /\ \A n \in 1 .. k : f[n] = step[<<f[n - 1], n>>]
           Good == {k \in 0 .. N : \E f : Runs(f, k)}
<1>1. 0 \in Good
  <2>1. Runs([n \in 0 .. 0 |-> base], 0)
    OBVIOUS
  <2> HIDE DEF Runs
  <2> QED
    BY <2>1
<1>2. ASSUME NEW k \in 1 .. N, k - 1 \in Good PROVE k \in Good
  <2>1. PICK f : Runs(f, k - 1)
    BY <1>2
  <2> DEFINE g == [n \in 0 .. k |-> IF n = k THEN step[<<f[k - 1], k>>] ELSE f[n]]
  <2>2. f[k - 1] \in D /\ step[<<f[k - 1], k>>] \in D
    BY <2>1
  <2>3. g \in [0 .. k -> D]
    BY <2>1, <2>2
  <2>4. g[0] = base
    BY <2>1
  <2>5. ASSUME NEW n \in 1 .. k PROVE g[n] = step[<<g[n - 1], n>>]
    <3>1. n - 1 \in 0 .. k /\ n - 1 # k /\ g[n - 1] = f[n - 1]
      OBVIOUS
    <3>2. CASE n = k
      BY <3>1, <3>2
    <3>3. CASE n # k
      BY <2>1, <3>1, <3>3
    <3> QED
      BY <3>2, <3>3
  <2>6. Runs(g, k)
    BY <2>3, <2>4, <2>5
  <2> HIDE DEF Runs
  <2> QED
    BY <2>6
<1>3. N \in Good
  <2>1. \A k \in 1 .. N : k - 1 \in Good => k \in Good
    BY <1>2
  <2> HIDE DEF Good
  <2> QED
    BY <1>1, <2>1, CountingUp
<1>4. PICK f : Runs(f, N)
  BY <1>3
<1> QED
  BY <1>4 DEF Repeats

\* A flattened sequence has the elements of its parts.
LEMMA Flattened ==
  ASSUME NEW S, NEW seqs \in Seq(Seq(S))
  PROVE  /\ FlattenSeq(seqs) \in Seq(S)
         /\ Range(FlattenSeq(seqs)) = UNION {Range(seqs[i]) : i \in 1 .. Len(seqs)}
<1>0. /\ Len(seqs) \in Nat
      /\ \A i \in 1 .. Len(seqs) : seqs[i] \in Seq(S)
  BY LenProperties, ElementOfSeq
<1>1. CASE Len(seqs) = 0
  <2>1. seqs = <<>>
    BY <1>1, EmptySeq
  <2>2. FlattenSeq(seqs) = <<>>
    BY <1>1, <2>1 DEF FlattenSeq
  <2> QED
    BY <1>1, <2>2 DEF Range
<1>2. CASE Len(seqs) # 0
  <2>0. PICK N \in Nat : Len(seqs) = N + 1
    <3>1. Len(seqs) - 1 \in Nat /\ Len(seqs) = (Len(seqs) - 1) + 1
      BY <1>0, <1>2
    <3> QED
      BY <3>1
  <2> DEFINE step == [p \in Seq(S) \X (1 .. N) |-> p[1] \o seqs[p[2] + 1]]
             Flat(g) == g = [i \in 1 .. Len(seqs) |->
                               IF i = 1 THEN seqs[i] ELSE g[i - 1] \o seqs[i]]
             flat == CHOOSE g : Flat(g)
  <2>1. ASSUME NEW acc \in Seq(S), NEW n \in 1 .. N
        PROVE  step[<<acc, n>>] = acc \o seqs[n + 1] /\ acc \o seqs[n + 1] \in Seq(S)
    <3>1. seqs[n + 1] \in Seq(S)
      BY <1>0, <2>0
    <3> QED
      BY <3>1, ConcatProperties
  <2>2. step \in [Seq(S) \X (1 .. N) -> Seq(S)]
    BY <2>1
  <2>3. seqs[1] \in Seq(S)
    BY <1>0, <2>0
  <2> HIDE DEF step
  <2>4. PICK f : Repeats(f, N, Seq(S), seqs[1], step)
    BY <2>2, <2>3, Repeating
  <2>5. f[0] = seqs[1] /\ \A n \in 1 .. N : f[n] = f[n - 1] \o seqs[n + 1]
    <3>1. ASSUME NEW n \in 1 .. N PROVE f[n - 1] \in Seq(S)
      BY <2>4, n - 1 \in 0 .. N DEF Repeats
    <3> QED
      BY <2>1, <2>4, <3>1 DEF Repeats
  <2>6. Flat([i \in 1 .. Len(seqs) |-> f[i - 1]])
    <3> DEFINE h == [i \in 1 .. Len(seqs) |-> f[i - 1]]
    <3>1. ASSUME NEW i \in 1 .. Len(seqs)
          PROVE  h[i] = IF i = 1 THEN seqs[i] ELSE h[i - 1] \o seqs[i]
      <4>1. CASE i = 1
        BY <2>5, <4>1
      <4>2. CASE i # 1
        <5>1. i - 1 \in 1 .. N /\ i - 1 \in 1 .. Len(seqs) /\ (i - 1) + 1 = i
          BY <2>0, <4>2
        <5> QED
          BY <2>5, <4>2, <5>1
      <4> QED
        BY <4>1, <4>2
    <3> QED
      BY <3>1
  <2>7. Flat(flat)
    <3> HIDE DEF Flat
    <3> QED
      BY <2>6
  <2>8. FlattenSeq(seqs) = flat[Len(seqs)]
    BY <1>2 DEF FlattenSeq
  <2> DEFINE Parts(k) == UNION {Range(seqs[i]) : i \in 1 .. k}
             Good == {k \in 0 .. N : /\ flat[k + 1] \in Seq(S)
                                     /\ Range(flat[k + 1]) = Parts(k + 1)}
  <2>9. /\ flat[1] = seqs[1]
        /\ \A k \in 1 .. N : flat[k + 1] = flat[k] \o seqs[k + 1]
    <3> HIDE DEF flat
    <3>1. /\ 1 \in 1 .. Len(seqs)
          /\ \A k \in 1 .. N : k + 1 \in 1 .. Len(seqs) /\ k + 1 # 1 /\ (k + 1) - 1 = k
      BY <2>0
    <3>2. \A i \in 1 .. Len(seqs) : flat[i] = IF i = 1 THEN seqs[i] ELSE flat[i - 1] \o seqs[i]
      BY <2>7
    <3> QED
      BY <3>1, <3>2
  <2> HIDE DEF flat, Flat
  <2>10. 0 \in Good
    BY <2>0, <2>3, <2>9
  <2>11. ASSUME NEW k \in 1 .. N, k - 1 \in Good PROVE k \in Good
    <3>1. flat[k] \in Seq(S) /\ Range(flat[k]) = Parts(k)
      <4>1. (k - 1) + 1 = k
        OBVIOUS
      <4> HIDE DEF Parts
      <4> QED
        BY <2>11, <4>1
    <3>2. seqs[k + 1] \in Seq(S)
      BY <1>0, <2>0
    <3>3. Parts(k + 1) = Parts(k) \cup Range(seqs[k + 1])
      <4>1. \A i : i \in 1 .. k + 1 <=> i \in 1 .. k \/ i = k + 1
        OBVIOUS
      <4> QED
        BY <4>1
    <3> HIDE DEF Parts
    <3>4. flat[k + 1] \in Seq(S) /\ Range(flat[k + 1]) = Range(flat[k]) \cup Range(seqs[k + 1])
      <4>1. flat[k + 1] = flat[k] \o seqs[k + 1]
        BY <2>9
      <4> DEFINE front == flat[k]
                 last == seqs[k + 1]
      <4> HIDE DEF front, last
      <4>2. front \in Seq(S) /\ last \in Seq(S)
        BY <3>1, <3>2 DEF front, last
      <4>3. front \o last \in Seq(S) /\ Range(front \o last) = Range(front) \cup Range(last)
        BY <4>2, ConcatProperties, RangeConcatenation
      <4> QED
        BY <4>1, <4>3 DEF front, last
    <3> QED
      <4>1. k \in 0 .. N
        OBVIOUS
      <4>2. flat[k + 1] \in Seq(S) /\ Range(flat[k + 1]) = Parts(k + 1)
        BY <3>1, <3>3, <3>4
      <4> QED
        BY <4>1, <4>2
  <2>12. \A k \in 0 .. N : k \in Good
    <3>1. \A k \in 1 .. N : k - 1 \in Good => k \in Good
      BY <2>11
    <3> HIDE DEF Good
    <3> QED
      BY <2>0, <2>10, <3>1, CountingUp
  <2>13. N \in 0 .. N
    BY <2>0
  <2> QED
    BY <2>0, <2>8, <2>12, <2>13
<1> QED
  BY <1>1, <1>2

-----------------------------------------------------------------------------
(* Tables *)

\* A table with these columns whose rows have identities in ids.
From(t, columns, ids) ==
  /\ IsTable(t) /\ t.columns = columns
  /\ \A i \in DOMAIN t.rows : t.rows[i].id \in ids

\* A table's rows, one by one.
LEMMA TableShape ==
  ASSUME NEW t, IsTable(t)
  PROVE  /\ Len(t.rows) \in Nat
         /\ DOMAIN t.rows = 1 .. Len(t.rows)
         /\ IsFiniteSet(DOMAIN t.rows) /\ Cardinality(DOMAIN t.rows) = Len(t.rows)
         /\ DOMAIN t.rows \in SUBSET Nat
         /\ t.rows \in [DOMAIN t.rows -> Row(t.columns)]
         /\ \A i \in DOMAIN t.rows :
              /\ t.rows[i] \in Row(t.columns)
              /\ t.rows[i].id \in Nat /\ t.rows[i].cells \in [t.columns -> Nat]
              /\ \A c \in t.columns : t.rows[i].cells[c] \in Nat
<1>1. /\ Len(t.rows) \in Nat /\ DOMAIN t.rows = 1 .. Len(t.rows)
      /\ t.rows \in [1 .. Len(t.rows) -> Row(t.columns)]
  BY LenProperties DEF IsTable
<1>2. IsFiniteSet(1 .. Len(t.rows)) /\ Cardinality(1 .. Len(t.rows)) = Len(t.rows)
  <2>1. PICK n \in Nat : n = Len(t.rows)
    BY <1>1
  <2>2. IsFiniteSet(1 .. n) /\ Cardinality(1 .. n) = n
    BY FS_Interval
  <2> QED
    BY <2>1, <2>2
<1>3. \A i \in DOMAIN t.rows : t.rows[i] \in Row(t.columns)
  BY <1>1
<1>4. \A i \in DOMAIN t.rows :
        /\ t.rows[i].id \in Nat /\ t.rows[i].cells \in [t.columns -> Nat]
        /\ \A c \in t.columns : t.rows[i].cells[c] \in Nat
  BY <1>3 DEF Row
<1>5. DOMAIN t.rows \in SUBSET Nat
  BY <1>1
<1> QED
  BY <1>1, <1>2, <1>3, <1>4, <1>5

\* Its text columns are columns.
LEMMA TextColumns ==
  ASSUME NEW t, IsTable(t)
  PROVE  t.texts \in SUBSET t.columns
BY DEF IsTable

\* Rows of the same columns make a table.
LEMMA TableMade ==
  ASSUME NEW columns, NEW texts \in SUBSET columns,
         NEW n \in Nat, NEW rows \in [1 .. n -> Row(columns)]
  PROVE  /\ IsTable([columns |-> columns, texts |-> texts, rows |-> rows])
         /\ rows \in Seq(Row(columns)) /\ Len(rows) = n /\ DOMAIN rows = 1 .. n
<1>1. rows \in Seq(Row(columns)) /\ Len(rows) = n
  BY SeqDef, LenProperties
<1> QED
  BY <1>1 DEF IsTable

\* The identities of a table are a finite set of numbers.
LEMMA IdsFinite ==
  ASSUME NEW t, IsTable(t)
  PROVE  /\ Ids(t) \in SUBSET Nat /\ IsFiniteSet(Ids(t))
         /\ \A i \in DOMAIN t.rows : t.rows[i].id \in Ids(t)
         /\ From(t, t.columns, Ids(t))
<1>1. \A i \in DOMAIN t.rows : t.rows[i].id \in Nat
  BY TableShape
<1>2. Ids(t) \in SUBSET Nat /\ \A i \in DOMAIN t.rows : t.rows[i].id \in Ids(t)
  BY <1>1 DEF Ids
<1>3. [i \in DOMAIN t.rows |-> t.rows[i].id] \in Surjection(DOMAIN t.rows, Ids(t))
  BY DEF Ids, Surjection
<1>4. IsFiniteSet(Ids(t))
  BY <1>3, TableShape, FS_Surjection
<1> QED
  BY <1>2, <1>4 DEF From

\* t with other columns and other cells, row by row.
Refilled(t, columns, cells) ==
  [columns |-> columns,
   texts |-> t.texts \cap columns,
   rows |-> [i \in DOMAIN t.rows |-> [t.rows[i] EXCEPT !.cells = cells[i]]]]

Fills(cells, t, columns) == cells \in [DOMAIN t.rows -> [columns -> Nat]]

\* Giving the rows other cells keeps them and their identities.
LEMMA CellsReplaced ==
  ASSUME NEW t, IsTable(t), NEW columns, NEW cells, Fills(cells, t, columns)
  PROVE  /\ From(Refilled(t, columns, cells), columns, Ids(t))
         /\ Len(Refilled(t, columns, cells).rows) = Len(t.rows)
         /\ DOMAIN Refilled(t, columns, cells).rows = DOMAIN t.rows
         /\ \A i \in DOMAIN t.rows :
              Refilled(t, columns, cells).rows[i] = [t.rows[i] EXCEPT !.cells = cells[i]]
<1> DEFINE rows == [i \in DOMAIN t.rows |-> [t.rows[i] EXCEPT !.cells = cells[i]]]
<1>1. ASSUME NEW i \in DOMAIN t.rows
      PROVE  rows[i] \in Row(columns) /\ rows[i].id = t.rows[i].id
  BY TableShape DEF Row, Fills
<1>2. rows \in [1 .. Len(t.rows) -> Row(columns)] /\ Len(t.rows) \in Nat
  BY <1>1, TableShape
<1>3. DOMAIN rows = DOMAIN t.rows
  OBVIOUS
<1> HIDE DEF rows
<1>4. IsTable([columns |-> columns, texts |-> t.texts \cap columns, rows |-> rows])
      /\ Len(rows) = Len(t.rows)
  BY <1>2, TableMade
<1>5. \A i \in DOMAIN rows : rows[i].id \in Ids(t)
  BY <1>1, <1>3 DEF Ids
<1> QED
  BY <1>3, <1>4, <1>5 DEF From, rows, Refilled

\* A column's type is not looked at here.
LEMMA RetypedFrom ==
  ASSUME NEW t, NEW columns, NEW ids, From(t, columns, ids), NEW S, NEW new
  PROVE  /\ From(Retyped(t, S, new), columns, ids)
         /\ Retyped(t, S, new).rows = t.rows
<1>1. IsTable(t) /\ t.columns = columns
  BY DEF From
<1> DEFINE texts == ((t.texts \ S) \cup new) \cap t.columns
<1>2. Retyped(t, S, new) = [t EXCEPT !.texts = texts]
  BY DEF Retyped
<1> HIDE DEF texts
<1>3. [t EXCEPT !.texts = texts] = [columns |-> t.columns, texts |-> texts, rows |-> t.rows]
  BY <1>1 DEF IsTable
<1>4. /\ Retyped(t, S, new).columns = columns /\ Retyped(t, S, new).texts = texts
      /\ Retyped(t, S, new).rows = t.rows
  BY <1>1, <1>2, <1>3
<1>5. texts \subseteq columns
  BY <1>1 DEF texts
<1>6. IsTable(Retyped(t, S, new))
  BY <1>1, <1>2, <1>3, <1>4, <1>5 DEF IsTable
<1> QED
  BY <1>4, <1>6 DEF From

\* Casts give values for values.
LEMMA CastValue ==
  ASSUME NEW v \in Nat
  PROVE  AsText(v) \in Nat /\ AsNumber(v) \in Nat
BY TypesAssumption DEF AsText, AsNumber, IsText, Null

\* A text is cast to itself.
LEMMA CastTwice ==
  ASSUME NEW v
  PROVE  AsText(AsText(v)) = AsText(v)
BY TypesAssumption DEF AsText, IsText

\* Some rows, in the order of their positions.
LEMMA RowsChosen ==
  ASSUME NEW t, IsTable(t), NEW S \in SUBSET DOMAIN t.rows
  PROVE  From(AtPositions(t, S), t.columns, Ids(t))
<1> DEFINE order == Sorted(S)
           rows == [i \in DOMAIN order |-> t.rows[order[i]]]
<1>1. S \in SUBSET Int /\ IsFiniteSet(S)
  BY TableShape, FS_Subset
<1>2. Cardinality(S) \in Nat /\ order \in [1 .. Cardinality(S) -> S]
  BY <1>1, SortedLists
<1>3. AtPositions(t, S) = [columns |-> t.columns, texts |-> t.texts, rows |-> rows]
  BY DEF AtPositions, IsTable
<1> HIDE DEF order
<1>4. ASSUME NEW i \in DOMAIN order
      PROVE  rows[i] \in Row(t.columns) /\ rows[i].id \in Ids(t)
  BY <1>2, TableShape DEF Ids
<1>5. rows \in [1 .. Cardinality(S) -> Row(t.columns)] /\ DOMAIN rows = DOMAIN order
  BY <1>2, <1>4
<1> HIDE DEF rows
<1>6. IsTable([columns |-> t.columns, texts |-> t.texts, rows |-> rows])
  BY <1>2, <1>5, TextColumns, TableMade
<1>7. /\ IsTable(AtPositions(t, S)) /\ AtPositions(t, S).columns = t.columns
      /\ AtPositions(t, S).rows = rows
  BY <1>3, <1>6
<1>8. \A i \in DOMAIN rows : rows[i].id \in Ids(t)
  BY <1>4, <1>5
<1> QED
  BY <1>7, <1>8 DEF From

-----------------------------------------------------------------------------
(* Operations on cells *)

\* A mapping gives values for values.
LEMMA MappedValue ==
  ASSUME NEW v \in Nat, NEW mapping, IsMapping(mapping), NEW policy
  PROVE  Mapped(v, mapping, policy) \in Nat
BY CastValue DEF Mapped, IsMapping, Null

\* A cast to text keeps columns and rows, and the cells of other columns.
LEMMA AsTextsFrom ==
  ASSUME NEW t, IsTable(t), NEW columns
  PROVE  /\ From(AsTexts(t, columns), t.columns, Ids(t))
         /\ AsTexts(t, columns).texts = (t.texts \cup columns) \cap t.columns
         /\ DOMAIN AsTexts(t, columns).rows = DOMAIN t.rows
         /\ Len(AsTexts(t, columns).rows) = Len(t.rows)
         /\ \A i \in DOMAIN t.rows :
              /\ AsTexts(t, columns).rows[i].id = t.rows[i].id
              /\ \A c \in t.columns :
                   AsTexts(t, columns).rows[i].cells[c] =
                     IF c \in columns THEN AsText(t.rows[i].cells[c]) ELSE t.rows[i].cells[c]
<1> DEFINE cells ==
             [i \in DOMAIN t.rows |->
                [c \in t.columns |->
                 IF c \in columns THEN AsText(t.rows[i].cells[c]) ELSE t.rows[i].cells[c]]]
           cast == Refilled(t, t.columns, cells)
<1>1. Fills(cells, t, t.columns)
  BY TableShape, CastValue DEF Fills
<1>2. AsTexts(t, columns) = Retyped(cast, columns, columns)
  BY DEF AsTexts, WithCells, Refilled
<1>3. \A i \in DOMAIN t.rows, c \in t.columns :
        cells[i][c] = IF c \in columns THEN AsText(t.rows[i].cells[c]) ELSE t.rows[i].cells[c]
  OBVIOUS
<1> HIDE DEF cells
<1>4. /\ From(cast, t.columns, Ids(t)) /\ Len(cast.rows) = Len(t.rows)
      /\ DOMAIN cast.rows = DOMAIN t.rows
      /\ \A i \in DOMAIN t.rows : cast.rows[i] = [t.rows[i] EXCEPT !.cells = cells[i]]
  <2>1. PICK C : C = t.columns
    OBVIOUS
  <2>2. Fills(cells, t, C)
    BY <1>1, <2>1
  <2>3. PICK new : new = Refilled(t, C, cells)
    OBVIOUS
  <2>4. /\ From(new, C, Ids(t)) /\ Len(new.rows) = Len(t.rows)
        /\ DOMAIN new.rows = DOMAIN t.rows
        /\ \A i \in DOMAIN t.rows : new.rows[i] = [t.rows[i] EXCEPT !.cells = cells[i]]
    BY ONLY IsTable(t), <2>2, <2>3, CellsReplaced
  <2> QED
    BY <2>1, <2>3, <2>4
<1>5. cast.texts = t.texts \cap t.columns
  BY DEF Refilled
<1>6. ASSUME NEW i \in DOMAIN t.rows
      PROVE  cast.rows[i].id = t.rows[i].id /\ cast.rows[i].cells = cells[i]
  <2>1. t.rows[i] \in Row(t.columns) /\ cast.rows[i] = [t.rows[i] EXCEPT !.cells = cells[i]]
    BY <1>4, TableShape
  <2> HIDE DEF cast
  <2> QED
    BY <2>1 DEF Row
<1> HIDE DEF cast
<1>7. /\ From(Retyped(cast, columns, columns), t.columns, Ids(t))
      /\ Retyped(cast, columns, columns).rows = cast.rows
  BY <1>4, RetypedFrom
<1>8. Retyped(cast, columns, columns).texts = (cast.texts \cup columns) \cap t.columns
  <2>1. cast = [columns |-> t.columns, texts |-> cast.texts, rows |-> cast.rows]
    BY <1>4 DEF From, IsTable
  <2> QED
    BY <2>1 DEF Retyped
<1> QED
  BY <1>2, <1>3, <1>4, <1>5, <1>6, <1>7, <1>8

\* text.clean keeps columns and rows.
LEMMA CleanTextFrom ==
  ASSUME NEW t, IsTable(t), NEW columns, NEW rewrite, IsMapping(rewrite)
  PROVE  From(CleanText(t, columns, rewrite), t.columns, Ids(t))
<1> DEFINE cells ==
             [i \in DOMAIN t.rows |->
                [c \in t.columns |->
                 IF c \in columns /\ t.rows[i].cells[c] # Null
                   THEN Mapped(t.rows[i].cells[c], rewrite, "leave") ELSE t.rows[i].cells[c]]]
<1>1. Fills(cells, t, t.columns)
  BY TableShape, MappedValue DEF Null, Fills
<1>2. CleanText(t, columns, rewrite) =
        Retyped(Refilled(t, t.columns, cells), columns, columns)
  BY DEF CleanText, WithCells, Refilled
<1> HIDE DEF cells
<1> QED
  BY <1>1, <1>2, CellsReplaced, RetypedFrom

\* values.standardize keeps columns and rows.
LEMMA StandardizeValuesFrom ==
  ASSUME NEW t, IsTable(t), NEW column, NEW mapping, IsMapping(mapping), NEW policy
  PROVE  From(StandardizeValues(t, column, mapping, policy), t.columns, Ids(t))
<1> DEFINE u == AsTexts(t, {column})
           cells ==
             [i \in DOMAIN u.rows |->
                [c \in u.columns |->
                 IF c = column /\ ~IsBlank(u.rows[i].cells[c])
                   THEN Mapped(u.rows[i].cells[c], mapping, policy) ELSE u.rows[i].cells[c]]]
<1>1. StandardizeValues(t, column, mapping, policy) = WithCells(u, t.columns,
        LAMBDA r, c : IF c = column /\ ~IsBlank(r.cells[c])
                        THEN Mapped(r.cells[c], mapping, policy) ELSE r.cells[c])
  BY DEF StandardizeValues
<1>2. From(u, t.columns, Ids(t))
  BY AsTextsFrom
<1> HIDE DEF u
<1>3. IsTable(u) /\ u.columns = t.columns /\ Ids(u) \subseteq Ids(t)
  BY <1>2 DEF From, Ids
<1>4. Fills(cells, u, u.columns)
  BY <1>3, TableShape, MappedValue DEF Fills
<1>5. StandardizeValues(t, column, mapping, policy) = Refilled(u, u.columns, cells)
  BY <1>1, <1>3 DEF WithCells, Refilled
<1> HIDE DEF cells
<1>6. From(Refilled(u, u.columns, cells), u.columns, Ids(u))
  BY <1>3, <1>4, CellsReplaced
<1> QED
  BY <1>3, <1>5, <1>6 DEF From

\* So does its numeric mode.
LEMMA ConvertNumericFrom ==
  ASSUME NEW t, IsTable(t), NEW column
  PROVE  From(ConvertNumeric(t, column), t.columns, Ids(t))
<1> DEFINE cells ==
             [i \in DOMAIN t.rows |->
                [c \in t.columns |->
                 IF c = column THEN AsNumber(t.rows[i].cells[c]) ELSE t.rows[i].cells[c]]]
<1>1. Fills(cells, t, t.columns)
  BY TableShape, CastValue DEF Fills
<1>2. ConvertNumeric(t, column) = Retyped(Refilled(t, t.columns, cells), {column}, {})
  BY DEF ConvertNumeric, WithCells, Refilled
<1> HIDE DEF cells
<1> QED
  BY <1>1, <1>2, CellsReplaced, RetypedFrom

\* A new column keeps the rows.
LEMMA AddColumnFrom ==
  ASSUME NEW t, IsTable(t), NEW column, NEW value \in Nat
  PROVE  From(AddColumn(t, column, value), t.columns \cup {column}, Ids(t))
<1> DEFINE cells ==
             [i \in DOMAIN t.rows |->
                [c \in t.columns \cup {column} |->
                 IF c = column THEN value ELSE t.rows[i].cells[c]]]
<1>1. Fills(cells, t, t.columns \cup {column})
  BY TableShape DEF Fills
<1>2. AddColumn(t, column, value) =
        Retyped(Refilled(t, t.columns \cup {column}, cells), {column},
                {c \in {column} : IsText(value)})
  BY DEF AddColumn, WithCells, Refilled
<1> HIDE DEF cells
<1> QED
  BY <1>1, <1>2, CellsReplaced, RetypedFrom

\* So does removing columns.
LEMMA RemoveColumnsFrom ==
  ASSUME NEW t, IsTable(t), NEW columns
  PROVE  From(RemoveColumns(t, columns), t.columns \ columns, Ids(t))
<1> DEFINE cells ==
             [i \in DOMAIN t.rows |->
                [c \in t.columns \ columns |->
                 t.rows[i].cells[c]]]
<1>1. Fills(cells, t, t.columns \ columns)
  BY TableShape DEF Fills
<1>2. RemoveColumns(t, columns) = Refilled(t, t.columns \ columns, cells)
  BY DEF RemoveColumns, WithCells, Refilled
<1> HIDE DEF cells
<1> QED
  BY <1>1, <1>2, CellsReplaced

\* And a looked-up column.
LEMMA LookupColumnFrom ==
  ASSUME NEW t, IsTable(t), NEW source \in t.columns, NEW output,
         NEW mapping, IsMapping(mapping), NEW policy
  PROVE  From(LookupColumn(t, source, output, mapping, policy), t.columns \cup {output}, Ids(t))
<1> DEFINE Found(r) == Mapped(r.cells[source], mapping, policy)
           text == \E r \in Range(t.rows) : IsText(Found(r))
           cells ==
             [i \in DOMAIN t.rows |->
                [c \in t.columns \cup {output} |->
                 IF c # output THEN t.rows[i].cells[c]
                 ELSE IF text THEN AsText(Found(t.rows[i])) ELSE Found(t.rows[i])]]
<1>1. \A i \in DOMAIN t.rows : Found(t.rows[i]) \in Nat /\ AsText(Found(t.rows[i])) \in Nat
  BY TableShape, MappedValue, CastValue
<1>2. LookupColumn(t, source, output, mapping, policy) =
        Retyped(Refilled(t, t.columns \cup {output}, cells), {output}, {c \in {output} : text})
  BY DEF LookupColumn, WithCells, Refilled
<1> HIDE DEF text, Found
<1>3. Fills(cells, t, t.columns \cup {output})
  BY <1>1, TableShape DEF Fills
<1> HIDE DEF cells
<1> QED
  BY <1>2, <1>3, CellsReplaced, RetypedFrom

\* And a renamed one, the new name may be that of another column.
LEMMA RenameColumnFrom ==
  ASSUME NEW t, IsTable(t), NEW from \in t.columns, NEW to
  PROVE  \E columns \in SUBSET (t.columns \cup {to}) :
           From(RenameColumn(t, from, to), columns, Ids(t))
<1> DEFINE Other(c) == CASE c = to -> from [] c = from -> to [] OTHER -> c
           columns == {Other(c) : c \in t.columns}
           cells == [i \in DOMAIN t.rows |-> [c \in columns |-> t.rows[i].cells[Other(c)]]]
<1>1. \A c \in t.columns : Other(Other(c)) = c
  OBVIOUS
<1>2. \A c \in columns : Other(c) \in t.columns
  BY <1>1
<1>3. columns \in SUBSET (t.columns \cup {to})
  OBVIOUS
<1> DEFINE renamed == Refilled(t, columns, cells)
           texts == {Other(c) : c \in t.texts}
<1>4. RenameColumn(t, from, to) = [renamed EXCEPT !.texts = texts]
  BY DEF RenameColumn, WithCells, Refilled
<1>5. texts \subseteq columns
  BY TextColumns
<1> HIDE DEF columns, Other, texts
<1>6. Fills(cells, t, columns)
  BY <1>2, TableShape DEF Fills
<1> HIDE DEF cells
<1>7. From(renamed, columns, Ids(t))
  BY <1>6, CellsReplaced
<1> HIDE DEF renamed
<1>8. renamed = [columns |-> columns, texts |-> renamed.texts, rows |-> renamed.rows]
  BY <1>7 DEF From, IsTable
<1>9. [renamed EXCEPT !.texts = texts] =
        [columns |-> columns, texts |-> texts, rows |-> renamed.rows]
  BY <1>8
<1>10. From([columns |-> columns, texts |-> texts, rows |-> renamed.rows], columns, Ids(t))
  BY <1>5, <1>7 DEF From, IsTable
<1> QED
  BY <1>3, <1>4, <1>9, <1>10

\* Selecting columns drops the identities with the unlisted columns.
LEMMA SelectColumnsFrom ==
  ASSUME NEW t, IsTable(t), NEW columns \in SUBSET t.columns
  PROVE  From(SelectColumns(t, columns), columns, {0})
<1> DEFINE cells == [i \in DOMAIN t.rows |-> [c \in columns |-> t.rows[i].cells[c]]]
           raw == Refilled(t, columns, cells)
           rows == [i \in DOMAIN raw.rows |-> [raw.rows[i] EXCEPT !.id = 0]]
<1>1. Fills(cells, t, columns)
  BY TableShape DEF Fills
<1>2. SelectColumns(t, columns) = [raw EXCEPT !.rows = rows]
  BY DEF SelectColumns, Stripped, WithCells, Refilled
<1> HIDE DEF cells
<1>3. From(raw, columns, Ids(t))
  BY <1>1, CellsReplaced
<1> HIDE DEF raw
<1>4. IsTable(raw) /\ raw.columns = columns
  BY <1>3 DEF From
<1>5. [raw EXCEPT !.rows = rows] = [columns |-> columns, texts |-> raw.texts, rows |-> rows]
  <2> HIDE DEF rows
  <2>1. raw = [columns |-> columns, texts |-> raw.texts, rows |-> raw.rows]
    BY <1>4 DEF IsTable
  <2>2. \A texts, old :
          [[columns |-> columns, texts |-> texts, rows |-> old] EXCEPT !.rows = rows] =
            [columns |-> columns, texts |-> texts, rows |-> rows]
    OBVIOUS
  <2> QED
    BY <2>1, <2>2
<1>6. rows \in [1 .. Len(raw.rows) -> Row(columns)] /\ \A i \in DOMAIN rows : rows[i].id = 0
  <2>1. DOMAIN raw.rows = 1 .. Len(raw.rows)
    BY <1>4, TableShape
  <2>2. ASSUME NEW i \in DOMAIN raw.rows
        PROVE  /\ [raw.rows[i] EXCEPT !.id = 0] \in Row(columns)
               /\ [raw.rows[i] EXCEPT !.id = 0].id = 0
    <3>1. raw.rows[i] \in Row(columns)
      BY <1>4, TableShape
    <3> QED
      BY <3>1 DEF Row
  <2> QED
    BY <2>1, <2>2
<1> HIDE DEF rows
<1>7. IsTable([columns |-> columns, texts |-> raw.texts, rows |-> rows])
  <2>1. raw.texts \in SUBSET columns /\ Len(raw.rows) \in Nat
    BY <1>4, TableShape, TextColumns
  <2> QED
    BY <1>6, <2>1, TableMade
<1> QED
  BY <1>2, <1>5, <1>6, <1>7 DEF From

\* An extracted column keeps the rows, whether its source stays or not.
LEMMA ExtractColumnFrom ==
  ASSUME NEW t, IsTable(t), NEW source \in t.columns, NEW output, NEW rewrite,
         IsMapping(rewrite), NEW keepSource \in BOOLEAN
  PROVE  \E columns \in SUBSET (t.columns \cup {output}) :
           From(ExtractColumn(t, source, output, rewrite, keepSource), columns, Ids(t))
<1> DEFINE kept == IF keepSource THEN t.columns ELSE t.columns \ {source}
           columns == kept \cup {output}
           cells ==
             [i \in DOMAIN t.rows |->
                [c \in columns |->
                   IF c # output THEN t.rows[i].cells[c]
                   ELSE IF t.rows[i].cells[source] = Null THEN Null
                   ELSE Mapped(AsText(t.rows[i].cells[source]), rewrite, "leave")]]
<1>1. columns \in SUBSET (t.columns \cup {output})
  OBVIOUS
<1>2. ExtractColumn(t, source, output, rewrite, keepSource) =
        Retyped(Refilled(t, columns, cells), {output}, {output})
  BY DEF ExtractColumn, WithCells, Refilled
<1> HIDE DEF columns
<1>3. Fills(cells, t, columns)
  <2>1. ASSUME NEW i \in DOMAIN t.rows, NEW c \in columns PROVE cells[i][c] \in Nat
    <3>1. t.rows[i].cells[source] \in Nat /\ AsText(t.rows[i].cells[source]) \in Nat
      BY TableShape, CastValue
    <3>2. CASE c # output
      BY <1>1, <3>2, TableShape
    <3>3. CASE c = output
      BY <3>1, <3>3, MappedValue DEF Null
    <3> QED
      BY <3>2, <3>3
  <2> QED
    BY <2>1 DEF Fills
<1> HIDE DEF cells
<1> QED
  BY <1>1, <1>2, <1>3, CellsReplaced, RetypedFrom

\* calculate.column keeps the rows.
LEMMA GroupTotalFrom ==
  ASSUME NEW t, IsTable(t), NEW group, NEW source, NEW output
  PROVE  From(GroupTotal(t, group, source, output), t.columns \cup {output}, Ids(t))
<1> DEFINE columns == t.columns \cup {output}
           Same(r) == {i \in DOMAIN t.rows : /\ t.rows[i].cells[group] = r.cells[group]
                                            /\ t.rows[i].cells[source] # Null}
           cells ==
             [i \in DOMAIN t.rows |->
                [c \in columns |-> IF c = output THEN Cardinality(Same(t.rows[i]))
                                                 ELSE t.rows[i].cells[c]]]
<1>1. ASSUME NEW r PROVE Cardinality(Same(r)) \in Nat
  BY Same(r) \in SUBSET DOMAIN t.rows, TableShape, FS_Subset, FS_CardinalityType
<1>2. GroupTotal(t, group, source, output) =
        Retyped(Refilled(t, columns, cells), {output}, {})
  BY DEF GroupTotal, WithCells, Refilled
<1> HIDE DEF Same
<1>3. Fills(cells, t, columns)
  BY <1>1, TableShape DEF Fills
<1> HIDE DEF cells
<1> QED
  BY <1>2, <1>3, CellsReplaced, RetypedFrom

\* duplicates.handle, mode mark, keeps the rows.
LEMMA MarkDuplicatesFrom ==
  ASSUME NEW t, IsTable(t), NEW keys, NEW marker
  PROVE  From(MarkDuplicates(t, keys, marker), t.columns \cup {marker}, Ids(t))
<1> DEFINE columns == t.columns \cup {marker}
           Repeated(r) == Cardinality({j \in DOMAIN t.rows :
                            \A c \in keys : t.rows[j].cells[c] = r.cells[c]}) > 1
           cells ==
             [i \in DOMAIN t.rows |->
                [c \in columns |-> IF c # marker THEN t.rows[i].cells[c]
                                   ELSE IF Repeated(t.rows[i]) THEN Marked ELSE Unmarked]]
<1>1. MarkDuplicates(t, keys, marker) = Retyped(Refilled(t, columns, cells), {marker}, {})
  BY DEF MarkDuplicates, WithCells, Refilled
<1> HIDE DEF Repeated
<1>2. Fills(cells, t, columns)
  BY TableShape DEF Marked, Unmarked, Fills
<1> HIDE DEF cells
<1> QED
  BY <1>1, <1>2, CellsReplaced, RetypedFrom

-----------------------------------------------------------------------------
(* Operations on rows *)

\* rows.filter keeps some of the rows.
LEMMA FilterRowsFrom ==
  ASSUME NEW t, IsTable(t), NEW column, NEW value, NEW keep
  PROVE  From(FilterRows(t, column, value, keep), t.columns, Ids(t))
BY RowsChosen DEF FilterRows

\* The positions of the rows to sort are ordered by the values of the column.
LEMMA SortRowsFrom ==
  ASSUME NEW t, IsTable(t), NEW column \in t.columns, NEW descending \in BOOLEAN
  PROVE  From(SortRows(t, column, descending), t.columns, Ids(t))
<1> DEFINE D == DOMAIN t.rows
           v(i) == t.rows[i].cells[column]
           Less(i, j) ==
             IF v(i) = v(j) THEN i < j
             ELSE v(i) # Null /\ (v(j) = Null \/ (v(i) < v(j)) # descending)
           R == {p \in D \X D : Less(p[1], p[2])}
           order == InOrder(D, R)
           rows == [i \in DOMAIN order |-> t.rows[order[i]]]
<1>1. /\ D \in SUBSET Nat /\ IsFiniteSet(D)
      /\ \A i \in D : v(i) \in Nat /\ t.rows[i] \in Row(t.columns)
  BY TableShape
<1>2. SortRows(t, column, descending) = [t EXCEPT !.rows = rows]
  BY DEF SortRows
<1> HIDE DEF v
<1>3. ASSUME NEW i \in D, NEW j \in D, NEW k \in D
      PROVE  /\ ~Less(i, i) /\ (i # j => Less(i, j) \/ Less(j, i))
             /\ Less(i, j) /\ Less(j, k) => Less(i, k)
  <2> DEFINE Earlier(a, b) == IF descending THEN ~(a < b) ELSE a < b
             Sooner(m, a, n, b) ==
               IF a = b THEN m < n ELSE a # Null /\ (b = Null \/ Earlier(a, b))
  <2>1. ASSUME NEW m \in D, NEW n \in D PROVE Less(m, n) <=> Sooner(m, v(m), n, v(n))
    <3>1. ((v(m) < v(n)) # descending) <=> Earlier(v(m), v(n))
      <4>1. CASE descending = TRUE
        BY <4>1
      <4>2. CASE descending = FALSE
        BY <4>2
      <4> QED
        BY <4>1, <4>2
    <3> HIDE DEF Earlier
    <3> QED
      BY <3>1
  <2> HIDE DEF Less
  <2>2. ASSUME NEW a \in Nat, NEW b \in Nat, NEW c \in Nat
        PROVE  /\ ~Sooner(i, a, i, a) /\ (i # j => Sooner(i, a, j, b) \/ Sooner(j, b, i, a))
               /\ Sooner(i, a, j, b) /\ Sooner(j, b, k, c) => Sooner(i, a, k, c)
    <3>1. i \in Nat /\ j \in Nat /\ k \in Nat
      BY <1>1
    <3> QED
      BY <3>1 DEF Null
  <2> HIDE DEF Sooner
  <2> QED
    BY <1>1, <2>1, <2>2
<1>4. \A i, j \in D : <<i, j>> \in R <=> Less(i, j)
  OBVIOUS
<1> HIDE DEF R, Less
<1>5. Orders(R, D)
  BY <1>3, <1>4 DEF Orders
<1>6. Cardinality(D) \in Nat /\ order \in [1 .. Cardinality(D) -> D]
  BY <1>1, <1>5, InOrderLists
<1> HIDE DEF order
<1>7. /\ rows \in [1 .. Cardinality(D) -> Row(t.columns)]
      /\ \A i \in DOMAIN rows : rows[i].id \in Ids(t)
  BY <1>1, <1>6 DEF Ids
<1> HIDE DEF rows
<1>8. [t EXCEPT !.rows = rows] = [columns |-> t.columns, texts |-> t.texts, rows |-> rows]
  BY DEF IsTable
<1>9. IsTable([columns |-> t.columns, texts |-> t.texts, rows |-> rows])
  BY <1>6, <1>7, TextColumns, TableMade
<1> QED
  BY <1>2, <1>7, <1>8, <1>9 DEF From

\* The row kept of a group is one of the group.
LEMMA ChosenInGroup ==
  ASSUME NEW t, IsTable(t), NEW group \in SUBSET DOMAIN t.rows, group # {}, NEW keep
  PROVE  Chosen(group, keep) \in group /\ Min(group) \in group
<1>1. group \in SUBSET Int /\ IsFiniteSet(group)
  BY TableShape, FS_Subset
<1> QED
  BY <1>1, Extremes DEF Chosen

\* A row is in its own group.
LEMMA GroupShape ==
  ASSUME NEW t, NEW keys, NEW i \in DOMAIN t.rows
  PROVE  SameKey(t, keys, i) \in SUBSET DOMAIN t.rows /\ i \in SameKey(t, keys, i)
BY DEF SameKey

\* duplicates.handle, modes remove and move, gives rows of the table.
LEMMA KeptRowsFrom ==
  ASSUME NEW t, IsTable(t), NEW keys, NEW keep
  PROVE  /\ From(KeptRows(t, keys, keep), t.columns, Ids(t))
         /\ From(MovedRows(t, keys, keep), t.columns, Ids(t))
<1>1. KeptPositions(t, keys, keep) \in SUBSET DOMAIN t.rows
  <2>1. ASSUME NEW i \in DOMAIN t.rows
        PROVE  Chosen(SameKey(t, keys, i), keep) \in DOMAIN t.rows
    BY GroupShape, ChosenInGroup
  <2> QED
    BY <2>1 DEF KeptPositions
<1>2. DOMAIN t.rows \ KeptPositions(t, keys, keep) \in SUBSET DOMAIN t.rows
  OBVIOUS
<1> QED
  BY <1>1, <1>2, RowsChosen DEF KeptRows, MovedRows

\* A merged row has the identity of one of its group.
LEMMA MergeComplementaryFrom ==
  ASSUME NEW t, IsTable(t), NEW keys, NEW keep, NEW strategy
  PROVE  From(MergeComplementary(t, keys, keep, strategy), t.columns, Ids(t))
<1> DEFINE S == {Min(SameKey(t, keys, i)) : i \in DOMAIN t.rows}
           heads == Sorted(S)
           Values(group, c) == {i \in group : ~IsBlank(t.rows[i].cells[c])}
           Cells(group) ==
             [c \in t.columns |->
                IF c \in keys THEN t.rows[Chosen(group, keep)].cells[c]
                ELSE IF Values(group, c) = {} THEN Null
                ELSE t.rows[Chosen(Values(group, c), strategy)].cells[c]]
           Merged(group) == [t.rows[Chosen(group, keep)] EXCEPT !.cells = Cells(group)]
           rows == [i \in DOMAIN heads |-> Merged(SameKey(t, keys, heads[i]))]
<1>1. S \in SUBSET DOMAIN t.rows
  BY GroupShape, ChosenInGroup
<1>2. S \in SUBSET Int /\ IsFiniteSet(S)
  BY <1>1, TableShape, FS_Subset
<1>3. MergeComplementary(t, keys, keep, strategy) = [t EXCEPT !.rows = rows]
  BY DEF MergeComplementary
<1> HIDE DEF S
<1>4. Cardinality(S) \in Nat /\ heads \in [1 .. Cardinality(S) -> S]
  BY <1>2, SortedLists
<1> HIDE DEF heads
<1>5. ASSUME NEW group \in SUBSET DOMAIN t.rows, group # {}
      PROVE  Merged(group) \in Row(t.columns) /\ Merged(group).id \in Ids(t)
  <2>1. Chosen(group, keep) \in DOMAIN t.rows
    BY <1>5, ChosenInGroup
  <2>2. ASSUME NEW c \in t.columns PROVE Cells(group)[c] \in Nat
    <3>1. CASE Values(group, c) = {}
      BY <2>1, <3>1, TableShape DEF Null
    <3>2. CASE Values(group, c) # {}
      <4>1. Chosen(Values(group, c), strategy) \in DOMAIN t.rows
        BY <3>2, ChosenInGroup, Values(group, c) \in SUBSET DOMAIN t.rows
      <4> HIDE DEF Values
      <4> QED
        BY <2>1, <3>2, <4>1, TableShape
    <3> QED
      BY <3>1, <3>2
  <2>3. Cells(group) \in [t.columns -> Nat]
    BY <2>2
  <2> HIDE DEF Cells
  <2> QED
    BY <2>1, <2>3, TableShape DEF Row, Ids
<1> HIDE DEF Merged
<1>6. \A i \in DOMAIN heads : rows[i] \in Row(t.columns) /\ rows[i].id \in Ids(t)
  <2>1. ASSUME NEW i \in DOMAIN heads
        PROVE  SameKey(t, keys, heads[i]) \in SUBSET DOMAIN t.rows
               /\ SameKey(t, keys, heads[i]) # {}
    BY <1>1, <1>4, GroupShape
  <2> QED
    BY <1>5, <2>1
<1>7. /\ rows \in [1 .. Cardinality(S) -> Row(t.columns)]
      /\ \A i \in DOMAIN rows : rows[i].id \in Ids(t)
  BY <1>4, <1>6
<1> HIDE DEF rows
<1>8. [t EXCEPT !.rows = rows] = [columns |-> t.columns, texts |-> t.texts, rows |-> rows]
  BY DEF IsTable
<1>9. IsTable([columns |-> t.columns, texts |-> t.texts, rows |-> rows])
  BY <1>4, <1>7, TextColumns, TableMade
<1> QED
  BY <1>3, <1>7, <1>8, <1>9 DEF From

-----------------------------------------------------------------------------
(* Several tables *)

\* tables.merge gives the rows of both tables.
LEMMA MergeTablesFrom ==
  ASSUME NEW all, NEW first \in DOMAIN all, NEW second \in DOMAIN all,
         IsTable(all[first]), IsTable(all[second])
  PROVE  From(MergeTables(all, <<first, second>>),
              all[first].columns \cup all[second].columns,
              Ids(all[first]) \cup Ids(all[second]))
<1> DEFINE columns == all[first].columns \cup all[second].columns
           ids == Ids(all[first]) \cup Ids(all[second])
           selected == <<first, second>>
           texts == UNION {all[selected[n]].texts : n \in DOMAIN selected}
           cells(t) ==
             [i \in DOMAIN t.rows |->
                [c \in columns |-> IF c \in t.columns THEN t.rows[i].cells[c] ELSE Null]]
           Cast(t) == AsTexts(t, texts \cap t.columns)
           Padded(t) == WithCells(Cast(t), columns,
                                  LAMBDA r, c : IF c \in t.columns THEN r.cells[c] ELSE Null)
           parts == [n \in DOMAIN selected |-> Padded(all[selected[n]]).rows]
           Rows == {row \in Row(columns) : row.id \in ids}
<1>1. DOMAIN selected = {1, 2} /\ Len(selected) = 2 /\ selected[1] = first /\ selected[2] = second
  OBVIOUS
<1>2. UNION {all[selected[n]].columns : n \in DOMAIN selected} = columns
  BY <1>1
<1>3. MergeTables(all, selected) =
        [columns |-> columns, texts |-> texts, rows |-> FlattenSeq(parts)]
  BY <1>2 DEF MergeTables
<1>4. texts \in SUBSET columns
  <2>1. texts = all[first].texts \cup all[second].texts
    BY <1>1
  <2> QED
    BY <2>1, TextColumns
<1> HIDE DEF columns, selected, texts
<1>5. ASSUME NEW key \in {first, second} PROVE Padded(all[key]).rows \in Seq(Rows)
  <2> DEFINE t == all[key]
             u == Cast(t)
  <2>1. IsTable(t) /\ Ids(t) \subseteq ids
    OBVIOUS
  <2> HIDE DEF t
  <2>1a. IsTable(u) /\ u.columns = t.columns /\ Ids(u) \subseteq ids
    <3>1. From(u, t.columns, Ids(t))
      BY <2>1, AsTextsFrom
    <3> HIDE DEF u
    <3> QED
      BY <2>1, <3>1 DEF From, Ids
  <2>2. Padded(t) = Refilled(u, columns, cells(u))
    <3>1. Padded(t) = WithCells(u, columns,
                                LAMBDA r, c : IF c \in t.columns THEN r.cells[c] ELSE Null)
      OBVIOUS
    <3> HIDE DEF u, Padded
    <3> QED
      BY <2>1a, <3>1 DEF WithCells, Refilled
  <2> HIDE DEF u, Padded
  <2>2a. Fills(cells(u), u, columns)
    BY <2>1a, TableShape DEF Null, Fills
  <2> HIDE DEF cells
  <2>3. From(Padded(t), columns, Ids(u))
    BY <2>1a, <2>2, <2>2a, CellsReplaced
  <2> HIDE DEF Padded
  <2>4. IsTable(Padded(t)) /\ Padded(t).columns = columns
    BY <2>3 DEF From
  <2> DEFINE rows == Padded(t).rows
  <2>5. \A i \in DOMAIN rows : rows[i] \in Rows
    BY <2>1a, <2>3, <2>4, TableShape DEF From
  <2>6. Len(rows) \in Nat /\ rows \in [1 .. Len(rows) -> Rows]
    BY <2>4, <2>5, TableShape
  <2> HIDE DEF rows, Rows
  <2>7. rows \in Seq(Rows)
    BY <2>6, SeqDef
  <2> QED
    BY <2>7 DEF rows, t
<1> HIDE DEF Padded, Rows
<1>6. parts \in Seq(Seq(Rows))
  <2>1. parts \in [1 .. 2 -> Seq(Rows)]
    BY <1>1, <1>5
  <2> HIDE DEF parts
  <2>2. [1 .. 2 -> Seq(Rows)] \in {[1 .. n -> Seq(Rows)] : n \in Nat}
    OBVIOUS
  <2>3. Seq(Seq(Rows)) = UNION {[1 .. n -> Seq(Rows)] : n \in Nat}
    BY SeqDef
  <2> QED
    BY <2>1, <2>2, <2>3
<1> HIDE DEF parts
<1> DEFINE rows == FlattenSeq(parts)
<1>7. rows \in Seq(Rows)
  BY <1>6, Flattened
<1>8. Len(rows) \in Nat /\ rows \in [1 .. Len(rows) -> Rows] /\ DOMAIN rows = 1 .. Len(rows)
  BY <1>7, LenProperties
<1> HIDE DEF rows
<1>9. /\ rows \in [1 .. Len(rows) -> Row(columns)]
      /\ \A i \in DOMAIN rows : rows[i].id \in ids
  BY <1>8 DEF Rows
<1>10. IsTable([columns |-> columns, texts |-> texts, rows |-> rows])
  BY <1>4, <1>8, <1>9, TableMade
<1>11. From([columns |-> columns, texts |-> texts, rows |-> rows], columns, ids)
  BY <1>9, <1>10 DEF From
<1> QED
  BY <1>3, <1>11 DEF rows, columns, selected

\* A category's rows are rows of the table.
LEMMA CategoryRowsFrom ==
  ASSUME NEW t, IsTable(t), NEW column, NEW value, NEW drop \in BOOLEAN
  PROVE  \E columns \in SUBSET t.columns :
           From(CategoryRows(t, column, value, drop), columns, Ids(t))
<1> DEFINE rows == FilterRows(t, column, value, TRUE)
<1>1. From(rows, t.columns, Ids(t))
  BY FilterRowsFrom
<1> HIDE DEF rows
<1>2. IsTable(rows) /\ rows.columns = t.columns /\ Ids(rows) \subseteq Ids(t)
  BY <1>1 DEF From, Ids
<1>3. From(RemoveColumns(rows, {column}), t.columns \ {column}, Ids(t))
  <2>1. From(RemoveColumns(rows, {column}), t.columns \ {column}, Ids(rows))
    BY <1>2, RemoveColumnsFrom
  <2> QED
    BY <1>2, <2>1 DEF From
<1>4. t.columns \ {column} \in SUBSET t.columns /\ t.columns \in SUBSET t.columns
  OBVIOUS
<1>5. CategoryRows(t, column, value, drop) = IF drop THEN RemoveColumns(rows, {column}) ELSE rows
  BY DEF CategoryRows, rows
<1> QED
  BY <1>1, <1>3, <1>4, <1>5

\* The categories of a column are finitely many values.
LEMMA CategoriesFinite ==
  ASSUME NEW t, IsTable(t), NEW column \in t.columns
  PROVE  Categories(t, column) \in SUBSET Nat /\ IsFiniteSet(Categories(t, column))
<1>1. Categories(t, column) = {t.rows[i].cells[column] : i \in DOMAIN t.rows}
  BY DEF Categories, Range
<1>2. [i \in DOMAIN t.rows |-> t.rows[i].cells[column]]
        \in Surjection(DOMAIN t.rows, Categories(t, column))
  BY <1>1 DEF Surjection
<1>3. IsFiniteSet(Categories(t, column))
  BY <1>2, TableShape, FS_Surjection
<1> QED
  BY <1>1, <1>3, TableShape
=============================================================================
