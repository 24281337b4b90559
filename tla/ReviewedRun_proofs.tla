-------------------------- MODULE ReviewedRun_proofs --------------------------
(***************************************************************************)
(* Theorems about ReviewedRun, for any workbooks, rewrites, mappings,      *)
(* rules and bounds.                                                       *)
(***************************************************************************)
EXTENDS ReviewedRun, Tables_proofs

-----------------------------------------------------------------------------
(* Tables with identities *)

\* A table of the run's columns with identities from ids.
Holds(t, ids) == From(t, t.columns, ids) /\ t.columns \subseteq Columns

Distinct(t) == \A i, j \in DOMAIN t.rows : t.rows[i].id = t.rows[j].id => i = j

Sound(ts, next) ==
  /\ IsFiniteSet(DOMAIN ts)
  /\ \A key \in DOMAIN ts : Holds(ts[key], 1 .. next - 1) /\ Distinct(ts[key])

AnyTable ==
  UNION {[columns : {columns}, texts : SUBSET columns, rows : Seq(Row(columns))]
           : columns \in SUBSET Columns}

\* AnyTable is the tables whose columns are among Columns.
LEMMA AnyTableIs ==
  ASSUME NEW t
  PROVE  t \in AnyTable <=> IsTable(t) /\ t.columns \in SUBSET Columns
BY DEF AnyTable, IsTable

Renumbered(t, ids) ==
  [t EXCEPT !.rows = [i \in DOMAIN t.rows |-> [t.rows[i] EXCEPT !.id = ids[i]]]]

\* Giving the rows identities changes nothing else.
LEMMA RenumberedShape ==
  ASSUME NEW t, IsTable(t), NEW ids, \A i \in DOMAIN t.rows : ids[i] \in Nat
  PROVE  /\ IsTable(Renumbered(t, ids)) /\ Renumbered(t, ids).columns = t.columns
         /\ DOMAIN Renumbered(t, ids).rows = DOMAIN t.rows
         /\ Len(Renumbered(t, ids).rows) = Len(t.rows)
         /\ \A i \in DOMAIN t.rows :
              /\ Renumbered(t, ids).rows[i].id = ids[i]
              /\ Renumbered(t, ids).rows[i].cells = t.rows[i].cells
<1> DEFINE rows == [i \in DOMAIN t.rows |-> [t.rows[i] EXCEPT !.id = ids[i]]]
<1>1. ASSUME NEW i \in DOMAIN t.rows
      PROVE  /\ rows[i] \in Row(t.columns)
             /\ rows[i].id = ids[i] /\ rows[i].cells = t.rows[i].cells
  BY TableShape DEF Row
<1>2. rows \in [1 .. Len(t.rows) -> Row(t.columns)] /\ DOMAIN rows = DOMAIN t.rows
  BY <1>1, TableShape
<1>3. Renumbered(t, ids) = [t EXCEPT !.rows = rows]
  BY DEF Renumbered
<1> HIDE DEF rows
<1>4. Renumbered(t, ids) = [columns |-> t.columns, texts |-> t.texts, rows |-> rows]
  BY <1>3 DEF IsTable
<1>5. IsTable([columns |-> t.columns, texts |-> t.texts, rows |-> rows]) /\ Len(rows) = Len(t.rows)
  BY <1>2, TableShape, TextColumns, TableMade
<1> QED
  BY <1>1, <1>2, <1>4, <1>5

\* Fresh identities in the order of the rows.
LEMMA WithRowIdsShape ==
  ASSUME NEW t, IsTable(t), NEW offset \in Nat
  PROVE  LET u == WithRowIds(t, offset)
         IN  /\ IsTable(u) /\ u.columns = t.columns /\ Len(u.rows) = Len(t.rows)
             /\ DOMAIN u.rows = DOMAIN t.rows
             /\ \A i \in DOMAIN u.rows :
                  u.rows[i].id = offset + i - 1 /\ u.rows[i].cells = t.rows[i].cells
             /\ From(u, u.columns, offset .. offset + Len(t.rows) - 1) /\ Distinct(u)
<1> DEFINE ids == [i \in DOMAIN t.rows |-> offset + i - 1]
<1>1. /\ Len(t.rows) \in Nat /\ DOMAIN t.rows = 1 .. Len(t.rows)
      /\ \A i \in DOMAIN t.rows : ids[i] \in Nat /\ ids[i] \in offset .. offset + Len(t.rows) - 1
  BY TableShape
<1>2. WithRowIds(t, offset) = Renumbered(t, ids)
  BY DEF WithRowIds, Renumbered
<1>3. \A i, j \in DOMAIN t.rows : ids[i] = ids[j] => i = j
  BY <1>1
<1>4. \A i \in DOMAIN t.rows : ids[i] = offset + i - 1
  OBVIOUS
<1> HIDE DEF ids
<1>5. /\ IsTable(Renumbered(t, ids)) /\ Renumbered(t, ids).columns = t.columns
      /\ DOMAIN Renumbered(t, ids).rows = DOMAIN t.rows
      /\ Len(Renumbered(t, ids).rows) = Len(t.rows)
      /\ \A i \in DOMAIN t.rows :
              /\ Renumbered(t, ids).rows[i].id = ids[i]
              /\ Renumbered(t, ids).rows[i].cells = t.rows[i].cells
  BY <1>1, RenumberedShape
<1> QED
  BY <1>1, <1>2, <1>3, <1>4, <1>5 DEF From, Distinct

\* What an operation may return: rows with identities handed out, or none at all.
Result(raw) ==
  /\ IsTable(raw) /\ raw.columns \subseteq Columns
  /\ HasNoIds(raw) \/ \A i \in DOMAIN raw.rows : raw.rows[i].id \in 1 .. nextId - 1

\* Whatever a result comes with, its rows end up with identities that were handed out.
LEMMA IdentifiedSound ==
  ASSUME nextId \in Nat \ {0}, NEW before, Holds(before, 1 .. nextId - 1), NEW raw, Result(raw)
  PROVE  LET placed == Identified(before, raw)
         IN  /\ placed.next \in Nat /\ placed.next >= nextId
             /\ Holds(placed.table, 1 .. placed.next - 1)
             /\ placed.table.columns = raw.columns
<1>1. IsTable(raw) /\ IsTable(before)
  BY DEF Result, Holds, From
<1>2. CASE ~HasNoIds(raw)
  BY <1>2 DEF Identified, Result, Holds, From
<1>3. CASE HasNoIds(raw) /\ Len(raw.rows) = Len(before.rows)
  <2> DEFINE ids == [i \in DOMAIN raw.rows |-> before.rows[i].id]
  <2>1. DOMAIN raw.rows = DOMAIN before.rows
    BY <1>1, <1>3, TableShape
  <2>2. \A i \in DOMAIN raw.rows : ids[i] \in 1 .. nextId - 1 /\ ids[i] \in Nat
    BY <2>1 DEF Holds, From
  <2>3. Identified(before, raw) = [table |-> Renumbered(raw, ids), next |-> nextId]
    BY <1>3 DEF Identified, Renumbered
  <2> HIDE DEF ids
  <2>4. /\ IsTable(Renumbered(raw, ids)) /\ Renumbered(raw, ids).columns = raw.columns
        /\ DOMAIN Renumbered(raw, ids).rows = DOMAIN raw.rows
        /\ \A i \in DOMAIN raw.rows : Renumbered(raw, ids).rows[i].id = ids[i]
    BY <1>1, <2>2, RenumberedShape
  <2> QED
    BY <2>2, <2>3, <2>4 DEF Holds, From, Result
<1>4. CASE HasNoIds(raw) /\ Len(raw.rows) # Len(before.rows)
  <2>1. Len(raw.rows) \in Nat
    BY <1>1, TableShape
  <2>2. /\ IsTable(WithRowIds(raw, nextId)) /\ WithRowIds(raw, nextId).columns = raw.columns
        /\ From(WithRowIds(raw, nextId), WithRowIds(raw, nextId).columns,
                nextId .. nextId + Len(raw.rows) - 1)
    BY <1>1, WithRowIdsShape
  <2>3. Identified(before, raw) =
          [table |-> WithRowIds(raw, nextId), next |-> nextId + Len(raw.rows)]
    BY <1>4 DEF Identified
  <2>4. nextId .. nextId + Len(raw.rows) - 1 \subseteq 1 .. nextId + Len(raw.rows) - 1
    BY <2>1
  <2> QED
    BY <2>1, <2>2, <2>3, <2>4 DEF Holds, From, Result
<1> QED
  BY <1>2, <1>3, <1>4

\* The loop of _repair_duplicate_row_ids, turn by turn.
Turns(t, next, f) ==
  /\ f[0] = [rows |-> <<>>, next |-> Max(Ids(t) \cup {next - 1}) + 1]
  /\ \A n \in 1 .. Len(t.rows) :
       f[n] = IF \E i \in DOMAIN f[n - 1].rows : f[n - 1].rows[i].id = t.rows[n].id
                THEN [rows |-> Append(f[n - 1].rows, [t.rows[n] EXCEPT !.id = f[n - 1].next]),
                      next |-> f[n - 1].next + 1]
                ELSE [f[n - 1] EXCEPT !.rows = Append(@, t.rows[n])]

\* The repair of duplicate identities goes from row to row.
LEMMA RepairsTurns ==
  ASSUME NEW t, IsTable(t), NEW next \in Nat \ {0}
  PROVE  Turns(t, next, Repairs(t, next))
<1>1. PICK N \in Nat : N = Len(t.rows)
  BY TableShape
<1> DEFINE D == [rows : Seq(Row(t.columns)), next : Nat]
           base == [rows |-> <<>>, next |-> Max(Ids(t) \cup {next - 1}) + 1]
           Turn(seen, n) ==
             IF \E i \in DOMAIN seen.rows : seen.rows[i].id = t.rows[n].id
               THEN [rows |-> Append(seen.rows, [t.rows[n] EXCEPT !.id = seen.next]),
                     next |-> seen.next + 1]
               ELSE [seen EXCEPT !.rows = Append(@, t.rows[n])]
           step == [p \in D \X (1 .. N) |-> Turn(p[1], p[2])]
           Runs(f) == f = [n \in 0 .. Len(t.rows) |-> IF n = 0 THEN base ELSE Turn(f[n - 1], n)]
<1>2. base \in D
  <2>1. Ids(t) \cup {next - 1} \in SUBSET Nat /\ IsFiniteSet(Ids(t) \cup {next - 1})
    BY IdsFinite, FS_AddElement
  <2>2. Max(Ids(t) \cup {next - 1}) \in Ids(t) \cup {next - 1}
    BY <2>1, Extremes
  <2> QED
    BY <2>1, <2>2
<1>3. ASSUME NEW seen \in D, NEW n \in 1 .. N PROVE Turn(seen, n) \in D
  <2>1. PICK rows \in Seq(Row(t.columns)), m \in Nat : seen = [rows |-> rows, next |-> m]
    BY <1>3
  <2>2. t.rows[n] \in Row(t.columns)
    BY <1>1, TableShape
  <2>3. [t.rows[n] EXCEPT !.id = m] \in Row(t.columns)
    BY <2>2 DEF Row
  <2>4. /\ Append(rows, t.rows[n]) \in Seq(Row(t.columns))
        /\ Append(rows, [t.rows[n] EXCEPT !.id = m]) \in Seq(Row(t.columns))
    BY <2>2, <2>3, AppendProperties
  <2>5. /\ [rows |-> Append(rows, [t.rows[n] EXCEPT !.id = m]), next |-> m + 1] \in D
        /\ [rows |-> Append(rows, t.rows[n]), next |-> m] \in D
    BY <2>4
  <2>6. \/ Turn(seen, n) = [rows |-> Append(rows, [t.rows[n] EXCEPT !.id = m]), next |-> m + 1]
        \/ Turn(seen, n) = [rows |-> Append(rows, t.rows[n]), next |-> m]
    BY <2>1
  <2> HIDE DEF Turn, D
  <2> QED
    BY <2>5, <2>6
<1> HIDE DEF D, base, Turn
<1>4. /\ step \in [D \X (1 .. N) -> D]
      /\ \A seen \in D, n \in 1 .. N : step[<<seen, n>>] = Turn(seen, n)
  BY <1>3
<1> HIDE DEF step
<1>5. PICK f : Repeats(f, N, D, base, step)
  BY <1>2, <1>4, Repeating
<1>6. Runs(f)
  <2>1. f = [n \in 0 .. N |-> f[n]]
    BY <1>5 DEF Repeats
  <2>2. ASSUME NEW n \in 0 .. N PROVE f[n] = IF n = 0 THEN base ELSE Turn(f[n - 1], n)
    <3>1. CASE n = 0
      BY <1>5, <3>1 DEF Repeats
    <3>2. CASE n # 0
      <4>1. n \in 1 .. N /\ n - 1 \in 0 .. N
        BY <3>2
      <4>2. f[n - 1] \in D /\ f[n] = step[<<f[n - 1], n>>]
        BY <1>5, <4>1 DEF Repeats
      <4> QED
        BY <1>4, <3>2, <4>1, <4>2
    <3> QED
      BY <3>1, <3>2
  <2> QED
    BY <1>1, <2>1, <2>2
<1>7. Repairs(t, next) = CHOOSE g : Runs(g)
  BY DEF Repairs, base, Turn
<1>8. Runs(Repairs(t, next))
  <2> HIDE DEF Runs
  <2> QED
    BY <1>6, <1>7
<1>9. /\ Repairs(t, next)[0] = base
      /\ \A n \in 1 .. Len(t.rows) : Repairs(t, next)[n] = Turn(Repairs(t, next)[n - 1], n)
  <2> DEFINE g == Repairs(t, next)
  <2>1. g = [n \in 0 .. N |-> IF n = 0 THEN base ELSE Turn(g[n - 1], n)]
    BY <1>1, <1>8
  <2> HIDE DEF g
  <2>2. g[0] = base /\ \A n \in 1 .. N : g[n] = Turn(g[n - 1], n)
    BY <2>1
  <2> QED
    BY <1>1, <2>2 DEF g
<1> QED
  BY <1>9 DEF Turns, base, Turn

\* What g is after m turns: as many rows, with distinct identities handed out.
KeptUp(g, m, t, next) ==
  /\ g = [rows |-> g.rows, next |-> g.next]
  /\ g.next \in Nat /\ next <= g.next
  /\ g.rows \in Seq(Row(t.columns)) /\ Len(g.rows) = m
  /\ \A i \in 1 .. m : g.rows[i].id \in 1 .. g.next - 1
  /\ \A i, j \in 1 .. m : g.rows[i].id = g.rows[j].id => i = j

\* After n rows, the rows seen have distinct identities below the next one.
LEMMA RepairsKeep ==
  ASSUME NEW next \in Nat \ {0}, NEW t, Holds(t, 1 .. next - 1),
         NEW f, Turns(t, next, f), NEW n \in 0 .. Len(t.rows)
  PROVE  KeptUp(f[n], n, t, next)
<1> DEFINE Good == {m \in 0 .. Len(t.rows) : KeptUp(f[m], m, t, next)}
<1>1. IsTable(t) /\ \A i \in DOMAIN t.rows : t.rows[i].id \in 1 .. next - 1
  BY DEF Holds, From
<1>2. Len(t.rows) \in Nat /\ DOMAIN t.rows = 1 .. Len(t.rows)
  BY <1>1, TableShape
<1>3. Max(Ids(t) \cup {next - 1}) + 1 = next
  <2> DEFINE S == Ids(t) \cup {next - 1}
  <2>1. S \in SUBSET Int /\ IsFiniteSet(S) /\ S # {} /\ next - 1 \in S
    <3>1. PICK ids : ids = Ids(t)
      OBVIOUS
    <3>2. ids \in SUBSET Nat /\ IsFiniteSet(ids)
      BY <1>1, <3>1, IdsFinite
    <3>3. IsFiniteSet(ids \cup {next - 1})
      BY <3>2, FS_AddElement
    <3>4. ids \cup {next - 1} \in SUBSET Int
      BY <3>2
    <3> QED
      BY <3>1, <3>3, <3>4
  <2>2. \A m \in S : m <= next - 1
    BY <1>1 DEF Ids
  <2> HIDE DEF S
  <2>3. Max(S) \in S /\ next - 1 <= Max(S)
    BY <2>1, Extremes
  <2> QED
    BY <2>1, <2>2, <2>3 DEF S
<1>4. 0 \in Good
  <2>1. f[0] = [rows |-> <<>>, next |-> next]
    BY <1>3 DEF Turns
  <2>2. <<>> \in Seq(Row(t.columns)) /\ Len(<<>>) = 0
    BY EmptySeq
  <2>3. KeptUp([rows |-> <<>>, next |-> next], 0, t, next)
    BY <2>2 DEF KeptUp
  <2> QED
    BY <1>2, <2>1, <2>3
<1>5. ASSUME NEW m \in 1 .. Len(t.rows), m - 1 \in Good PROVE m \in Good
  <2>0. KeptUp(f[m - 1], m - 1, t, next)
    BY <1>5
  <2>1. PICK rows, k : f[m - 1] = [rows |-> rows, next |-> k]
    BY <2>0 DEF KeptUp
  <2>2. /\ k \in Nat /\ next <= k
        /\ rows \in Seq(Row(t.columns)) /\ Len(rows) = m - 1
        /\ \A i \in 1 .. m - 1 : rows[i].id \in 1 .. k - 1
        /\ \A i, j \in 1 .. m - 1 : rows[i].id = rows[j].id => i = j
    <3>1. KeptUp([rows |-> rows, next |-> k], m - 1, t, next)
      BY <2>0, <2>1
    <3> QED
      BY <3>1 DEF KeptUp
  <2>3. DOMAIN rows = 1 .. m - 1
    BY <2>2, LenProperties
  <2> DEFINE row == t.rows[m]
             fresh == [row EXCEPT !.id = k]
  <2>4. row \in Row(t.columns) /\ row.id \in 1 .. next - 1
    BY <1>1, <1>2, TableShape
  <2>5. fresh \in Row(t.columns) /\ fresh.id = k
    BY <2>2, <2>4 DEF Row
  <2>6. f[m] = IF \E i \in 1 .. m - 1 : rows[i].id = row.id
                 THEN [rows |-> Append(rows, fresh), next |-> k + 1]
                 ELSE [rows |-> Append(rows, row), next |-> k]
    <3>1. f[m] = IF \E i \in DOMAIN f[m - 1].rows : f[m - 1].rows[i].id = row.id
                   THEN [rows |-> Append(f[m - 1].rows, [row EXCEPT !.id = f[m - 1].next]),
                         next |-> f[m - 1].next + 1]
                   ELSE [f[m - 1] EXCEPT !.rows = Append(@, row)]
      BY DEF Turns
    <3>2. f[m - 1].rows = rows /\ f[m - 1].next = k
      BY <2>1
    <3> HIDE DEF row, fresh
    <3>3. \A new : [[rows |-> rows, next |-> k] EXCEPT !.rows = new] =
                     [rows |-> new, next |-> k]
      OBVIOUS
    <3>4. [f[m - 1] EXCEPT !.rows = Append(@, row)] = [rows |-> Append(rows, row), next |-> k]
      BY <2>1, <3>2, <3>3
    <3> QED
      BY <2>3, <3>1, <3>2, <3>4 DEF fresh
  <2> HIDE DEF fresh, row
  <2>7. ASSUME NEW last \in {row, fresh}
        PROVE  /\ Append(rows, last) \in Seq(Row(t.columns)) /\ Len(Append(rows, last)) = m
               /\ \A i \in 1 .. m - 1 : Append(rows, last)[i] = rows[i]
               /\ Append(rows, last)[m] = last
    <3>1. last \in Row(t.columns)
      BY <2>4, <2>5
    <3>2. /\ Append(rows, last) \in Seq(Row(t.columns)) /\ Len(Append(rows, last)) = Len(rows) + 1
          /\ \A i \in 1 .. Len(rows) : Append(rows, last)[i] = rows[i]
          /\ Append(rows, last)[Len(rows) + 1] = last
      BY <2>2, <3>1, AppendProperties
    <3>3. Len(rows) + 1 = m
      BY <2>2
    <3> QED
      BY <2>2, <3>2, <3>3
  <2>8. \A i \in 1 .. m : i \in 1 .. m - 1 \/ i = m
    OBVIOUS
  <2>9. KeptUp(f[m], m, t, next)
    <3>1. CASE \E i \in 1 .. m - 1 : rows[i].id = row.id
      <4> DEFINE all == Append(rows, fresh)
      <4>1. f[m] = [rows |-> all, next |-> k + 1]
        BY <2>6, <3>1
      <4>2. /\ all \in Seq(Row(t.columns)) /\ Len(all) = m
            /\ \A i \in 1 .. m - 1 : all[i] = rows[i]
            /\ all[m].id = k
        BY <2>5, <2>7
      <4> HIDE DEF all
      <4>3. \A i \in 1 .. m : all[i].id \in 1 .. k
        <5>1. all[m].id \in 1 .. k
          BY <2>2, <4>2
        <5>2. \A i \in 1 .. m - 1 : all[i].id \in 1 .. k - 1
          BY <2>2, <4>2
        <5>3. \A i \in 1 .. m - 1 : all[i].id \in 1 .. k
          BY <2>2, <5>2
        <5> QED
          BY <2>8, <5>1, <5>3
      <4>4. ASSUME NEW i \in 1 .. m, NEW j \in 1 .. m, all[i].id = all[j].id PROVE i = j
        <5>1. CASE i \in 1 .. m - 1 /\ j \in 1 .. m - 1
          BY <2>2, <4>2, <4>4, <5>1
        <5>2. \A l \in 1 .. m - 1 : all[l].id # k
          <6>1. \A l \in 1 .. m - 1 : all[l].id \in 1 .. k - 1
            BY <2>2, <4>2
          <6> QED
            BY <2>2, <6>1
        <5> QED
          BY <2>8, <4>2, <4>4, <5>1, <5>2
      <4>5. KeptUp([rows |-> all, next |-> k + 1], m, t, next)
        BY <2>2, <4>2, <4>3, <4>4 DEF KeptUp
      <4> QED
        BY <4>1, <4>5
    <3>2. CASE ~\E i \in 1 .. m - 1 : rows[i].id = row.id
      <4> DEFINE all == Append(rows, row)
      <4>1. f[m] = [rows |-> all, next |-> k]
        BY <2>6, <3>2
      <4>2. /\ all \in Seq(Row(t.columns)) /\ Len(all) = m
            /\ \A i \in 1 .. m - 1 : all[i] = rows[i]
            /\ all[m] = row
        BY <2>7
      <4> HIDE DEF all
      <4>3. \A i \in 1 .. m : all[i].id \in 1 .. k - 1
        <5>1. all[m].id \in 1 .. k - 1
          BY <2>2, <2>4, <4>2
        <5>2. \A i \in 1 .. m - 1 : all[i].id \in 1 .. k - 1
          BY <2>2, <4>2
        <5> QED
          BY <2>8, <5>1, <5>2
      <4>4. ASSUME NEW i \in 1 .. m, NEW j \in 1 .. m, all[i].id = all[j].id PROVE i = j
        <5>1. CASE i \in 1 .. m - 1 /\ j \in 1 .. m - 1
          BY <2>2, <4>2, <4>4, <5>1
        <5>2. \A l \in 1 .. m - 1 : all[l].id # all[m].id
          BY <3>2, <4>2
        <5> QED
          BY <2>8, <4>4, <5>1, <5>2
      <4>5. KeptUp([rows |-> all, next |-> k], m, t, next)
        BY <2>2, <4>2, <4>3, <4>4 DEF KeptUp
      <4> QED
        BY <4>1, <4>5
    <3> QED
      BY <3>1, <3>2
  <2> QED
    BY <2>9
<1>6. n \in Good
  <2>1. \A m \in 1 .. Len(t.rows) : m - 1 \in Good => m \in Good
    BY <1>5
  <2> HIDE DEF Good
  <2> QED
    BY <1>2, <1>4, <2>1, CountingUp
<1> QED
  BY <1>6

\* _repair_duplicate_row_ids leaves distinct identities, all handed out, and every row's cells.
LEMMA RepairedSound ==
  ASSUME NEW next \in Nat \ {0}, NEW t, Holds(t, 1 .. next - 1)
  PROVE  LET after == Repaired(t, next)
         IN  /\ after.next \in Nat /\ next <= after.next
             /\ Holds(after.table, 1 .. after.next - 1) /\ Distinct(after.table)
             /\ after.table.columns = t.columns /\ Len(after.table.rows) = Len(t.rows)
<1>1. IsTable(t) /\ t.columns \subseteq Columns
  BY DEF Holds, From
<1>2. PICK N \in Nat : N = Len(t.rows)
  BY <1>1, TableShape
<1>3. PICK f : f = Repairs(t, next)
  OBVIOUS
<1>4. Turns(t, next, f)
  BY <1>1, <1>3, RepairsTurns
<1>5. KeptUp(f[N], N, t, next)
  BY <1>2, <1>4, RepairsKeep
<1>6. PICK rows, k : f[N] = [rows |-> rows, next |-> k]
  BY <1>5 DEF KeptUp
<1>7. KeptUp([rows |-> rows, next |-> k], N, t, next)
  BY <1>5, <1>6
<1>8. /\ k \in Nat /\ next <= k
      /\ rows \in Seq(Row(t.columns)) /\ Len(rows) = N
      /\ \A i \in 1 .. N : rows[i].id \in 1 .. k - 1
      /\ \A i, j \in 1 .. N : rows[i].id = rows[j].id => i = j
  BY <1>7 DEF KeptUp
<1>9. [t EXCEPT !.rows = rows] = [columns |-> t.columns, texts |-> t.texts, rows |-> rows]
  BY <1>1 DEF IsTable
<1>10. Repaired(t, next) =
         [table |-> [columns |-> t.columns, texts |-> t.texts, rows |-> rows], next |-> k]
  BY <1>2, <1>3, <1>6, <1>9 DEF Repaired
<1>11. IsTable([columns |-> t.columns, texts |-> t.texts, rows |-> rows])
  BY <1>1, <1>8 DEF IsTable
<1>12. DOMAIN rows = 1 .. N
  BY <1>8, LenProperties
<1>13. PICK u : u = [columns |-> t.columns, texts |-> t.texts, rows |-> rows]
  OBVIOUS
<1>14. IsTable(u) /\ u.columns = t.columns /\ u.rows = rows
  BY <1>11, <1>13
<1>15. Holds(u, 1 .. k - 1) /\ Distinct(u)
  BY <1>1, <1>8, <1>12, <1>14 DEF Holds, From, Distinct
<1>16. Repaired(t, next) = [table |-> u, next |-> k]
  BY <1>10, <1>13
<1> QED
  BY <1>2, <1>8, <1>14, <1>15, <1>16

-----------------------------------------------------------------------------
(* The entries of the change log *)

Contents == Nat \cup {NoValue} \cup UNION {[columns -> Nat] : columns \in SUBSET Columns}

Kinds == {"cell_changed", "row_added", "row_deleted", "row_reordered", "column_added",
          "column_deleted"}

\* Changes of rows with identities from ids, in tables with keys from keys.
Entries(keys, ids) ==
  {r \in [kind : Kinds, key : keys, id : ids, column : Columns \cup {0},
          original : Contents, proposed : Contents] :
     r.kind = "cell_changed" => r.column \in Columns /\ r.original \in Nat}

\* record[m], for the elements of S in order.
Listing(list, S, record) == list = [i \in DOMAIN Sorted(S) |-> record[Sorted(S)[i]]]

Within(record, S, D) == \A m \in S : record[m] \in D

\* A listing has the records of the elements of S, and no others.
LEMMA EachInOrder ==
  ASSUME NEW S \in SUBSET Nat, IsFiniteSet(S), NEW D, NEW record, Within(record, S, D),
         NEW list, Listing(list, S, record)
  PROVE  list \in Seq(D) /\ Range(list) = {record[m] : m \in S}
<1>1. PICK N : N = Cardinality(S)
  OBVIOUS
<1>2. PICK order : order = Sorted(S)
  OBVIOUS
<1>3. /\ N \in Nat /\ order \in [1 .. N -> S]
      /\ \A m \in S : \E i \in 1 .. N : order[i] = m
  BY <1>1, <1>2, SortedLists
<1>4. list \in [1 .. N -> D] /\ \A i \in 1 .. N : list[i] = record[order[i]]
  BY <1>2, <1>3 DEF Listing, Within
<1>5. list \in Seq(D)
  BY <1>3, <1>4, SeqDef
<1>6. \A m \in S : \E i \in 1 .. N : list[i] = record[m]
  BY <1>3, <1>4
<1>7. DOMAIN list = 1 .. N
  BY <1>4
<1>8. \A x \in Range(list) : x \in {record[m] : m \in S}
  <2>1. ASSUME NEW i \in 1 .. N PROVE \E m \in S : list[i] = record[m]
    BY <1>3, <1>4
  <2> QED
    BY <1>7, <2>1 DEF Range
<1>9. \A m \in S : record[m] \in Range(list)
  BY <1>6, <1>7 DEF Range
<1> QED
  BY <1>5, <1>8, <1>9

\* What becomes of a row that stays, as a set of entries.
Edited(before, after, key, id) ==
  {Change("cell_changed", key, id, c, RowOf(before, id).cells[c], RowOf(after, id).cells[c]) :
     c \in {c \in before.columns \cap after.columns :
              RowOf(before, id).cells[c] # RowOf(after, id).cells[c]}}

Shifted(before, after, key, id) ==
  IF Position(before, id) # Position(after, id)
    THEN {Change("row_reordered", key, id, 0, NoValue, NoValue)} ELSE {}

Dropped(before, after, key, id) ==
  {Change("column_deleted", key, id, c, RowOf(before, id).cells[c], NoValue) :
     c \in before.columns \ after.columns}

Gained(before, after, key, id) ==
  {Change("column_added", key, id, c, NoValue, RowOf(after, id).cells[c]) :
     c \in after.columns \ before.columns}

RowEntries(before, after, key, id) ==
  Edited(before, after, key, id) \cup Shifted(before, after, key, id)
    \cup Dropped(before, after, key, id) \cup Gained(before, after, key, id)

\* RowOf finds the row with the identity.
LEMMA RowFound ==
  ASSUME NEW t, IsTable(t), NEW id \in Ids(t)
  PROVE  /\ RowOf(t, id) \in Row(t.columns) /\ RowOf(t, id).id = id
         /\ RowOf(t, id).cells \in [t.columns -> Nat]
<1> DEFINE i == CHOOSE i \in DOMAIN t.rows : t.rows[i].id = id
<1>1. i \in DOMAIN t.rows /\ t.rows[i].id = id
  BY DEF Ids
<1> HIDE DEF i
<1> QED
  BY <1>1, TableShape DEF RowOf, i

\* A sequence over D is one over every larger set.
LEMMA Widened ==
  ASSUME NEW D, NEW E, D \subseteq E, NEW list \in Seq(D)
  PROVE  list \in Seq(E)
<1>1. Len(list) \in Nat /\ list \in [1 .. Len(list) -> D]
  BY LenProperties
<1>2. list \in [1 .. Len(list) -> E]
  BY <1>1
<1> QED
  BY <1>1, <1>2, SeqDef

\* What holds of two sequences' elements holds of their concatenation's.
LEMMA Concatenated ==
  ASSUME NEW D, NEW a \in Seq(D), NEW b \in Seq(D)
  PROVE  a \o b \in Seq(D) /\ Range(a \o b) = Range(a) \cup Range(b)
BY ConcatProperties, RangeConcatenation

\* The records of a surviving row are those of its cells, its place and its columns.
LEMMA RowDiffListed ==
  ASSUME NEW before, IsTable(before), before.columns \subseteq Columns,
         NEW after, IsTable(after), after.columns \subseteq Columns,
         NEW key, NEW id \in Ids(before) \cap Ids(after)
  PROVE  /\ RowDiff(before, after, key, id) \in Seq(Entries({key}, {id}))
         /\ Range(RowDiff(before, after, key, id)) = RowEntries(before, after, key, id)
<1> DEFINE D == Entries({key}, {id})
<1>1. PICK was : was = RowOf(before, id).cells
  OBVIOUS
<1>2. PICK is : is = RowOf(after, id).cells
  OBVIOUS
<1>3. was \in [before.columns -> Nat] /\ is \in [after.columns -> Nat]
  BY <1>1, <1>2, RowFound
<1> DEFINE A == {c \in before.columns \cap after.columns : was[c] # is[c]}
           B == before.columns \ after.columns
           C == after.columns \ before.columns
<1>4. \A S \in {A, B, C} : S \in SUBSET Nat /\ IsFiniteSet(S)
  <2>1. \A S \in {A, B, C} : S \in SUBSET Columns
    OBVIOUS
  <2> QED
    BY <2>1, BoundsAssumption, FS_Subset
<1>5. \A c \in Columns : c \in Nat
  BY BoundsAssumption
<1> DEFINE edit == [c \in A |-> Change("cell_changed", key, id, c, was[c], is[c])]
           drop == [c \in B |-> Change("column_deleted", key, id, c, was[c], NoValue)]
           gain == [c \in C |-> Change("column_added", key, id, c, NoValue, is[c])]
           edits == [i \in DOMAIN Sorted(A) |-> edit[Sorted(A)[i]]]
           drops == [i \in DOMAIN Sorted(B) |-> drop[Sorted(B)[i]]]
           gains == [i \in DOMAIN Sorted(C) |-> gain[Sorted(C)[i]]]
           move == IF Position(before, id) # Position(after, id)
                     THEN <<Change("row_reordered", key, id, 0, NoValue, NoValue)>> ELSE <<>>
<1>6. Within(edit, A, D)
  BY <1>3 DEF Within, Entries, Change, Contents, Kinds
<1>7. Within(drop, B, D)
  BY <1>3 DEF Within, Entries, Change, Contents, Kinds
<1>8. Within(gain, C, D)
  BY <1>3 DEF Within, Entries, Change, Contents, Kinds
<1>9. move \in Seq(D) /\ Range(move) = Shifted(before, after, key, id)
  <2>1. Change("row_reordered", key, id, 0, NoValue, NoValue) \in D
    BY DEF Entries, Change, Contents, Kinds
  <2> HIDE DEF D
  <2>2. CASE Position(before, id) # Position(after, id)
    BY <2>1, <2>2 DEF Range, Shifted
  <2>3. CASE Position(before, id) = Position(after, id)
    BY <2>3 DEF Range, Shifted
  <2> QED
    BY <2>2, <2>3
<1>10. /\ {edit[c] : c \in A} = Edited(before, after, key, id)
       /\ {drop[c] : c \in B} = Dropped(before, after, key, id)
       /\ {gain[c] : c \in C} = Gained(before, after, key, id)
  BY <1>1, <1>2 DEF Edited, Dropped, Gained
<1>11. /\ \A i \in DOMAIN Sorted(A) : Sorted(A)[i] \in A
       /\ \A i \in DOMAIN Sorted(B) : Sorted(B)[i] \in B
       /\ \A i \in DOMAIN Sorted(C) : Sorted(C)[i] \in C
  <2>1. \A S \in {A, B, C} : \A i \in DOMAIN Sorted(S) : Sorted(S)[i] \in S
    <3>1. SUFFICES ASSUME NEW S \in {A, B, C} PROVE \A i \in DOMAIN Sorted(S) : Sorted(S)[i] \in S
      OBVIOUS
    <3>2. Sorted(S) \in [1 .. Cardinality(S) -> S]
      <4>1. S \in SUBSET Int /\ IsFiniteSet(S)
        BY <1>4
      <4> QED
        BY <4>1, SortedLists
    <3> QED
      BY <3>2
  <2> HIDE DEF A, B, C
  <2> QED
    BY <2>1
<1>12. RowDiff(before, after, key, id) = edits \o move \o drops \o gains
  <2>1. /\ edits = Each(A, LAMBDA c : Change("cell_changed", key, id, c, was[c], is[c]))
        /\ drops = Each(B, LAMBDA c : Change("column_deleted", key, id, c, was[c], NoValue))
        /\ gains = Each(C, LAMBDA c : Change("column_added", key, id, c, NoValue, is[c]))
    <3> HIDE DEF A, B, C
    <3> QED
      BY <1>11 DEF Each
  <2> HIDE DEF edits, drops, gains
  <2> QED
    BY <1>1, <1>2, <2>1 DEF RowDiff
<1> HIDE DEF A, B, C, D, edit, drop, gain
<1>13. /\ edits \in Seq(D) /\ Range(edits) = Edited(before, after, key, id)
       /\ drops \in Seq(D) /\ Range(drops) = Dropped(before, after, key, id)
       /\ gains \in Seq(D) /\ Range(gains) = Gained(before, after, key, id)
  <2>0. /\ A \in SUBSET Nat /\ IsFiniteSet(A) /\ B \in SUBSET Nat /\ IsFiniteSet(B)
        /\ C \in SUBSET Nat /\ IsFiniteSet(C)
    BY <1>4
  <2>1. Listing(edits, A, edit) /\ Listing(drops, B, drop) /\ Listing(gains, C, gain)
    BY DEF Listing
  <2> HIDE DEF edits, drops, gains
  <2>2. edits \in Seq(D) /\ Range(edits) = {edit[c] : c \in A}
    BY <1>6, <2>0, <2>1, EachInOrder
  <2>3. drops \in Seq(D) /\ Range(drops) = {drop[c] : c \in B}
    BY <1>7, <2>0, <2>1, EachInOrder
  <2>4. gains \in Seq(D) /\ Range(gains) = {gain[c] : c \in C}
    BY <1>8, <2>0, <2>1, EachInOrder
  <2> QED
    BY <1>10, <2>2, <2>3, <2>4
<1> HIDE DEF edits, drops, gains, move
<1>14. edits \o move \in Seq(D) /\ Range(edits \o move) = Range(edits) \cup Range(move)
  BY <1>9, <1>13, Concatenated
<1>15. PICK front : front = edits \o move
  OBVIOUS
<1>16. /\ front \o drops \in Seq(D)
       /\ Range(front \o drops) = Range(edits) \cup Range(move) \cup Range(drops)
  <2>1. front \in Seq(D) /\ Range(front) = Range(edits) \cup Range(move)
    BY <1>14, <1>15
  <2> QED
    BY <1>13, <2>1, Concatenated
<1>17. PICK middle : middle = front \o drops
  OBVIOUS
<1>18. /\ middle \o gains \in Seq(D)
       /\ Range(middle \o gains) =
            Range(edits) \cup Range(move) \cup Range(drops) \cup Range(gains)
  <2>1. /\ middle \in Seq(D)
        /\ Range(middle) = Range(edits) \cup Range(move) \cup Range(drops)
    BY <1>16, <1>17
  <2> QED
    BY <1>13, <2>1, Concatenated
<1>19. RowDiff(before, after, key, id) = middle \o gains
  BY <1>12, <1>15, <1>17
<1> QED
  BY <1>9, <1>13, <1>18, <1>19 DEF RowEntries, D

\* What becomes of a table, as a set of entries.
Deleted(before, after, key) ==
  {Change("row_deleted", key, id, 0, RowOf(before, id).cells, NoValue) :
     id \in Ids(before) \ Ids(after)}

Inserted(before, after, key) ==
  {Change("row_added", key, id, 0, NoValue, RowOf(after, id).cells) :
     id \in Ids(after) \ Ids(before)}

Revised(before, after, key) ==
  UNION {RowEntries(before, after, key, id) : id \in Ids(before) \cap Ids(after)}

\* _capture_diff lists the deleted rows, the added rows, and the changes of the others.
LEMMA DiffListed ==
  ASSUME NEW before, IsTable(before), before.columns \subseteq Columns,
         NEW after, IsTable(after), after.columns \subseteq Columns, NEW key
  PROVE  /\ Diff(before, after, key) \in Seq(Entries({key}, Ids(before) \cup Ids(after)))
         /\ Range(Diff(before, after, key)) =
              Deleted(before, after, key) \cup Inserted(before, after, key)
                \cup Revised(before, after, key)
<1> DEFINE D == Entries({key}, Ids(before) \cup Ids(after))
           A == Ids(before) \ Ids(after)
           B == Ids(after) \ Ids(before)
           C == Ids(before) \cap Ids(after)
           delete == [id \in A |->
                       Change("row_deleted", key, id, 0, RowOf(before, id).cells, NoValue)]
           insert == [id \in B |-> Change("row_added", key, id, 0, NoValue, RowOf(after, id).cells)]
           revise == [id \in C |-> RowDiff(before, after, key, id)]
<1>1. /\ A \in SUBSET Nat /\ IsFiniteSet(A) /\ B \in SUBSET Nat /\ IsFiniteSet(B)
      /\ C \in SUBSET Nat /\ IsFiniteSet(C)
  BY IdsFinite, FS_Subset
<1>2. Within(delete, A, D)
  BY RowFound DEF Within, Entries, Change, Contents, Kinds
<1>3. Within(insert, B, D)
  BY RowFound DEF Within, Entries, Change, Contents, Kinds
<1>4. \A id \in C : /\ revise[id] \in Seq(D)
                    /\ Range(revise[id]) = RowEntries(before, after, key, id)
  <2>1. SUFFICES ASSUME NEW id \in C
        PROVE /\ RowDiff(before, after, key, id) \in Seq(D)
              /\ Range(RowDiff(before, after, key, id)) = RowEntries(before, after, key, id)
    OBVIOUS
  <2>2. /\ RowDiff(before, after, key, id) \in Seq(Entries({key}, {id}))
        /\ Range(RowDiff(before, after, key, id)) = RowEntries(before, after, key, id)
    BY RowDiffListed
  <2>3. Entries({key}, {id}) \subseteq D
    BY DEF Entries
  <2> HIDE DEF D
  <2> QED
    BY <2>2, <2>3, Widened
<1>5. PICK deletes : Listing(deletes, A, delete)
  BY DEF Listing
<1>6. PICK inserts : Listing(inserts, B, insert)
  BY DEF Listing
<1>7. PICK revisions : Listing(revisions, C, revise)
  BY DEF Listing
<1>8. /\ \A i \in DOMAIN Sorted(A) : Sorted(A)[i] \in A
      /\ \A i \in DOMAIN Sorted(B) : Sorted(B)[i] \in B
      /\ \A i \in DOMAIN Sorted(C) : Sorted(C)[i] \in C
  <2> HIDE DEF A, B, C
  <2>1. ASSUME NEW S \in SUBSET Nat, IsFiniteSet(S)
        PROVE  \A i \in DOMAIN Sorted(S) : Sorted(S)[i] \in S
    <3>1. Sorted(S) \in [1 .. Cardinality(S) -> S]
      BY <2>1, S \in SUBSET Int, SortedLists
    <3> QED
      BY <3>1
  <2> QED
    BY <1>1, <2>1
<1>9. Diff(before, after, key) = deletes \o inserts \o FlattenSeq(revisions)
  <2>1. /\ deletes = Each(A, LAMBDA id :
                             Change("row_deleted", key, id, 0, RowOf(before, id).cells, NoValue))
        /\ inserts = Each(B, LAMBDA id :
                             Change("row_added", key, id, 0, NoValue, RowOf(after, id).cells))
        /\ revisions = Each(C, LAMBDA id : RowDiff(before, after, key, id))
    <3> HIDE DEF A, B, C
    <3> QED
      BY <1>5, <1>6, <1>7, <1>8 DEF Each, Listing
  <2> QED
    BY <2>1 DEF Diff
<1>10. /\ {delete[id] : id \in A} = Deleted(before, after, key)
       /\ {insert[id] : id \in B} = Inserted(before, after, key)
  BY DEF Deleted, Inserted
<1> HIDE DEF A, B, C, D, delete, insert, revise
<1>11. deletes \in Seq(D) /\ Range(deletes) = Deleted(before, after, key)
  <2>1. deletes \in Seq(D) /\ Range(deletes) = {delete[m] : m \in A}
    BY <1>1, <1>2, <1>5, EachInOrder
  <2> QED
    BY <1>10, <2>1
<1>12. inserts \in Seq(D) /\ Range(inserts) = Inserted(before, after, key)
  <2>1. inserts \in Seq(D) /\ Range(inserts) = {insert[m] : m \in B}
    BY <1>1, <1>3, <1>6, EachInOrder
  <2> QED
    BY <1>10, <2>1
<1>13. /\ FlattenSeq(revisions) \in Seq(D)
       /\ Range(FlattenSeq(revisions)) = Revised(before, after, key)
  <2>2. revisions \in Seq(Seq(D)) /\ Range(revisions) = {revise[m] : m \in C}
    <3>1. PICK E : E = Seq(D)
      OBVIOUS
    <3>2. revisions \in Seq(E) /\ Range(revisions) = {revise[m] : m \in C}
      <4>1. Within(revise, C, E)
        BY <1>4, <3>1 DEF Within
      <4> QED
        BY <1>1, <1>7, <4>1, EachInOrder
    <3> QED
      BY <3>1, <3>2
  <2>3. /\ FlattenSeq(revisions) \in Seq(D)
        /\ Range(FlattenSeq(revisions)) = UNION {Range(revisions[i]) : i \in 1 .. Len(revisions)}
    BY <2>2, Flattened
  <2>4. DOMAIN revisions = 1 .. Len(revisions)
    BY <2>2, LenProperties
  <2>5. UNION {Range(revisions[i]) : i \in 1 .. Len(revisions)} =
          UNION {Range(list) : list \in Range(revisions)}
    BY <2>4 DEF Range
  <2>6. UNION {Range(list) : list \in Range(revisions)} =
          UNION {Range(revise[m]) : m \in C}
    BY <2>2
  <2>7. UNION {Range(revise[m]) : m \in C} = Revised(before, after, key)
    BY <1>4 DEF Revised, C
  <2> QED
    BY <2>3, <2>5, <2>6, <2>7
<1>14. PICK front : front = deletes \o inserts
  OBVIOUS
<1>15. /\ front \in Seq(D)
       /\ Range(front) = Deleted(before, after, key) \cup Inserted(before, after, key)
  BY <1>11, <1>12, <1>14, Concatenated
<1>16. PICK back : back = FlattenSeq(revisions)
  OBVIOUS
<1>17. back \in Seq(D) /\ Range(back) = Revised(before, after, key)
  BY <1>13, <1>16
<1>18. front \o back \in Seq(D) /\ Range(front \o back) = Range(front) \cup Range(back)
  BY <1>15, <1>17, Concatenated
<1> QED
  BY <1>9, <1>14, <1>15, <1>16, <1>17, <1>18 DEF D

TableCell(t, id, column) ==
  IF id \in Ids(t) /\ column \in t.columns THEN <<RowOf(t, id).cells[column]>> ELSE NoValue

\* The entries about a cell say what it is afterwards, and there is one if it is different.
Tells(log, key, before, after, id, column) ==
  /\ \A r \in Range(log) : About(r, key, id, column) => Says(r, column) = after
  /\ (\E r \in Range(log) : About(r, key, id, column)) \/ before = after

\* For every cell of a table, _capture_diff tells what the step made of it, or the step left it.
LEMMA DiffTells ==
  ASSUME NEW before, IsTable(before), before.columns \subseteq Columns,
         NEW after, IsTable(after), after.columns \subseteq Columns, NEW key,
         NEW id, NEW column \in Columns
  PROVE  Tells(Diff(before, after, key), key,
               TableCell(before, id, column), TableCell(after, id, column), id, column)
<1> DEFINE log == Range(Diff(before, after, key))
<1>1. log = Deleted(before, after, key) \cup Inserted(before, after, key)
              \cup Revised(before, after, key)
  BY DiffListed
<1> HIDE DEF log
<1>2. ASSUME NEW r \in log, About(r, key, id, column)
      PROVE  Says(r, column) = TableCell(after, id, column)
  <2>1. CASE r \in Deleted(before, after, key)
    BY <1>2, <2>1 DEF Deleted, About, Says, TableCell, Change
  <2>2. CASE r \in Inserted(before, after, key)
    <3>1. PICK m \in Ids(after) : r = Change("row_added", key, m, 0, NoValue, RowOf(after, m).cells)
      BY <2>2 DEF Inserted
    <3>2. m = id
      BY <1>2, <3>1 DEF About, Change
    <3>3. DOMAIN RowOf(after, id).cells = after.columns
      BY <3>1, <3>2, RowFound
    <3> QED
      BY <3>1, <3>2, <3>3 DEF Says, TableCell, Change
  <2>3. CASE r \in Revised(before, after, key)
    <3>1. PICK m \in Ids(before) \cap Ids(after) : r \in RowEntries(before, after, key, m)
      BY <2>3 DEF Revised
    <3>2. CASE r \in Edited(before, after, key, m)
      BY <1>2, <3>1, <3>2 DEF Edited, About, Says, TableCell, Change
    <3>3. CASE r \in Shifted(before, after, key, m)
      BY <1>2, <3>1, <3>3 DEF Shifted, About, Change
    <3>4. CASE r \in Dropped(before, after, key, m)
      BY <1>2, <3>1, <3>4 DEF Dropped, About, Says, TableCell, Change
    <3>5. CASE r \in Gained(before, after, key, m)
      BY <1>2, <3>1, <3>5 DEF Gained, About, Says, TableCell, Change
    <3> QED
      BY <3>1, <3>2, <3>3, <3>4, <3>5 DEF RowEntries
  <2> QED
    BY <1>1, <2>1, <2>2, <2>3
<1>3. ASSUME TableCell(before, id, column) # TableCell(after, id, column)
      PROVE  \E r \in log : About(r, key, id, column)
  <2>1. CASE id \in Ids(before) \ Ids(after)
    <3> DEFINE r == Change("row_deleted", key, id, 0, RowOf(before, id).cells, NoValue)
    <3>1. r \in Deleted(before, after, key)
      BY <2>1 DEF Deleted
    <3>2. About(r, key, id, column)
      BY DEF About, Change
    <3> QED
      BY <1>1, <3>1, <3>2
  <2>2. CASE id \in Ids(after) \ Ids(before)
    <3> DEFINE r == Change("row_added", key, id, 0, NoValue, RowOf(after, id).cells)
    <3>1. r \in Inserted(before, after, key)
      BY <2>2 DEF Inserted
    <3>2. About(r, key, id, column)
      BY DEF About, Change
    <3> QED
      BY <1>1, <3>1, <3>2
  <2>3. CASE id \in Ids(before) \cap Ids(after)
    <3>1. RowEntries(before, after, key, id) \subseteq log
      BY <1>1, <2>3 DEF Revised
    <3>2. CASE column \in before.columns \cap after.columns
      <4> DEFINE r == Change("cell_changed", key, id, column, RowOf(before, id).cells[column],
                             RowOf(after, id).cells[column])
      <4>1. RowOf(before, id).cells[column] # RowOf(after, id).cells[column]
        BY <1>3, <2>3, <3>2 DEF TableCell
      <4>2. r \in Edited(before, after, key, id)
        BY <3>2, <4>1 DEF Edited
      <4>3. About(r, key, id, column)
        BY DEF About, Change
      <4> QED
        BY <3>1, <4>2, <4>3 DEF RowEntries
    <3>3. CASE column \in before.columns \ after.columns
      <4> DEFINE r == Change("column_deleted", key, id, column,
                             RowOf(before, id).cells[column], NoValue)
      <4>1. r \in Dropped(before, after, key, id)
        BY <3>3 DEF Dropped
      <4>2. About(r, key, id, column)
        BY DEF About, Change
      <4> QED
        BY <3>1, <4>1, <4>2 DEF RowEntries
    <3>4. CASE column \in after.columns \ before.columns
      <4> DEFINE r == Change("column_added", key, id, column, NoValue,
                             RowOf(after, id).cells[column])
      <4>1. r \in Gained(before, after, key, id)
        BY <3>4 DEF Gained
      <4>2. About(r, key, id, column)
        BY DEF About, Change
      <4> QED
        BY <3>1, <4>1, <4>2 DEF RowEntries
    <3>5. CASE column \notin before.columns /\ column \notin after.columns
      BY <1>3, <3>5 DEF TableCell
    <3> QED
      BY <3>2, <3>3, <3>4, <3>5
  <2>4. CASE id \notin Ids(before) /\ id \notin Ids(after)
    BY <1>3, <2>4 DEF TableCell
  <2> QED
    BY <2>1, <2>2, <2>3, <2>4
<1> QED
  BY <1>2, <1>3 DEF Tells, log

-----------------------------------------------------------------------------
(* Tables a step makes beside its result *)

ExtraKeys == {"duplicates", "category", "summary", "issues"} \X Nat

Extras == [key : ExtraKeys, table : AnyTable]

\* A table without its rows.
Emptied(t) == [t EXCEPT !.rows = <<>>]

\* A table without its rows.
LEMMA EmptiedShape ==
  ASSUME NEW t, IsTable(t)
  PROVE  /\ IsTable(Emptied(t)) /\ Emptied(t).columns = t.columns
         /\ Ids(Emptied(t)) = {} /\ Emptied(t).rows = <<>>
<1>1. Emptied(t) = [columns |-> t.columns, texts |-> t.texts, rows |-> <<>>]
  BY DEF Emptied, IsTable
<1>2. <<>> \in Seq(Row(t.columns)) /\ DOMAIN <<>> = {}
  BY EmptySeq
<1> QED
  BY <1>1, <1>2 DEF IsTable, Ids

\* The log entries of a table that was not there.
Fresh(t, key) == Diff(Emptied(t), t, key)

\* The records of a new table tell each of its cells.
LEMMA FreshListed ==
  ASSUME NEW t, IsTable(t), t.columns \subseteq Columns, NEW key
  PROVE  /\ Fresh(t, key) \in Seq(Entries({key}, Ids(t)))
         /\ \A id \in Nat, column \in Columns :
              Tells(Fresh(t, key), key, NoValue, TableCell(t, id, column), id, column)
<1>1. /\ IsTable(Emptied(t)) /\ Emptied(t).columns = t.columns
      /\ Ids(Emptied(t)) = {}
  BY EmptiedShape
<1>2. Fresh(t, key) \in Seq(Entries({key}, Ids(t)))
  <2>1. Diff(Emptied(t), t, key) \in Seq(Entries({key}, Ids(Emptied(t)) \cup Ids(t)))
    BY <1>1, DiffListed
  <2>2. Ids(Emptied(t)) \cup Ids(t) = Ids(t)
    BY <1>1
  <2> QED
    BY <2>1, <2>2 DEF Fresh
<1>3. ASSUME NEW id \in Nat, NEW column \in Columns
      PROVE  Tells(Fresh(t, key), key, NoValue, TableCell(t, id, column), id, column)
  <2>1. TableCell(Emptied(t), id, column) = NoValue
    BY <1>1 DEF TableCell
  <2>2. Tells(Diff(Emptied(t), t, key), key,
              TableCell(Emptied(t), id, column), TableCell(t, id, column), id, column)
    BY <1>1, DiffTells
  <2> QED
    BY <2>1, <2>2 DEF Fresh
<1> QED
  BY <1>2, <1>3

\* One table more.
Allocate(acc, extra) ==
  LET t == WithRowIds(extra.table, acc.next)
  IN  [tables |-> Beside(acc.tables, [key \in {extra.key} |-> t]),
       next |-> acc.next + Len(t.rows),
       log |-> acc.log \o Fresh(t, extra.key)]

Grown(aux, next, f) ==
  /\ f[0] = [tables |-> <<>>, next |-> next, log |-> <<>>]
  /\ \A n \in 1 .. Len(aux) : f[n] = Allocate(f[n - 1], aux[n])

\* Tables of extra keys.
ExtraTables == UNION {[keys -> AnyTable] : keys \in SUBSET ExtraKeys}

\* Making one table more, written out.
LEMMA AllocateShape ==
  ASSUME NEW ts \in ExtraTables, NEW next \in Nat, NEW log \in Seq(Entries(ExtraKeys, Nat)),
         NEW extra \in Extras
  PROVE  LET acc == Allocate([tables |-> ts, next |-> next, log |-> log], extra)
             t == WithRowIds(extra.table, next)
         IN  /\ acc = [tables |-> Beside(ts, [key \in {extra.key} |-> t]),
                       next |-> next + Len(t.rows),
                       log |-> log \o Fresh(t, extra.key)]
             /\ acc \in [tables : ExtraTables, next : Nat, log : Seq(Entries(ExtraKeys, Nat))]
<1>1. IsTable(extra.table) /\ extra.table.columns \in SUBSET Columns /\ extra.key \in ExtraKeys
  BY AnyTableIs DEF Extras
<1>2. PICK t : t = WithRowIds(extra.table, next)
  OBVIOUS
<1>3. IsTable(t) /\ t.columns \subseteq Columns /\ Len(t.rows) \in Nat
  BY <1>1, <1>2, WithRowIdsShape, TableShape
<1>4. t \in AnyTable
  BY <1>3, AnyTableIs
<1>5. PICK keys \in SUBSET ExtraKeys : ts \in [keys -> AnyTable]
  BY DEF ExtraTables
<1>6. Beside(ts, [key \in {extra.key} |-> t]) \in [keys \cup {extra.key} -> AnyTable]
  <2>1. Beside(ts, [key \in {extra.key} |-> t]) =
          [k \in keys \cup {extra.key} |-> IF k \in keys THEN ts[k] ELSE t]
    BY <1>5 DEF Beside
  <2> QED
    BY <1>4, <1>5, <2>1
<1>7. Beside(ts, [key \in {extra.key} |-> t]) \in ExtraTables
  BY <1>1, <1>5, <1>6 DEF ExtraTables
<1>8. Fresh(t, extra.key) \in Seq(Entries(ExtraKeys, Nat))
  <2>1. Fresh(t, extra.key) \in Seq(Entries({extra.key}, Ids(t)))
    BY <1>3, FreshListed
  <2>2. Entries({extra.key}, Ids(t)) \subseteq Entries(ExtraKeys, Nat)
    <3>1. Ids(t) \subseteq Nat
      BY <1>3, IdsFinite
    <3> QED
      BY <1>1, <3>1 DEF Entries
  <2> QED
    BY <2>1, <2>2, Widened
<1>9. log \o Fresh(t, extra.key) \in Seq(Entries(ExtraKeys, Nat))
  BY <1>8, Concatenated
<1>10. Allocate([tables |-> ts, next |-> next, log |-> log], extra) =
         [tables |-> Beside(ts, [key \in {extra.key} |-> t]), next |-> next + Len(t.rows),
          log |-> log \o Fresh(t, extra.key)]
  BY <1>2 DEF Allocate
<1>11. next + Len(t.rows) \in Nat
  BY <1>3
<1>12. PICK joined, listed :
         /\ joined = Beside(ts, [key \in {extra.key} |-> t])
         /\ listed = log \o Fresh(t, extra.key)
  OBVIOUS
<1>13. [tables |-> joined, next |-> next + Len(t.rows), log |-> listed] \in
         [tables : ExtraTables, next : Nat, log : Seq(Entries(ExtraKeys, Nat))]
  BY <1>7, <1>9, <1>11, <1>12
<1> QED
  BY <1>2, <1>10, <1>12, <1>13

\* The new tables of a step are made one after the other.
LEMMA AllocationsGrow ==
  ASSUME NEW aux \in Seq(Extras), NEW next \in Nat
  PROVE  Grown(aux, next, Allocations(aux, next))
<1>1. PICK N \in Nat : N = Len(aux)
  BY LenProperties
<1> DEFINE D == [tables : ExtraTables, next : Nat, log : Seq(Entries(ExtraKeys, Nat))]
           base == [tables |-> <<>>, next |-> next, log |-> <<>>]
           step == [p \in D \X (1 .. N) |-> Allocate(p[1], aux[p[2]])]
           Runs(f) == f = [n \in 0 .. Len(aux) |->
                             IF n = 0 THEN base ELSE Allocate(f[n - 1], aux[n])]
<1>2. base \in D
  <2>1. <<>> \in ExtraTables
    <3>1. <<>> \in [{} -> AnyTable]
      OBVIOUS
    <3> QED
      BY <3>1 DEF ExtraTables
  <2>2. <<>> \in Seq(Entries(ExtraKeys, Nat))
    BY EmptySeq
  <2> QED
    BY <2>1, <2>2
<1>3. ASSUME NEW acc \in D, NEW n \in 1 .. N PROVE Allocate(acc, aux[n]) \in D
  <2>1. PICK ts \in ExtraTables, m \in Nat, log \in Seq(Entries(ExtraKeys, Nat)) :
          acc = [tables |-> ts, next |-> m, log |-> log]
    BY <1>3
  <2>2. aux[n] \in Extras
    BY <1>1, ElementOfSeq
  <2> HIDE DEF D
  <2>3. Allocate([tables |-> ts, next |-> m, log |-> log], aux[n]) \in D
    BY <2>2, AllocateShape DEF D
  <2> QED
    BY <2>1, <2>3
<1> HIDE DEF D, base
<1>4. /\ step \in [D \X (1 .. N) -> D]
      /\ \A acc \in D, n \in 1 .. N : step[<<acc, n>>] = Allocate(acc, aux[n])
  BY <1>3
<1> HIDE DEF step
<1>5. PICK f : Repeats(f, N, D, base, step)
  BY <1>2, <1>4, Repeating
<1>6. Runs(f)
  <2>1. f = [n \in 0 .. N |-> f[n]]
    BY <1>5 DEF Repeats
  <2>2. ASSUME NEW n \in 0 .. N PROVE f[n] = IF n = 0 THEN base ELSE Allocate(f[n - 1], aux[n])
    <3>1. CASE n = 0
      BY <1>5, <3>1 DEF Repeats
    <3>2. CASE n # 0
      <4>1. n \in 1 .. N /\ n - 1 \in 0 .. N
        BY <3>2
      <4>2. f[n - 1] \in D /\ f[n] = step[<<f[n - 1], n>>]
        BY <1>5, <4>1 DEF Repeats
      <4> QED
        BY <1>4, <3>2, <4>1, <4>2
    <3> QED
      BY <3>1, <3>2
  <2> QED
    BY <1>1, <2>1, <2>2
<1>7. Allocations(aux, next) = CHOOSE g : Runs(g)
  BY DEF Allocations, base, Allocate, Fresh, Emptied
<1>8. Runs(Allocations(aux, next))
  <2> HIDE DEF Runs
  <2> QED
    BY <1>6, <1>7
<1>9. PICK g : g = Allocations(aux, next)
  OBVIOUS
<1>10. g = [n \in 0 .. N |-> IF n = 0 THEN base ELSE Allocate(g[n - 1], aux[n])]
  BY <1>1, <1>8, <1>9
<1>11. g[0] = base /\ \A n \in 1 .. N : g[n] = Allocate(g[n - 1], aux[n])
  BY <1>10
<1> QED
  BY <1>1, <1>9, <1>11 DEF Grown, base

AuxKeys(aux, n) == {aux[i].key : i \in 1 .. n}

\* The tables of ts have identities from first up to next, and log says what they hold.
New(ts, first, next, log) ==
  /\ \A key \in DOMAIN ts : Holds(ts[key], first .. next - 1) /\ Distinct(ts[key])
  /\ log \in Seq(Entries(DOMAIN ts, first .. next - 1))
  /\ \A key \in DOMAIN ts, id \in Nat, column \in Columns :
       Tells(log, key, NoValue, TableCell(ts[key], id, column), id, column)

\* What acc is after n tables were made.
Made(acc, n, aux, first) ==
  /\ acc = [tables |-> acc.tables, next |-> acc.next, log |-> acc.log]
  /\ acc.next \in Nat /\ first <= acc.next
  /\ acc.tables \in ExtraTables /\ DOMAIN acc.tables = AuxKeys(aux, n)
  /\ New(acc.tables, first, acc.next, acc.log)

OwnKeys(aux) == \A m, n \in 1 .. Len(aux) : aux[m].key = aux[n].key => m = n

\* A table made after others has identities of its own, and its records are of it alone.
LEMMA OneMore ==
  ASSUME NEW first \in Nat, NEW next \in Nat, first <= next,
         NEW ts, NEW log, New(ts, first, next, log),
         NEW t, IsTable(t), t.columns \subseteq Columns, Distinct(t),
         NEW last \in Nat, next <= last, From(t, t.columns, next .. last - 1),
         NEW key, key \notin DOMAIN ts
  PROVE  New(Beside(ts, [k \in {key} |-> t]), first, last, log \o Fresh(t, key))
<1>1. PICK us : us = Beside(ts, [k \in {key} |-> t])
  OBVIOUS
<1>2. /\ DOMAIN us = DOMAIN ts \cup {key} /\ us[key] = t
      /\ \A k \in DOMAIN ts : us[k] = ts[k]
  BY <1>1 DEF Beside
<1>3. Holds(t, first .. last - 1)
  BY DEF Holds, From
<1>4. ASSUME NEW k \in DOMAIN ts PROVE Holds(ts[k], first .. last - 1) /\ Distinct(ts[k])
  <2>1. Holds(ts[k], first .. next - 1) /\ Distinct(ts[k])
    BY DEF New
  <2>2. first .. next - 1 \subseteq first .. last - 1
    OBVIOUS
  <2> QED
    BY <2>1, <2>2 DEF Holds, From
<1> DEFINE more == Fresh(t, key)
           E == Entries(DOMAIN us, first .. last - 1)
<1>5. log \in Seq(Entries(DOMAIN ts, first .. next - 1))
  BY DEF New
<1>6. more \in Seq(Entries({key}, Ids(t)))
  BY FreshListed
<1>7. log \in Seq(E)
  <2>1. Entries(DOMAIN ts, first .. next - 1) \subseteq E
    BY <1>2 DEF Entries
  <2> QED
    BY <1>5, <2>1, Widened
<1>8. more \in Seq(E)
  <2>1. Ids(t) \subseteq first .. last - 1
    BY <1>3 DEF Holds, From, Ids
  <2>2. Entries({key}, Ids(t)) \subseteq E
    BY <1>2, <2>1 DEF Entries
  <2> HIDE DEF E, more
  <2> QED
    BY <1>6, <2>2, Widened DEF more
<1>9. /\ \A r \in Range(log) : r.key \in DOMAIN ts
      /\ \A r \in Range(more) : r.key = key
  <2>1. \A n \in 1 .. Len(log) : log[n].key \in DOMAIN ts
    BY <1>5, ElementOfSeq DEF Entries
  <2>2. DOMAIN log = 1 .. Len(log)
    BY <1>5, LenProperties
  <2>3. \A n \in 1 .. Len(more) : more[n].key = key
    <3> HIDE DEF more
    <3> QED
      BY <1>6, ElementOfSeq DEF Entries
  <2>4. DOMAIN more = 1 .. Len(more)
    <3> HIDE DEF more
    <3> QED
      BY <1>6, LenProperties
  <2> HIDE DEF more
  <2> QED
    BY <2>1, <2>2, <2>3, <2>4 DEF Range
<1>10. PICK all : all = log \o more
  OBVIOUS
<1>11. all \in Seq(E) /\ Range(all) = Range(log) \cup Range(more)
  <2> HIDE DEF E, more
  <2> QED
    BY <1>7, <1>8, <1>10, Concatenated
<1>12. ASSUME NEW k \in DOMAIN us, NEW id \in Nat, NEW column \in Columns
       PROVE  Tells(all, k, NoValue, TableCell(us[k], id, column), id, column)
  <2>1. CASE k = key
    <3>1. Tells(more, key, NoValue, TableCell(t, id, column), id, column)
      BY FreshListed
    <3>2. \A r \in Range(log) : ~About(r, key, id, column)
      BY <1>9 DEF About
    <3> HIDE DEF more
    <3> QED
      BY <1>2, <1>11, <2>1, <3>1, <3>2 DEF Tells
  <2>2. CASE k # key
    <3>1. k \in DOMAIN ts /\ us[k] = ts[k]
      BY <1>2, <2>2
    <3>2. Tells(log, k, NoValue, TableCell(ts[k], id, column), id, column)
      BY <3>1 DEF New
    <3>3. \A r \in Range(more) : ~About(r, k, id, column)
      BY <1>9, <2>2 DEF About
    <3> HIDE DEF more
    <3> QED
      BY <1>11, <3>1, <3>2, <3>3 DEF Tells
  <2> QED
    BY <2>1, <2>2
<1>13. \A k \in DOMAIN us : Holds(us[k], first .. last - 1) /\ Distinct(us[k])
  BY <1>2, <1>3, <1>4
<1>14. New(us, first, last, all)
  BY <1>11, <1>12, <1>13 DEF New
<1> QED
  BY <1>1, <1>10, <1>14

\* The new tables of a step have distinct identities never used before, and the log tells each cell.
LEMMA AllocatedSound ==
  ASSUME NEW aux \in Seq(Extras), OwnKeys(aux), NEW first \in Nat
  PROVE  LET made == Allocated(aux, first)
         IN  /\ made.next \in Nat /\ first <= made.next
             /\ DOMAIN made.tables = AuxKeys(aux, Len(aux))
             /\ IsFiniteSet(DOMAIN made.tables)
             /\ New(made.tables, first, made.next, made.log)
<1>1. PICK f : f = Allocations(aux, first)
  OBVIOUS
<1>2. Grown(aux, first, f)
  BY <1>1, AllocationsGrow
<1>3. PICK N \in Nat : N = Len(aux)
  BY LenProperties
<1> DEFINE Good == {n \in 0 .. N : Made(f[n], n, aux, first)}
<1>4. 0 \in Good
  <2>1. f[0] = [tables |-> <<>>, next |-> first, log |-> <<>>]
    BY <1>2 DEF Grown
  <2>2. <<>> \in Seq(Entries({}, first .. first - 1))
    BY EmptySeq
  <2>3. DOMAIN <<>> = {} /\ <<>> \in ExtraTables
    <3>1. <<>> \in [{} -> AnyTable]
      OBVIOUS
    <3> QED
      BY <3>1 DEF ExtraTables
  <2>4. New(<<>>, first, first, <<>>)
    BY <2>2, <2>3 DEF New
  <2>5. AuxKeys(aux, 0) = {}
    BY DEF AuxKeys
  <2>6. Made([tables |-> <<>>, next |-> first, log |-> <<>>], 0, aux, first)
    BY <2>3, <2>4, <2>5 DEF Made
  <2> QED
    BY <1>3, <2>1, <2>6
<1>5. ASSUME NEW n \in 1 .. N, n - 1 \in Good PROVE n \in Good
  <2>1. Made(f[n - 1], n - 1, aux, first)
    BY <1>5
  <2>2. PICK ts, m, log : f[n - 1] = [tables |-> ts, next |-> m, log |-> log]
    BY <2>1 DEF Made
  <2>3. /\ m \in Nat /\ first <= m /\ ts \in ExtraTables
        /\ DOMAIN ts = AuxKeys(aux, n - 1) /\ New(ts, first, m, log)
    <3>1. Made([tables |-> ts, next |-> m, log |-> log], n - 1, aux, first)
      BY <2>1, <2>2
    <3> QED
      BY <3>1 DEF Made
  <2>4. PICK extra \in Extras : extra = aux[n]
    BY <1>3, ElementOfSeq
  <2>5. PICK key : key = extra.key
    OBVIOUS
  <2>6. key \notin DOMAIN ts
    BY <1>3, <2>3, <2>4, <2>5 DEF AuxKeys, OwnKeys
  <2>7. IsTable(extra.table) /\ extra.table.columns \subseteq Columns /\ key \in ExtraKeys
    BY <2>5, AnyTableIs DEF Extras
  <2>8. PICK t : t = WithRowIds(extra.table, m)
    OBVIOUS
  <2>9. /\ IsTable(t) /\ t.columns \subseteq Columns /\ Len(t.rows) = Len(extra.table.rows)
        /\ Distinct(t) /\ From(t, t.columns, m .. m + Len(extra.table.rows) - 1)
    BY <2>3, <2>7, <2>8, WithRowIdsShape
  <2>10. PICK last : last = m + Len(t.rows)
    OBVIOUS
  <2>11. last \in Nat /\ m <= last
    <3>1. Len(t.rows) \in Nat
      BY <2>9, TableShape
    <3> QED
      BY <2>3, <2>10, <3>1
  <2>12. From(t, t.columns, m .. last - 1)
    <3>1. last = m + Len(extra.table.rows)
      BY <2>9, <2>10
    <3>2. m .. last - 1 = m .. m + Len(extra.table.rows) - 1
      <4>1. Len(extra.table.rows) \in Nat
        BY <2>7, TableShape
      <4> QED
        BY <2>3, <3>1, <4>1
    <3>3. From(t, t.columns, m .. m + Len(extra.table.rows) - 1)
      BY <2>9
    <3> QED
      BY <3>2, <3>3
  <2>13. New(Beside(ts, [k \in {key} |-> t]), first, last, log \o Fresh(t, key))
    BY <2>3, <2>6, <2>9, <2>11, <2>12, OneMore
  <2>14. ts \in ExtraTables /\ log \in Seq(Entries(ExtraKeys, Nat))
    <3>1. DOMAIN ts \subseteq ExtraKeys
      BY <2>3 DEF ExtraTables
    <3>2. Entries(DOMAIN ts, first .. m - 1) \subseteq Entries(ExtraKeys, Nat)
      BY <3>1 DEF Entries
    <3>3. log \in Seq(Entries(DOMAIN ts, first .. m - 1))
      BY <2>3 DEF New
    <3> QED
      BY <2>3, <3>2, <3>3, Widened
  <2>15. PICK us, all : us = Beside(ts, [k \in {key} |-> t]) /\ all = log \o Fresh(t, key)
    OBVIOUS
  <2>16. /\ f[n] = [tables |-> us, next |-> last, log |-> all]
         /\ us \in ExtraTables
    <3>1. f[n] = Allocate([tables |-> ts, next |-> m, log |-> log], extra)
      BY <1>2, <1>3, <2>2, <2>4 DEF Grown
    <3>0. last = m + Len(WithRowIds(extra.table, m).rows)
      BY <2>8, <2>10
    <3>2. /\ Allocate([tables |-> ts, next |-> m, log |-> log], extra) =
               [tables |-> us, next |-> last, log |-> all]
          /\ Allocate([tables |-> ts, next |-> m, log |-> log], extra)
               \in [tables : ExtraTables, next : Nat, log : Seq(Entries(ExtraKeys, Nat))]
      <4>1. LET acc == Allocate([tables |-> ts, next |-> m, log |-> log], extra)
            IN  /\ acc = [tables |-> Beside(ts, [k \in {extra.key} |-> WithRowIds(extra.table, m)]),
                          next |-> m + Len(WithRowIds(extra.table, m).rows),
                          log |-> log \o Fresh(WithRowIds(extra.table, m), extra.key)]
                /\ acc \in [tables : ExtraTables, next : Nat, log : Seq(Entries(ExtraKeys, Nat))]
        BY <2>3, <2>14, AllocateShape
      <4> QED
        BY <2>5, <2>8, <2>15, <3>0, <4>1
    <3> HIDE DEF ExtraTables
    <3>3. us \in ExtraTables
      BY <3>2
    <3> QED
      BY <3>1, <3>2, <3>3
  <2>17. DOMAIN us = AuxKeys(aux, n)
    <3>1. DOMAIN us = DOMAIN ts \cup {key}
      BY <2>15 DEF Beside
    <3>2. \A i : i \in 1 .. n <=> i \in 1 .. n - 1 \/ i = n
      OBVIOUS
    <3> QED
      BY <2>3, <2>4, <2>5, <3>1, <3>2 DEF AuxKeys
  <2>18. Made([tables |-> us, next |-> last, log |-> all], n, aux, first)
    BY <2>3, <2>11, <2>13, <2>15, <2>16, <2>17 DEF Made
  <2> QED
    BY <2>16, <2>18
<1>6. Made(f[N], N, aux, first)
  <2>1. \A n \in 1 .. N : n - 1 \in Good => n \in Good
    BY <1>5
  <2> HIDE DEF Good
  <2>2. \A n \in 0 .. N : n \in Good
    BY <1>4, <2>1, CountingUp
  <2>3. N \in Good
    BY <2>2
  <2> QED
    BY <2>3 DEF Good
<1>7. IsFiniteSet(AuxKeys(aux, Len(aux)))
  <2>1. IsFiniteSet(1 .. Len(aux))
    BY <1>3, FS_Interval
  <2>2. [i \in 1 .. Len(aux) |-> aux[i].key] \in Surjection(1 .. Len(aux), AuxKeys(aux, Len(aux)))
    BY DEF Surjection, AuxKeys
  <2> QED
    BY <2>1, <2>2, FS_Surjection
<1> QED
  BY <1>1, <1>3, <1>6, <1>7 DEF Allocated, Made

-----------------------------------------------------------------------------
(* The inductive invariant *)

\* Every table of the run has its own columns' cells and distinct identities, all of
\* them handed out.
Identities ==
  /\ nextId \in Nat \ {0}
  /\ Sound(original, nextId) /\ Sound(tables, nextId) /\ Sound(final, nextId)
  /\ DOMAIN original \subseteq DOMAIN tables
  /\ tables = [key \in DOMAIN tables |-> tables[key]]

\* The log is about the run's tables and identities, and within its limit.
Recorded ==
  /\ changes \in Seq(Entries(DOMAIN tables, 1 .. nextId - 1))
  /\ total \in Nat /\ Len(changes) <= MaxRecords /\ Len(changes) <= total

\* What the review may reject, and what an execution made of it.
Reviewed ==
  /\ pc \in {"running", "previewed", "approved", "published", "refused", "failed"}
  /\ failure \in {"none", "no_columns", "operation", "execution",
                  "duplicates", "category", "summary", "issues"}
  /\ rejected \subseteq CellChanges
  /\ target \in DOMAIN tables /\ done \in 0 .. MaxSteps
  /\ Executed =>
       /\ \A n \in rejected : changes[n].column \in tables[changes[n].key].columns
       /\ final = WithoutRejected(tables) /\ report = Reconciled(final)

Inv == Identities /\ Recorded /\ Reviewed

\* Identities that were handed out stay handed out.
LEMMA SoundLater ==
  ASSUME NEW next \in Nat, NEW last \in Nat, next <= last, NEW ts, Sound(ts, next)
  PROVE  Sound(ts, last)
<1>1. 1 .. next - 1 \subseteq 1 .. last - 1
  OBVIOUS
<1> QED
  BY <1>1 DEF Sound, Holds, From

\* Appending what fits.
LEMMA LogShape ==
  ASSUME NEW D, changes \in Seq(D), total \in Nat,
         Len(changes) <= MaxRecords, Len(changes) <= total,
         NEW entries \in Seq(D), Log(entries)
  PROVE  /\ changes' \in Seq(D) /\ total' \in Nat
         /\ Len(changes') <= MaxRecords /\ Len(changes') <= total'
         /\ Len(changes) <= Len(changes')
         /\ \A n \in 1 .. Len(changes) : changes'[n] = changes[n]
         /\ total' = Len(changes') => total = Len(changes) /\ changes' = changes \o entries
<1>1. MaxRecords \in Nat /\ Len(changes) \in Nat /\ Len(entries) \in Nat
  BY BoundsAssumption, LenProperties
<1>2. PICK room \in Nat : room = MaxRecords - Len(changes)
  <2>1. MaxRecords - Len(changes) \in Nat
    BY <1>1
  <2> QED
    BY <2>1
<1>3. PICK fit : fit = Min({room, Len(entries)})
  OBVIOUS
<1>4. fit \in {room, Len(entries)} /\ fit <= room /\ fit <= Len(entries)
  <2>1. {room, Len(entries)} \in SUBSET Int /\ IsFiniteSet({room, Len(entries)})
    <3>1. {room, Len(entries)} = {room} \cup {Len(entries)}
      OBVIOUS
    <3>2. IsFiniteSet({room})
      BY FS_Singleton
    <3>3. IsFiniteSet({room} \cup {Len(entries)})
      BY <3>2, FS_AddElement
    <3>4. IsFiniteSet({room, Len(entries)})
      BY <3>1, <3>3, Zenon
    <3>5. {room, Len(entries)} \in SUBSET Int
      BY <1>1
    <3> QED
      BY <3>4, <3>5
  <2> QED
    BY <1>3, <2>1, Extremes
<1>5. PICK kept : kept = SubSeq(entries, 1, fit)
  OBVIOUS
<1>6. kept \in Seq(D) /\ Len(kept) = fit /\ \A n \in 1 .. fit : kept[n] = entries[n]
  <2>1. \A n \in 1 .. fit : n \in 1 .. Len(entries)
    BY <1>1, <1>4
  <2>2. 1 .. fit \subseteq DOMAIN entries \/ 1 > fit
    BY <2>1, LenProperties
  <2>3. CASE fit = 0
    BY <1>5, <2>3, SubSeqProperties
  <2>4. CASE fit # 0
    <3>1. fit \in Nat /\ 1 <= fit
      BY <1>1, <1>4, <2>4
    <3> QED
      BY <1>1, <1>4, <1>5, <2>1, <3>1, SubSeqProperties
  <2> QED
    BY <2>3, <2>4
<1>7. changes' = changes \o kept /\ total' = total + Len(entries)
  BY <1>2, <1>3, <1>5 DEF Log
<1>8. PICK all : all = changes \o kept
  OBVIOUS
<1>10. /\ all \in Seq(D) /\ Len(all) = Len(changes) + fit
       /\ \A n \in 1 .. Len(changes) : all[n] = changes[n]
  <2>1. kept \in Seq(D) /\ changes \in Seq(D)
    BY <1>6
  <2>2. /\ changes \o kept \in Seq(D) /\ Len(changes \o kept) = Len(changes) + Len(kept)
        /\ \A n \in 1 .. Len(changes) + Len(kept) :
             (changes \o kept)[n] = IF n <= Len(changes) THEN changes[n]
                                     ELSE kept[n - Len(changes)]
    BY <2>1, ConcatProperties
  <2>3. fit \in Nat
    BY <1>1, <1>4
  <2>4. \A n \in 1 .. Len(changes) : n \in 1 .. Len(changes) + fit /\ n <= Len(changes)
    BY <1>1, <2>3
  <2> QED
    BY <1>6, <1>8, <2>2, <2>4
<1>9. fit = Len(entries) => kept = entries
  <2>1. ASSUME fit = Len(entries) PROVE kept = entries
    BY <1>6, <2>1, SeqEqual
  <2> QED
    BY <2>1
<1>11. changes' = all
  BY <1>7, <1>8
<1>12. /\ Len(changes) + fit <= MaxRecords /\ Len(changes) + fit <= total + Len(entries)
       /\ Len(changes) <= Len(changes) + fit /\ total + Len(entries) \in Nat
       /\ total + Len(entries) = Len(changes) + fit =>
            total = Len(changes) /\ fit = Len(entries)
  BY <1>1, <1>2, <1>4
<1>13. total + Len(entries) = Len(changes) + fit => all = changes \o entries
  BY <1>8, <1>9, <1>12
<1> QED
  BY <1>7, <1>10, <1>11, <1>12, <1>13

\* The step of RunStep, with what the operation computed.
Ready(key, raw, aux) ==
  /\ key \in Targets
  /\ Result(raw)
  /\ aux \in Seq(Extras) /\ OwnKeys(aux)

\* How the run's tables become those of the next step: key's table becomes t, and
\* the tables of ts are new.
Grows(key, t, ts, log, middle) ==
  /\ pc = "running" /\ done < MaxSteps /\ key \in DOMAIN tables
  /\ middle \in Nat /\ nextId <= middle /\ nextId' \in Nat /\ middle <= nextId'
  /\ Holds(t, 1 .. middle - 1) /\ Distinct(t)
  /\ DOMAIN ts \cap DOMAIN tables = {} /\ IsFiniteSet(DOMAIN ts)
  /\ New(ts, middle, nextId', log)
  /\ DOMAIN tables' = DOMAIN tables \cup DOMAIN ts
  /\ tables' = [k \in DOMAIN tables' |-> tables'[k]]
  /\ \A k \in DOMAIN ts : tables'[k] = ts[k]
  /\ \A k \in DOMAIN tables : tables'[k] = IF k = key THEN t ELSE tables[k]
  /\ Log(Diff(tables[key], t, key) \o log)
  /\ target' = key /\ done' = done + 1
  /\ UNCHANGED <<pc, failure, original, rejected, final, report>>

\* What the loop keeps of a step is a growth of the run's tables.
LEMMA KeepGrows ==
  ASSUME Inv, NEW key, NEW raw, NEW aux, NEW checked, Ready(key, raw, aux),
         \A n \in 1 .. Len(aux) : aux[n].key \notin DOMAIN tables,
         Keep(key, raw, aux, checked)
  PROVE  \E t, ts, log, middle : Grows(key, t, ts, log, middle)
<1>1. /\ pc = "running" /\ done < MaxSteps /\ key \in DOMAIN tables
      /\ nextId \in Nat \ {0} /\ Result(raw) /\ aux \in Seq(Extras) /\ OwnKeys(aux)
  BY DEF Inv, Identities, Ready, Targets
<1>2. PICK before : before = tables[key]
  OBVIOUS
<1>3. Holds(before, 1 .. nextId - 1)
  BY <1>1, <1>2 DEF Inv, Identities, Sound
<1>4. PICK placed : placed = Identified(before, raw)
  OBVIOUS
<1>5. /\ placed.next \in Nat /\ placed.next >= nextId
      /\ Holds(placed.table, 1 .. placed.next - 1)
  BY <1>1, <1>3, <1>4, IdentifiedSound
<1>6. PICK after : after = Repaired(placed.table, placed.next)
  OBVIOUS
<1>7. /\ after.next \in Nat /\ placed.next <= after.next
      /\ Holds(after.table, 1 .. after.next - 1) /\ Distinct(after.table)
  <2>1. placed.next \in Nat \ {0}
    BY <1>1, <1>5
  <2> QED
    BY <1>5, <1>6, <2>1, RepairedSound
<1>8. PICK made : made = Allocated(aux, after.next)
  OBVIOUS
<1>9. /\ made.next \in Nat /\ after.next <= made.next
      /\ DOMAIN made.tables = AuxKeys(aux, Len(aux))
      /\ IsFiniteSet(DOMAIN made.tables)
      /\ New(made.tables, after.next, made.next, made.log)
  BY <1>1, <1>7, <1>8, AllocatedSound
<1>10. /\ tables' = Beside(made.tables, [tables EXCEPT ![key] = after.table])
       /\ nextId' = made.next
       /\ Log(Diff(before, after.table, key) \o made.log)
       /\ target' = key /\ done' = done + 1
       /\ UNCHANGED <<pc, failure, original, rejected, final, report>>
  BY <1>2, <1>4, <1>6, <1>8 DEF Keep
<1>11. DOMAIN made.tables \cap DOMAIN tables = {}
  BY <1>9 DEF AuxKeys
<1>12. PICK t, ts, log, middle :
         /\ t = after.table /\ ts = made.tables /\ log = made.log /\ middle = after.next
  OBVIOUS
<1>13. /\ DOMAIN tables' = DOMAIN tables \cup DOMAIN ts
       /\ tables' = [k \in DOMAIN tables' |-> tables'[k]]
       /\ \A k \in DOMAIN ts : tables'[k] = ts[k]
       /\ \A k \in DOMAIN tables : tables'[k] = IF k = key THEN t ELSE tables[k]
  <2>1. tables' = Beside(ts, [tables EXCEPT ![key] = t])
    BY <1>10, <1>12
  <2>2. DOMAIN ts \cap DOMAIN tables = {}
    BY <1>11, <1>12
  <2> QED
    BY <1>1, <2>1, <2>2 DEF Beside
<1>14. nextId <= middle
  BY <1>1, <1>5, <1>7, <1>12
<1>15. Grows(key, t, ts, log, middle)
  BY <1>1, <1>2, <1>7, <1>9, <1>10, <1>11, <1>12, <1>13, <1>14 DEF Grows
<1> QED
  BY <1>15

\* A turn of the loop raises, or it keeps what the operation computed.
LEMMA RunStepEffect ==
  ASSUME Inv, NEW key, NEW raw, NEW aux, NEW checked, Ready(key, raw, aux),
         RunStep(key, raw, aux, checked)
  PROVE  \/ \E cause \in {"no_columns", "duplicates", "category", "summary", "issues"} :
              Raise(cause)
         \/ \E t, ts, log, middle : Grows(key, t, ts, log, middle)
<1> DEFINE noColumns == \E t \in {raw} \cup {extra.table : extra \in Range(aux)} : t.columns = {}
           taken == {extra \in Range(aux) : extra.key \in DOMAIN tables}
<1>1. /\ DOMAIN aux = 1 .. Len(aux) /\ \A n \in 1 .. Len(aux) : aux[n] \in Extras
  BY LenProperties, ElementOfSeq DEF Ready
<1>2. CASE noColumns
  <2>1. Raise("no_columns")
    BY <1>2 DEF RunStep
  <2> QED
    BY <2>1
<1>3. CASE ~noColumns /\ taken # {}
  <2> DEFINE chosen == CHOOSE extra \in taken : TRUE
  <2>1. chosen \in taken
    BY <1>3
  <2>2. chosen.key \in ExtraKeys
    <3>1. chosen \in Extras
      BY <1>1, <2>1 DEF Range
    <3> HIDE DEF chosen
    <3> QED
      BY <3>1 DEF Extras
  <2>3. Raise(chosen.key[1])
    BY <1>3 DEF RunStep
  <2> HIDE DEF chosen
  <2> QED
    BY <2>2, <2>3 DEF ExtraKeys
<1>4. CASE ~noColumns /\ taken = {}
  <2>1. Keep(key, raw, aux, checked)
    BY <1>4 DEF RunStep
  <2>2. \A n \in 1 .. Len(aux) : aux[n].key \notin DOMAIN tables
    BY <1>1, <1>4 DEF Range
  <2> QED
    BY <2>1, <2>2, KeepGrows
<1> QED
  BY <1>2, <1>3, <1>4

-----------------------------------------------------------------------------
(* Every operation computes tables of the run *)

Runs ==
  \E key, raw, aux, checked : Ready(key, raw, aux) /\ RunStep(key, raw, aux, checked)

\* The table a step names is one the operations accept.
LEMMA TargetShape ==
  ASSUME Inv, NEW key \in Targets
  PROVE  /\ IsTable(tables[key]) /\ tables[key].columns \subseteq Columns
         /\ Ids(tables[key]) \subseteq 1 .. nextId - 1
         /\ key \in DOMAIN tables /\ Result(tables[key])
<1>1. key \in DOMAIN tables /\ Holds(tables[key], 1 .. nextId - 1)
  BY DEF Targets, Inv, Identities, Sound
<1> QED
  BY <1>1 DEF Holds, From, Ids, Result

\* A result whose rows come from the target's is one the loop accepts.
LEMMA ResultFrom ==
  ASSUME Inv, NEW key \in Targets, NEW columns \in SUBSET Columns, NEW raw,
         From(raw, columns, Ids(tables[key]))
  PROVE  Result(raw)
BY TargetShape DEF From, Result

\* A step on one table alone is a turn of the loop.
LEMMA TransformRuns ==
  ASSUME Inv, NEW key \in Targets, NEW raw, Result(raw), Transform(key, raw)
  PROVE  Runs
<1>1. <<>> \in Seq(Extras) /\ Len(<<>>) = 0
  BY EmptySeq
<1>2. OwnKeys(<<>>)
  BY <1>1 DEF OwnKeys
<1>3. Ready(key, raw, <<>>) /\ RunStep(key, raw, <<>>, <<>>)
  BY <1>1, <1>2 DEF Ready, Transform
<1> QED
  BY <1>3 DEF Runs

\* A step may make one table of a kind of its own.
LEMMA OneExtra ==
  ASSUME NEW kind \in {"duplicates", "summary", "issues"},
         NEW t, IsTable(t), t.columns \in SUBSET Columns
  PROVE  LET aux == <<[key |-> <<kind, 0>>, table |-> t]>>
         IN  aux \in Seq(Extras) /\ OwnKeys(aux)
<1>1. PICK extra : extra = [key |-> <<kind, 0>>, table |-> t]
  OBVIOUS
<1>2. extra \in Extras
  BY <1>1, AnyTableIs DEF Extras, ExtraKeys
<1>3. <<extra>> \in Seq(Extras) /\ Len(<<extra>>) = 1
  BY <1>2
<1>4. OwnKeys(<<extra>>)
  BY <1>3 DEF OwnKeys
<1> QED
  BY <1>1, <1>3, <1>4

\* A turn of the loop, from the parts it needs.
LEMMA RunStepRuns ==
  ASSUME Inv, NEW key \in Targets, NEW raw, Result(raw), NEW aux \in Seq(Extras), OwnKeys(aux),
         NEW checked, RunStep(key, raw, aux, checked)
  PROVE  Runs
BY DEF Ready, Runs

\* The steps that only compute a new table from key's.
Edits ==
  \/ Clean \/ Standardize \/ Convert \/ Rename \/ SelectSome \/ RemoveSome \/ Add
  \/ Extract \/ Lookup \/ Calculate \/ Filter \/ Sort \/ Mark \/ MergeRows

\* Each step on one table gives the loop a table with the target's rows.
LEMMA EditsRun ==
  ASSUME Inv, Edits
  PROVE  Runs
<1>1. CASE Clean
  <2>1. PICK key \in Targets, rewrite \in Rewrites :
          \E columns \in SUBSET Cleanable(tables[key]) \ {{}} :
             Transform(key, CleanText(tables[key], columns, rewrite))
    BY <1>1 DEF Clean
  <2>2. PICK columns \in SUBSET Cleanable(tables[key]) \ {{}} :
          Transform(key, CleanText(tables[key], columns, rewrite))
    BY <2>1
  <2>3. From(CleanText(tables[key], columns, rewrite), tables[key].columns, Ids(tables[key]))
    BY TargetShape, ValuesAssumption, CleanTextFrom
  <2> QED
    BY <2>2, <2>3, TargetShape, ResultFrom, TransformRuns
<1>2. CASE Standardize
  <2>1. PICK key \in Targets, mapping \in Mappings, policy \in {"leave", "null"} :
          \E column \in tables[key].columns :
             Transform(key, StandardizeValues(tables[key], column, mapping, policy))
    BY <1>2 DEF Standardize
  <2>2. PICK column \in tables[key].columns :
          Transform(key, StandardizeValues(tables[key], column, mapping, policy))
    BY <2>1
  <2>3. From(StandardizeValues(tables[key], column, mapping, policy), tables[key].columns,
             Ids(tables[key]))
    BY TargetShape, ValuesAssumption, StandardizeValuesFrom
  <2> QED
    BY <2>2, <2>3, TargetShape, ResultFrom, TransformRuns
<1>3. CASE Rename
  <2>1. PICK key \in Targets :
          \E from \in tables[key].columns, to \in Columns :
             Transform(key, RenameColumn(tables[key], from, to))
    BY <1>3 DEF Rename
  <2>2. PICK from \in tables[key].columns, to \in Columns :
          Transform(key, RenameColumn(tables[key], from, to))
    BY <2>1
  <2>3. PICK columns \in SUBSET (tables[key].columns \cup {to}) :
          From(RenameColumn(tables[key], from, to), columns, Ids(tables[key]))
    BY TargetShape, RenameColumnFrom
  <2>4. columns \in SUBSET Columns
    BY TargetShape
  <2> QED
    BY <2>2, <2>3, <2>4, ResultFrom, TransformRuns
<1>4. CASE SelectSome
  <2>1. PICK key \in Targets :
          \E columns \in SUBSET tables[key].columns \ {{}} :
             Transform(key, SelectColumns(tables[key], columns))
    BY <1>4 DEF SelectSome
  <2>2. PICK columns \in SUBSET tables[key].columns :
          Transform(key, SelectColumns(tables[key], columns))
    BY <2>1
  <2>3. From(SelectColumns(tables[key], columns), columns, {0})
    BY TargetShape, SelectColumnsFrom
  <2>4. Result(SelectColumns(tables[key], columns))
    BY <2>3, TargetShape DEF From, Result, HasNoIds
  <2> QED
    BY <2>2, <2>4, TransformRuns
<1>5. CASE RemoveSome
  <2>1. PICK key \in Targets :
          \E columns \in SUBSET tables[key].columns \ {{}} :
             Transform(key, RemoveColumns(tables[key], columns))
    BY <1>5 DEF RemoveSome
  <2>2. PICK columns \in SUBSET tables[key].columns :
          Transform(key, RemoveColumns(tables[key], columns))
    BY <2>1
  <2>3. From(RemoveColumns(tables[key], columns), tables[key].columns \ columns,
             Ids(tables[key]))
    BY TargetShape, RemoveColumnsFrom
  <2>4. tables[key].columns \ columns \in SUBSET Columns
    BY TargetShape
  <2> QED
    BY <2>2, <2>3, <2>4, ResultFrom, TransformRuns
<1>6. CASE Add
  <2>1. PICK key \in Targets :
          \E column \in NewColumns(key) : Transform(key, AddColumn(tables[key], column, Marked))
    BY <1>6 DEF Add
  <2>2. PICK column \in Columns : Transform(key, AddColumn(tables[key], column, Marked))
    BY <2>1 DEF NewColumns
  <2>3. From(AddColumn(tables[key], column, Marked), tables[key].columns \cup {column},
             Ids(tables[key]))
    BY TargetShape, Marked \in Nat, AddColumnFrom DEF Marked
  <2>4. tables[key].columns \cup {column} \in SUBSET Columns
    BY TargetShape
  <2> QED
    BY <2>2, <2>3, <2>4, ResultFrom, TransformRuns
<1>7. CASE Extract
  <2>1. PICK key \in Targets, rewrite \in Rewrites, keepSource \in BOOLEAN :
          \E source \in tables[key].columns, output \in NewColumns(key) :
             Transform(key, ExtractColumn(tables[key], source, output, rewrite, keepSource))
    BY <1>7 DEF Extract
  <2>2. PICK source \in tables[key].columns, output \in Columns :
          Transform(key, ExtractColumn(tables[key], source, output, rewrite, keepSource))
    BY <2>1 DEF NewColumns
  <2>3. PICK columns \in SUBSET (tables[key].columns \cup {output}) :
          From(ExtractColumn(tables[key], source, output, rewrite, keepSource), columns,
               Ids(tables[key]))
    BY TargetShape, ValuesAssumption, ExtractColumnFrom
  <2>4. columns \in SUBSET Columns
    BY TargetShape
  <2> QED
    BY <2>2, <2>3, <2>4, ResultFrom, TransformRuns
<1>8. CASE Lookup
  <2>1. PICK key \in Targets, mapping \in Mappings :
          \E source \in tables[key].columns :
             \E output \in NewColumns(key) \cup {source} :
                Transform(key, LookupColumn(tables[key], source, output, mapping, "null"))
    BY <1>8 DEF Lookup
  <2>2. PICK source \in tables[key].columns, output \in Columns :
          Transform(key, LookupColumn(tables[key], source, output, mapping, "null"))
    BY <2>1, TargetShape DEF NewColumns
  <2>3. From(LookupColumn(tables[key], source, output, mapping, "null"),
             tables[key].columns \cup {output}, Ids(tables[key]))
    BY TargetShape, ValuesAssumption, LookupColumnFrom
  <2>4. tables[key].columns \cup {output} \in SUBSET Columns
    BY TargetShape
  <2> QED
    BY <2>2, <2>3, <2>4, ResultFrom, TransformRuns
<1>9. CASE Calculate
  <2>1. PICK key \in Targets :
          \E group, source \in tables[key].columns, output \in NewColumns(key) :
             Transform(key, GroupTotal(tables[key], group, source, output))
    BY <1>9 DEF Calculate
  <2>2. PICK group, source \in tables[key].columns, output \in Columns :
          Transform(key, GroupTotal(tables[key], group, source, output))
    BY <2>1 DEF NewColumns
  <2>3. From(GroupTotal(tables[key], group, source, output), tables[key].columns \cup {output},
             Ids(tables[key]))
    BY TargetShape, GroupTotalFrom
  <2>4. tables[key].columns \cup {output} \in SUBSET Columns
    BY TargetShape
  <2> QED
    BY <2>2, <2>3, <2>4, ResultFrom, TransformRuns
<1>10. CASE Filter
  <2>1. PICK key \in Targets, keep \in BOOLEAN : \E column, value :
          Transform(key, FilterRows(tables[key], column, value, keep))
    BY <1>10 DEF Filter
  <2>0. PICK column, value : Transform(key, FilterRows(tables[key], column, value, keep))
    BY <2>1
  <2>2. From(FilterRows(tables[key], column, value, keep), tables[key].columns,
             Ids(tables[key]))
    BY TargetShape, FilterRowsFrom
  <2> QED
    BY <2>0, <2>2, TargetShape, ResultFrom, TransformRuns
<1>11. CASE Sort
  <2>1. PICK key \in Targets, descending \in BOOLEAN :
          \E column \in tables[key].columns :
             Transform(key, SortRows(tables[key], column, descending))
    BY <1>11 DEF Sort
  <2>2. PICK column \in tables[key].columns :
          Transform(key, SortRows(tables[key], column, descending))
    BY <2>1
  <2>3. From(SortRows(tables[key], column, descending), tables[key].columns, Ids(tables[key]))
    BY TargetShape, SortRowsFrom
  <2> QED
    BY <2>2, <2>3, TargetShape, ResultFrom, TransformRuns
<1>12. CASE Mark
  <2>1. PICK key \in Targets :
          \E keys \in SUBSET tables[key].columns \ {{}}, marker \in NewColumns(key) :
             Transform(key, MarkDuplicates(tables[key], keys, marker))
    BY <1>12 DEF Mark
  <2>2. PICK keys \in SUBSET tables[key].columns, marker \in Columns :
          Transform(key, MarkDuplicates(tables[key], keys, marker))
    BY <2>1 DEF NewColumns
  <2>3. From(MarkDuplicates(tables[key], keys, marker), tables[key].columns \cup {marker},
             Ids(tables[key]))
    BY TargetShape, MarkDuplicatesFrom
  <2>4. tables[key].columns \cup {marker} \in SUBSET Columns
    BY TargetShape
  <2> QED
    BY <2>2, <2>3, <2>4, ResultFrom, TransformRuns
<1>13. CASE MergeRows
  <2>1. PICK key \in Targets : \E keep, strategy, keys :
          Transform(key, MergeComplementary(tables[key], keys, keep, strategy))
    BY <1>13 DEF MergeRows
  <2>0. PICK keep, strategy, keys :
          Transform(key, MergeComplementary(tables[key], keys, keep, strategy))
    BY <2>1
  <2>2. From(MergeComplementary(tables[key], keys, keep, strategy), tables[key].columns,
             Ids(tables[key]))
    BY TargetShape, MergeComplementaryFrom
  <2> QED
    BY <2>0, <2>2, TargetShape, ResultFrom, TransformRuns
<1>14. CASE Convert
  <2>1. PICK key \in Targets :
          \E column \in tables[key].columns : Transform(key, ConvertNumeric(tables[key], column))
    BY <1>14 DEF Convert
  <2>2. PICK column \in tables[key].columns : Transform(key, ConvertNumeric(tables[key], column))
    BY <2>1
  <2>3. From(ConvertNumeric(tables[key], column), tables[key].columns, Ids(tables[key]))
    BY TargetShape, ConvertNumericFrom
  <2> QED
    BY <2>2, <2>3, TargetShape, ResultFrom, TransformRuns
<1> QED
  BY <1>1, <1>2, <1>3, <1>4, <1>5, <1>6, <1>7, <1>8, <1>9, <1>10, <1>11, <1>12, <1>13, <1>14
  DEF Edits

\* duplicates.handle, modes remove and move.
LEMMA MoveRuns ==
  ASSUME Inv, RemoveOrMove
  PROVE  Runs
<1>0. PICK key \in Targets, keep \in {"first", "last"}, move \in BOOLEAN :
        \E keys \in SUBSET tables[key].columns \ {{}} :
           RunStep(key, KeptRows(tables[key], keys, keep),
                   IF move THEN <<[key |-> <<"duplicates", 0>>,
                                   table |-> MovedRows(tables[key], keys, keep)]>>
                           ELSE <<>>, <<>>)
  BY DEF RemoveOrMove
<1>1. PICK keys \in SUBSET tables[key].columns :
        RunStep(key, KeptRows(tables[key], keys, keep),
                IF move THEN <<[key |-> <<"duplicates", 0>>,
                                table |-> MovedRows(tables[key], keys, keep)]>>
                        ELSE <<>>, <<>>)
  BY <1>0
<1>2. /\ From(KeptRows(tables[key], keys, keep), tables[key].columns, Ids(tables[key]))
      /\ From(MovedRows(tables[key], keys, keep), tables[key].columns, Ids(tables[key]))
  BY TargetShape, KeptRowsFrom
<1>3. PICK raw, moved : /\ raw = KeptRows(tables[key], keys, keep)
                        /\ moved = MovedRows(tables[key], keys, keep)
  OBVIOUS
<1>4. Result(raw) /\ IsTable(moved) /\ moved.columns \in SUBSET Columns
  <2>1. From(raw, tables[key].columns, Ids(tables[key])) /\ tables[key].columns \in SUBSET Columns
    BY <1>2, <1>3, TargetShape
  <2>2. From(moved, tables[key].columns, Ids(tables[key]))
    BY <1>2, <1>3
  <2> QED
    BY <2>1, <2>2, ResultFrom DEF From
<1>5. CASE move
  <2>1. PICK aux : aux = <<[key |-> <<"duplicates", 0>>, table |-> moved]>>
    OBVIOUS
  <2>2. aux \in Seq(Extras) /\ OwnKeys(aux)
    BY <1>4, <2>1, OneExtra
  <2>3. RunStep(key, raw, aux, <<>>)
    BY <1>1, <1>3, <1>5, <2>1
  <2> QED
    BY <1>4, <2>2, <2>3, RunStepRuns
<1>6. CASE ~move
  <2>1. RunStep(key, raw, <<>>, <<>>)
    BY <1>1, <1>3, <1>6
  <2> QED
    BY <1>4, <2>1, TransformRuns DEF Transform
<1> QED
  BY <1>5, <1>6

\* tables.merge.
LEMMA MergeRuns ==
  ASSUME Inv, Merge
  PROVE  Runs
<1>1. PICK key \in Targets, first \in Targets, second \in Targets :
        Transform(key, MergeTables(tables, <<first, second>>))
  BY DEF Merge
<1>2. PICK raw : raw = MergeTables(tables, <<first, second>>)
  OBVIOUS
<1>3. From(raw, tables[first].columns \cup tables[second].columns,
           Ids(tables[first]) \cup Ids(tables[second]))
  BY <1>2, TargetShape, MergeTablesFrom
<1>4. Result(raw)
  BY <1>3, TargetShape DEF From, Result
<1> QED
  BY <1>1, <1>2, <1>4, TransformRuns

\* A table for each category, under a key of its own.
LEMMA SplitRuns ==
  ASSUME Inv, Split
  PROVE  Runs
<1>0. PICK key \in Targets, drop \in BOOLEAN :
        \E column \in tables[key].columns :
        RunStep(key, tables[key],
                   Each(Categories(tables[key], column),
                        LAMBDA v : [key |-> <<"category", v>>,
                                    table |-> CategoryRows(tables[key], column, v, drop)]), <<>>)
  BY DEF Split
<1>1. PICK column \in tables[key].columns :
        RunStep(key, tables[key],
                Each(Categories(tables[key], column),
                     LAMBDA v : [key |-> <<"category", v>>,
                                 table |-> CategoryRows(tables[key], column, v, drop)]), <<>>)
  BY <1>0
<1>2. PICK t : t = tables[key]
  OBVIOUS
<1>3. IsTable(t) /\ t.columns \in SUBSET Columns /\ Result(t)
  BY <1>2, TargetShape
<1>4. PICK S : S = Categories(t, column)
  OBVIOUS
<1>5. S \in SUBSET Nat /\ IsFiniteSet(S)
  BY <1>2, <1>3, <1>4, CategoriesFinite
<1> DEFINE part == [v \in S |-> [key |-> <<"category", v>>,
                                  table |-> CategoryRows(t, column, v, drop)]]
<1>6. Within(part, S, Extras)
  <2>1. SUFFICES ASSUME NEW v \in S
        PROVE  [key |-> <<"category", v>>, table |-> CategoryRows(t, column, v, drop)] \in Extras
    BY DEF Within
  <2>2. PICK columns \in SUBSET t.columns : From(CategoryRows(t, column, v, drop), columns, Ids(t))
    BY <1>3, CategoryRowsFrom
  <2>3. CategoryRows(t, column, v, drop) \in AnyTable
    BY <1>3, <2>2, AnyTableIs DEF From
  <2> QED
    BY <1>5, <2>3 DEF Extras, ExtraKeys
<1>6a. PICK N \in Nat : \E order : /\ order = Sorted(S) /\ order \in [1 .. N -> S]
                                  /\ \A i, j \in 1 .. N : i < j => order[i] < order[j]
  BY <1>5, S \in SUBSET Int, SortedLists
<1>7. PICK order : /\ order = Sorted(S) /\ order \in [1 .. N -> S]
                   /\ \A i, j \in 1 .. N : i < j => order[i] < order[j]
  BY <1>6a
<1>8. PICK aux : aux = [i \in 1 .. N |-> part[order[i]]]
  OBVIOUS
<1>9. Listing(aux, S, part)
  BY <1>7, <1>8 DEF Listing
<1>10. aux = Each(Categories(tables[key], column),
                  LAMBDA v : [key |-> <<"category", v>>,
                              table |-> CategoryRows(tables[key], column, v, drop)])
  <2>1. \A i \in 1 .. N :
          part[order[i]] = [key |-> <<"category", order[i]>>,
                            table |-> CategoryRows(tables[key], column, order[i], drop)]
    BY <1>2, <1>7
  <2> HIDE DEF part
  <2>2. Sorted(Categories(tables[key], column)) = order /\ DOMAIN order = 1 .. N
    BY <1>2, <1>4, <1>7
  <2> QED
    BY <1>8, <2>1, <2>2 DEF Each
<1>11. \A i \in 1 .. N : aux[i].key = <<"category", order[i]>>
  BY <1>7, <1>8
<1> HIDE DEF part
<1>12. aux \in Seq(Extras) /\ Len(aux) = N
  <2>1. aux \in Seq(Extras)
    BY <1>5, <1>6, <1>9, EachInOrder
  <2>2. DOMAIN aux = 1 .. N
    BY <1>8
  <2> QED
    BY <2>1, <2>2, LenProperties
<1>13. OwnKeys(aux)
  <2>1. ASSUME NEW i \in 1 .. N, NEW j \in 1 .. N, order[i] = order[j] PROVE i = j
    <3>1. order[i] \in Nat
      BY <1>5, <1>7
    <3> QED
      BY <1>7, <2>1, <3>1
  <2> QED
    BY <1>11, <1>12, <2>1 DEF OwnKeys
<1>14. RunStep(key, tables[key], aux, <<>>)
  BY <1>1, <1>10
<1> QED
  BY <1>2, <1>3, <1>12, <1>13, <1>14, RunStepRuns

\* The column of summaries and of issues is one of the run's.
LEMMA FirstColumn == Min(Columns) \in Columns
<1>1. Columns \in SUBSET Int /\ IsFiniteSet(Columns) /\ Columns # {}
  BY BoundsAssumption, InputsAssumption
<1> QED
  BY <1>1, Extremes

\* calculate.summary.
LEMMA SummarizeRuns ==
  ASSUME Inv, Summarize
  PROVE  Runs
<1>1. PICK summary : summary = [columns |-> {Min(Columns)}, texts |-> {}, rows |-> <<>>]
  OBVIOUS
<1>2. PICK key \in Targets :
        RunStep(key, tables[key], <<[key |-> <<"summary", 0>>, table |-> summary]>>, <<>>)
  BY <1>1 DEF Summarize
<1>3. IsTable(summary) /\ summary.columns \in SUBSET Columns
  BY <1>1, FirstColumn, EmptySeq DEF IsTable
<1>4. PICK aux : aux = <<[key |-> <<"summary", 0>>, table |-> summary]>>
  OBVIOUS
<1>5. aux \in Seq(Extras) /\ OwnKeys(aux)
  BY <1>3, <1>4, OneExtra
<1> QED
  BY <1>2, <1>4, <1>5, TargetShape, RunStepRuns

\* quality.validate.
LEMMA ValidateRuns ==
  ASSUME Inv, Validate
  PROVE  Runs
<1>1. PICK key \in Targets : ValidateSheet(key)
  BY DEF Validate
<1>0. PICK rule \in Rules : \E broken, issues, checked :
        /\ broken = RowsBreaking(rule, tables[key])
        /\ issues = [columns |-> {Min(Columns)}, texts |-> {},
                     rows |-> IF broken = {} THEN <<>>
                              ELSE <<[id |-> 0,
                                      cells |-> [c \in {Min(Columns)} |-> Cardinality(broken)]]>>]
        /\ RunStep(key, tables[key], <<[key |-> <<"issues", 0>>, table |-> issues]>>, checked)
  BY <1>1 DEF ValidateSheet
<1>2. PICK broken, issues, checked :
        /\ broken = RowsBreaking(rule, tables[key])
        /\ issues = [columns |-> {Min(Columns)}, texts |-> {},
                     rows |-> IF broken = {} THEN <<>>
                              ELSE <<[id |-> 0,
                                      cells |-> [c \in {Min(Columns)} |-> Cardinality(broken)]]>>]
        /\ RunStep(key, tables[key], <<[key |-> <<"issues", 0>>, table |-> issues]>>, checked)
  BY <1>0
<1>3. IsTable(issues) /\ issues.columns \in SUBSET Columns
  <2>1. Cardinality(broken) \in Nat
    <3>1. broken \in SUBSET DOMAIN tables[key].rows
      BY <1>2 DEF RowsBreaking
    <3>2. IsFiniteSet(DOMAIN tables[key].rows)
      BY TargetShape, TableShape
    <3> QED
      BY <3>1, <3>2, FS_Subset, FS_CardinalityType
  <2>2. PICK row : row = [id |-> 0, cells |-> [c \in {Min(Columns)} |-> Cardinality(broken)]]
    OBVIOUS
  <2>3. row \in Row({Min(Columns)})
    BY <2>1, <2>2 DEF Row
  <2>4. PICK rows : rows = IF broken = {} THEN <<>> ELSE <<row>>
    OBVIOUS
  <2>5. rows \in Seq(Row({Min(Columns)}))
    BY <2>3, <2>4, EmptySeq
  <2>6. issues = [columns |-> {Min(Columns)}, texts |-> {}, rows |-> rows]
    BY <1>2, <2>2, <2>4
  <2> QED
    BY <2>5, <2>6, FirstColumn DEF IsTable
<1>4. PICK aux : aux = <<[key |-> <<"issues", 0>>, table |-> issues]>>
  OBVIOUS
<1>5. aux \in Seq(Extras) /\ OwnKeys(aux)
  BY <1>3, <1>4, OneExtra
<1> QED
  BY <1>2, <1>4, <1>5, TargetShape, RunStepRuns

\* The steps of a plan.
PlanStep == Edits \/ RemoveOrMove \/ Merge \/ Split \/ Summarize \/ Validate

\* Every step of a plan raises or makes the run's tables grow.
LEMMA PlanStepEffect ==
  ASSUME Inv, PlanStep
  PROVE  \/ \E cause \in {"no_columns", "duplicates", "category", "summary", "issues"} :
              Raise(cause)
         \/ \E key, t, ts, log, middle : Grows(key, t, ts, log, middle)
<1>1. Runs
  BY EditsRun, MoveRuns, MergeRuns, SplitRuns, SummarizeRuns, ValidateRuns DEF PlanStep
<1>2. PICK key, raw, aux, checked : Ready(key, raw, aux) /\ RunStep(key, raw, aux, checked)
  BY <1>1 DEF Runs
<1> QED
  BY <1>2, RunStepEffect

-----------------------------------------------------------------------------
(* Undoing rejected changes *)

\* Putting a value back in a cell of a column may cast the column to text.
PutIn(value, old, id, c, change) ==
  \/ id = change.id /\ c = change.column /\ value \in Restored(change.original)
  \/ ~(id = change.id /\ c = change.column) /\ value = old
  \/ id # change.id /\ c = change.column /\ value = AsText(old)

\* Undoing a change rewrites the cell of the row with its identity, its columns' types aside.
LEMMA PutBackShape ==
  ASSUME NEW t, IsTable(t), NEW change, change.original \in Nat
  PROVE  LET u == PutBack(t, change)
         IN  /\ IsTable(u) /\ u.columns = t.columns /\ Len(u.rows) = Len(t.rows)
             /\ DOMAIN u.rows = DOMAIN t.rows
             /\ \A i \in DOMAIN t.rows :
                  /\ u.rows[i].id = t.rows[i].id
                  /\ \A c \in t.columns :
                       PutIn(u.rows[i].cells[c], t.rows[i].cells[c], t.rows[i].id, c, change)
<1> DEFINE column == {change.column}
           cast == IF IsText(change.original) THEN AsTexts(t, column) ELSE t
<1>1. PICK typed : typed = cast
  OBVIOUS
<1>2. /\ IsTable(typed) /\ typed.columns = t.columns
      /\ DOMAIN typed.rows = DOMAIN t.rows /\ Len(typed.rows) = Len(t.rows)
      /\ \A i \in DOMAIN t.rows :
           /\ typed.rows[i].id = t.rows[i].id
           /\ \A c \in t.columns :
                \/ typed.rows[i].cells[c] = t.rows[i].cells[c]
                \/ c = change.column /\ typed.rows[i].cells[c] = AsText(t.rows[i].cells[c])
  <2>1. CASE ~IsText(change.original)
    BY <1>1, <2>1
  <2>2. CASE IsText(change.original)
    <3>1. PICK u : u = AsTexts(t, column)
      OBVIOUS
    <3>2. /\ From(u, t.columns, Ids(t)) /\ DOMAIN u.rows = DOMAIN t.rows
          /\ Len(u.rows) = Len(t.rows)
          /\ \A i \in DOMAIN t.rows :
               /\ u.rows[i].id = t.rows[i].id
               /\ \A c \in t.columns :
                    u.rows[i].cells[c] =
                      IF c \in column THEN AsText(t.rows[i].cells[c]) ELSE t.rows[i].cells[c]
      BY <3>1, AsTextsFrom
    <3>3. typed = u
      BY <1>1, <2>2, <3>1
    <3> QED
      BY <3>2, <3>3 DEF From
  <2> QED
    BY <2>1, <2>2
<1>3. PICK value : value = IF change.column \in typed.texts THEN AsText(change.original)
                                                            ELSE change.original
  OBVIOUS
<1>4. value \in Nat /\ value \in Restored(change.original)
  BY <1>3, CastValue DEF Restored
<1> DEFINE Put(i, c) == IF typed.rows[i].id = change.id /\ c = change.column
                          THEN value ELSE typed.rows[i].cells[c]
           cells == [i \in DOMAIN typed.rows |-> [c \in typed.columns |-> Put(i, c)]]
<1>5. Fills(cells, typed, typed.columns)
  BY <1>2, <1>4, TableShape DEF Fills
<1>6. PutBack(t, change) = Refilled(typed, typed.columns, cells)
  BY <1>1, <1>3 DEF PutBack, WithCells, Refilled
<1>7. \A i \in DOMAIN typed.rows, c \in typed.columns : cells[i][c] = Put(i, c)
  OBVIOUS
<1> HIDE DEF cells
<1>8. PICK u : u = PutBack(t, change)
  OBVIOUS
<1>9. /\ IsTable(u) /\ u.columns = t.columns /\ Len(u.rows) = Len(t.rows)
      /\ DOMAIN u.rows = DOMAIN t.rows
      /\ \A i \in DOMAIN t.rows : u.rows[i] = [typed.rows[i] EXCEPT !.cells = cells[i]]
  <2>1. /\ From(Refilled(typed, typed.columns, cells), typed.columns, Ids(typed))
        /\ Len(Refilled(typed, typed.columns, cells).rows) = Len(typed.rows)
        /\ DOMAIN Refilled(typed, typed.columns, cells).rows = DOMAIN typed.rows
        /\ \A i \in DOMAIN typed.rows :
             Refilled(typed, typed.columns, cells).rows[i] =
               [typed.rows[i] EXCEPT !.cells = cells[i]]
    BY <1>2, <1>5, CellsReplaced
  <2>2. u = Refilled(typed, typed.columns, cells)
    BY <1>6, <1>8
  <2> QED
    BY <1>2, <2>1, <2>2 DEF From
<1>10. ASSUME NEW i \in DOMAIN t.rows
       PROVE  u.rows[i].id = t.rows[i].id /\ u.rows[i].cells = cells[i]
  <2>1. typed.rows[i] \in Row(t.columns) /\ typed.rows[i].id = t.rows[i].id
    BY <1>2, TableShape
  <2>2. [typed.rows[i] EXCEPT !.cells = cells[i]] = [id |-> typed.rows[i].id, cells |-> cells[i]]
    BY <2>1 DEF Row
  <2> QED
    BY <1>9, <2>1, <2>2
<1>11. ASSUME NEW i \in DOMAIN t.rows, NEW c \in t.columns
       PROVE  PutIn(u.rows[i].cells[c], t.rows[i].cells[c], t.rows[i].id, c, change)
  <2>1. u.rows[i].cells[c] = Put(i, c) /\ typed.rows[i].id = t.rows[i].id
    BY <1>2, <1>7, <1>10
  <2>2. \/ typed.rows[i].cells[c] = t.rows[i].cells[c]
        \/ c = change.column /\ typed.rows[i].cells[c] = AsText(t.rows[i].cells[c])
    BY <1>2
  <2> QED
    BY <1>4, <2>1, <2>2 DEF PutIn
<1> QED
  BY <1>8, <1>9, <1>10, <1>11

\* Undoing a change leaves the other tables.
LEMMA UndoShape ==
  ASSUME NEW keys, NEW ts \in [keys -> AnyTable], NEW change, change.original \in Nat
  PROVE  /\ Undo(ts, change) \in [keys -> AnyTable]
         /\ \A key \in keys :
              Undo(ts, change)[key] = IF key = change.key THEN PutBack(ts[key], change) ELSE ts[key]
<1>1. Undo(ts, change) = [ts EXCEPT ![change.key] = PutBack(ts[change.key], change)]
  BY DEF Undo
<1>2. ASSUME NEW key \in keys PROVE PutBack(ts[key], change) \in AnyTable
  <2>1. PICK t : t = ts[key]
    OBVIOUS
  <2>2. IsTable(t) /\ t.columns \in SUBSET Columns
    BY <2>1, AnyTableIs
  <2>3. IsTable(PutBack(t, change)) /\ PutBack(t, change).columns = t.columns
    BY <2>2, PutBackShape
  <2> QED
    BY <2>1, <2>2, <2>3, AnyTableIs
<1> QED
  BY <1>1, <1>2

\* The change at this position of the log is one of the cell.
Hits(position, key, id, c) ==
  SameCell(changes[position], [key |-> key, id |-> id, column |-> c])

\* It is one of the column.
InColumn(position, key, c) == changes[position].key = key /\ changes[position].column = c

\* A cell of no undone change keeps its value, or its column was cast to text.
Kept(value, old, positions, n, key, c) ==
  \/ value = old
  \/ value = AsText(old) /\ \E m \in 1 .. n : InColumn(positions[m], key, c)

\* What undoing the first n of positions makes of a cell that held old: the last change
\* of it that was undone decides.
Settles(value, old, positions, n, key, id, c) ==
  \/ Kept(value, old, positions, n, key, c) /\ \A m \in 1 .. n : ~Hits(positions[m], key, id, c)
  \/ \E m \in 1 .. n :
       /\ Hits(positions[m], key, id, c) /\ value \in Restored(changes[positions[m]].original)
       /\ \A l \in m + 1 .. n : ~Hits(positions[l], key, id, c)

Unwound(us, ts, positions, n) ==
  /\ us \in [DOMAIN ts -> AnyTable]
  /\ \A key \in DOMAIN ts :
       /\ us[key].columns = ts[key].columns /\ Len(us[key].rows) = Len(ts[key].rows)
       /\ DOMAIN us[key].rows = DOMAIN ts[key].rows
       /\ \A i \in DOMAIN ts[key].rows :
            /\ us[key].rows[i].id = ts[key].rows[i].id
            /\ \A c \in ts[key].columns :
                 Settles(us[key].rows[i].cells[c], ts[key].rows[i].cells[c], positions, n,
                         key, ts[key].rows[i].id, c)

Unwinds(f, ts, positions, N) ==
  /\ f[0] = ts
  /\ \A n \in 1 .. N : f[n] = Undo(f[n - 1], changes[positions[n]])

\* apply_cell_rejections goes from change to change.
LEMMA UndoneTurns ==
  ASSUME NEW ts, ts \in [DOMAIN ts -> AnyTable], NEW N \in Nat, NEW positions, Len(positions) = N,
         \A n \in 1 .. N : changes[positions[n]].original \in Nat
  PROVE  Unwinds(Undone(ts, positions), ts, positions, N)
<1> DEFINE D == [DOMAIN ts -> AnyTable]
           step == [p \in D \X (1 .. N) |-> Undo(p[1], changes[positions[p[2]]])]
           Steps(f) == f = [n \in 0 .. Len(positions) |->
                              IF n = 0 THEN ts ELSE Undo(f[n - 1], changes[positions[n]])]
<1>1. ASSUME NEW us \in D, NEW n \in 1 .. N
      PROVE  Undo(us, changes[positions[n]]) \in D
  BY UndoShape
<1> HIDE DEF D
<1>2. /\ step \in [D \X (1 .. N) -> D]
      /\ \A us \in D, n \in 1 .. N : step[<<us, n>>] = Undo(us, changes[positions[n]])
  BY <1>1
<1>3. ts \in D
  BY DEF D
<1> HIDE DEF step
<1>4. PICK f : Repeats(f, N, D, ts, step)
  BY <1>2, <1>3, Repeating
<1>5. Steps(f)
  <2>1. f = [n \in 0 .. N |-> f[n]]
    BY <1>4 DEF Repeats
  <2>2. ASSUME NEW n \in 0 .. N
        PROVE  f[n] = IF n = 0 THEN ts ELSE Undo(f[n - 1], changes[positions[n]])
    <3>1. CASE n = 0
      BY <1>4, <3>1 DEF Repeats
    <3>2. CASE n # 0
      <4>1. n \in 1 .. N /\ n - 1 \in 0 .. N
        BY <3>2
      <4>2. f[n - 1] \in D /\ f[n] = step[<<f[n - 1], n>>]
        BY <1>4, <4>1 DEF Repeats
      <4> QED
        BY <1>2, <3>2, <4>1, <4>2
    <3> QED
      BY <3>1, <3>2
  <2> QED
    BY <2>1, <2>2
<1>6. Undone(ts, positions) = CHOOSE g : Steps(g)
  BY DEF Undone
<1>7. Steps(Undone(ts, positions))
  <2> HIDE DEF Steps
  <2> QED
    BY <1>5, <1>6
<1>8. PICK g : g = Undone(ts, positions)
  OBVIOUS
<1>9. g = [n \in 0 .. N |-> IF n = 0 THEN ts ELSE Undo(g[n - 1], changes[positions[n]])]
  BY <1>7, <1>8
<1>10. g[0] = ts /\ \A n \in 1 .. N : g[n] = Undo(g[n - 1], changes[positions[n]])
  BY <1>9
<1> QED
  BY <1>8, <1>10 DEF Unwinds

\* What one turn makes of a cell.
Turned(is, was, position, key, id, c) ==
  \/ Hits(position, key, id, c) /\ is \in Restored(changes[position].original)
  \/ ~Hits(position, key, id, c) /\ is = was
  \/ ~Hits(position, key, id, c) /\ InColumn(position, key, c) /\ is = AsText(was)

\* One more turn: the change hits the cell and decides it, or leaves it.
LEMMA OneTurn ==
  ASSUME NEW ts, NEW positions, NEW n \in Nat \ {0}, NEW us, Unwound(us, ts, positions, n - 1),
         changes[positions[n]].original \in Nat
  PROVE  Unwound(Undo(us, changes[positions[n]]), ts, positions, n)
<1>1. PICK change : change = changes[positions[n]]
  OBVIOUS
<1>2. PICK vs : vs = Undo(us, change)
  OBVIOUS
<1>3. us \in [DOMAIN ts -> AnyTable] /\ change.original \in Nat
  BY <1>1 DEF Unwound
<1>4. /\ vs \in [DOMAIN ts -> AnyTable]
      /\ \A key \in DOMAIN ts : vs[key] = IF key = change.key THEN PutBack(us[key], change)
                                                            ELSE us[key]
  BY <1>2, <1>3, UndoShape
<1>5. ASSUME NEW key \in DOMAIN ts
      PROVE  /\ vs[key].columns = ts[key].columns /\ Len(vs[key].rows) = Len(ts[key].rows)
             /\ DOMAIN vs[key].rows = DOMAIN ts[key].rows
             /\ \A i \in DOMAIN ts[key].rows :
                  /\ vs[key].rows[i].id = ts[key].rows[i].id
                  /\ \A c \in ts[key].columns :
                       Turned(vs[key].rows[i].cells[c], us[key].rows[i].cells[c], positions[n],
                              key, ts[key].rows[i].id, c)
  <2>1. PICK t, u, v : t = ts[key] /\ u = us[key] /\ v = vs[key]
    OBVIOUS
  <2>2. /\ u.columns = t.columns /\ Len(u.rows) = Len(t.rows) /\ DOMAIN u.rows = DOMAIN t.rows
        /\ \A i \in DOMAIN t.rows : u.rows[i].id = t.rows[i].id
    BY <2>1 DEF Unwound
  <2>3. \A id, c : Hits(positions[n], key, id, c) <=>
                     key = change.key /\ id = change.id /\ c = change.column
    BY <1>1 DEF Hits, SameCell
  <2>4. CASE key = change.key
    <3>1. v = PutBack(u, change)
      BY <1>4, <2>1, <2>4
    <3>2. IsTable(u)
      BY <1>3, <2>1, AnyTableIs
    <3>3. /\ v.columns = u.columns /\ Len(v.rows) = Len(u.rows) /\ DOMAIN v.rows = DOMAIN u.rows
          /\ \A i \in DOMAIN u.rows :
               /\ v.rows[i].id = u.rows[i].id
               /\ \A c \in u.columns :
                    PutIn(v.rows[i].cells[c], u.rows[i].cells[c], u.rows[i].id, c, change)
      <4>1. LET w == PutBack(u, change)
            IN  /\ w.columns = u.columns /\ Len(w.rows) = Len(u.rows)
                /\ DOMAIN w.rows = DOMAIN u.rows
                /\ \A i \in DOMAIN u.rows :
                     /\ w.rows[i].id = u.rows[i].id
                     /\ \A c \in u.columns :
                          PutIn(w.rows[i].cells[c], u.rows[i].cells[c], u.rows[i].id, c, change)
        BY <1>3, <3>2, PutBackShape
      <4> QED
        BY <3>1, <4>1
    <3>4. ASSUME NEW i \in DOMAIN t.rows
          PROVE  /\ v.rows[i].id = t.rows[i].id
                 /\ \A c \in t.columns :
                      Turned(v.rows[i].cells[c], u.rows[i].cells[c], positions[n],
                             key, t.rows[i].id, c)
      <4>1. i \in DOMAIN u.rows /\ u.rows[i].id = t.rows[i].id
        BY <2>2
      <4>2. \A c \in t.columns : c \in u.columns
        BY <2>2
      <4> QED
        BY <1>1, <2>3, <2>4, <3>3, <4>1, <4>2 DEF PutIn, Turned, InColumn
    <3>5. v.columns = t.columns /\ Len(v.rows) = Len(t.rows) /\ DOMAIN v.rows = DOMAIN t.rows
      BY <2>2, <3>3
    <3> QED
      BY <2>1, <3>4, <3>5
  <2>5. CASE key # change.key
    <3>1. v = u
      BY <1>4, <2>1, <2>5
    <3> QED
      BY <2>1, <2>2, <2>3, <2>5, <3>1 DEF Turned
  <2> QED
    BY <2>4, <2>5
<1>6. ASSUME NEW key \in DOMAIN ts, NEW i \in DOMAIN ts[key].rows, NEW c \in ts[key].columns
      PROVE  Settles(vs[key].rows[i].cells[c], ts[key].rows[i].cells[c], positions, n,
                     key, ts[key].rows[i].id, c)
  <2>1. PICK id, old, was, is : /\ id = ts[key].rows[i].id /\ old = ts[key].rows[i].cells[c]
                                /\ was = us[key].rows[i].cells[c]
                                /\ is = vs[key].rows[i].cells[c]
    OBVIOUS
  <2>2. Settles(was, old, positions, n - 1, key, id, c)
    BY <2>1 DEF Unwound
  <2>3. Turned(is, was, positions[n], key, id, c)
    BY <1>5, <2>1
  <2>4. CASE Hits(positions[n], key, id, c)
    <3>1. is \in Restored(changes[positions[n]].original)
      BY <2>3, <2>4 DEF Turned
    <3>2. n \in 1 .. n /\ \A l \in n + 1 .. n : FALSE
      OBVIOUS
    <3>3. Settles(is, old, positions, n, key, id, c)
      BY <2>4, <3>1, <3>2 DEF Settles
    <3> QED
      BY <2>1, <3>3
  <2>5. CASE ~Hits(positions[n], key, id, c)
    <3>1. is = was \/ (InColumn(positions[n], key, c) /\ is = AsText(was))
      BY <2>3, <2>5 DEF Turned, Hits, SameCell, InColumn
    <3>2. CASE Kept(was, old, positions, n - 1, key, c)
               /\ \A m \in 1 .. n - 1 : ~Hits(positions[m], key, id, c)
      <4>1. /\ \A m \in 1 .. n : m \in 1 .. n - 1 \/ m = n
            /\ \A m \in 1 .. n - 1 : m \in 1 .. n
            /\ n \in 1 .. n
        OBVIOUS
      <4>2. \A m \in 1 .. n : ~Hits(positions[m], key, id, c)
        BY <2>5, <3>2, <4>1
      <4>3. Kept(is, old, positions, n, key, c)
        BY <3>1, <3>2, <4>1, CastTwice DEF Kept
      <4>4. Settles(is, old, positions, n, key, id, c)
        BY <4>2, <4>3 DEF Settles
      <4> QED
        BY <2>1, <4>4
    <3>3. CASE \E m \in 1 .. n - 1 :
                 /\ Hits(positions[m], key, id, c)
                 /\ was \in Restored(changes[positions[m]].original)
                 /\ \A l \in m + 1 .. n - 1 : ~Hits(positions[l], key, id, c)
      <4>1. PICK m \in 1 .. n - 1 :
                 /\ Hits(positions[m], key, id, c)
                 /\ was \in Restored(changes[positions[m]].original)
                 /\ \A l \in m + 1 .. n - 1 : ~Hits(positions[l], key, id, c)
        BY <3>3
      <4>2. m \in 1 .. n /\ \A l \in m + 1 .. n : l \in m + 1 .. n - 1 \/ l = n
        OBVIOUS
      <4>3. \A l \in m + 1 .. n : ~Hits(positions[l], key, id, c)
        BY <2>5, <4>1, <4>2
      <4>4. is \in Restored(changes[positions[m]].original)
        BY <3>1, <4>1, CastTwice DEF Restored
      <4>5. Settles(is, old, positions, n, key, id, c)
        BY <4>1, <4>2, <4>3, <4>4 DEF Settles
      <4> QED
        BY <2>1, <4>5
    <3> QED
      BY <2>2, <3>2, <3>3 DEF Settles
  <2> QED
    BY <2>4, <2>5
<1>7. Unwound(vs, ts, positions, n)
  BY <1>4, <1>5, <1>6 DEF Unwound
<1> QED
  BY <1>1, <1>2, <1>7

\* After all turns, the last change undone decides each cell, and nothing else changed.
LEMMA UndoneUnwinds ==
  ASSUME NEW ts, ts \in [DOMAIN ts -> AnyTable], NEW N \in Nat, NEW positions, Len(positions) = N,
         \A n \in 1 .. N : changes[positions[n]].original \in Nat
  PROVE  Unwound(Undone(ts, positions)[N], ts, positions, N)
<1>1. PICK f : f = Undone(ts, positions)
  OBVIOUS
<1>2. Unwinds(f, ts, positions, N)
  BY <1>1, UndoneTurns
<1> DEFINE Good == {n \in 0 .. N : Unwound(f[n], ts, positions, n)}
<1>3. 0 \in Good
  <2>1. Unwound(ts, ts, positions, 0)
    BY DEF Unwound, Settles, Kept
  <2> QED
    BY <1>2, <2>1 DEF Unwinds
<1>4. ASSUME NEW n \in 1 .. N, n - 1 \in Good PROVE n \in Good
  <2>1. Unwound(f[n - 1], ts, positions, n - 1)
    BY <1>4
  <2>2. Unwound(Undo(f[n - 1], changes[positions[n]]), ts, positions, n)
    BY <2>1, OneTurn
  <2> QED
    BY <1>2, <2>2 DEF Unwinds
<1>5. N \in Good
  <2>1. \A n \in 1 .. N : n - 1 \in Good => n \in Good
    BY <1>4
  <2> HIDE DEF Good
  <2>2. \A n \in 0 .. N : n \in Good
    BY <1>3, <2>1, CountingUp
  <2> QED
    BY <2>2
<1> QED
  BY <1>1, <1>5

\* The records of the log, one by one.
LEMMA ChangesTyped ==
  ASSUME Inv
  PROVE  /\ DOMAIN changes = 1 .. Len(changes) /\ Len(changes) \in Nat
         /\ \A n \in DOMAIN changes : changes[n] \in Entries(DOMAIN tables, 1 .. nextId - 1)
         /\ \A n \in CellChanges :
              /\ n \in Nat /\ changes[n].original \in Nat /\ changes[n].column \in Columns
              /\ changes[n].key \in DOMAIN tables /\ changes[n].id \in 1 .. nextId - 1
<1>1. changes \in Seq(Entries(DOMAIN tables, 1 .. nextId - 1))
  BY DEF Inv, Recorded
<1>2. /\ DOMAIN changes = 1 .. Len(changes) /\ Len(changes) \in Nat
      /\ \A n \in 1 .. Len(changes) : changes[n] \in Entries(DOMAIN tables, 1 .. nextId - 1)
  BY <1>1, LenProperties, ElementOfSeq
<1>3. \A n \in CellChanges : n \in 1 .. Len(changes) /\ changes[n].kind = "cell_changed"
  BY <1>2 DEF CellChanges
<1> QED
  BY <1>2, <1>3 DEF Entries

\* The rejected positions from the last to the first.
LEMMA RejectedOrder ==
  ASSUME Inv
  PROVE  LET N == Cardinality(rejected)
             positions == Reverse(Sorted(rejected))
         IN  /\ IsFiniteSet(rejected) /\ N \in Nat /\ Len(positions) = N
             /\ \A n \in 1 .. N : positions[n] \in rejected
             /\ \A p \in rejected : \E n \in 1 .. N : positions[n] = p
             /\ \A m, n \in 1 .. N : m < n => positions[n] < positions[m]
<1>1. rejected \in SUBSET Int /\ IsFiniteSet(rejected)
  <2>1. rejected \in SUBSET (1 .. Len(changes)) /\ Len(changes) \in Nat
    BY ChangesTyped DEF Inv, Reviewed, CellChanges
  <2>2. IsFiniteSet(1 .. Len(changes))
    BY <2>1, FS_Interval
  <2>3. IsFiniteSet(rejected)
    BY <2>1, <2>2, FS_Subset
  <2>4. rejected \in SUBSET Int
    BY <2>1
  <2> QED
    BY <2>3, <2>4
<1>2. PICK N, order : N = Cardinality(rejected) /\ order = Sorted(rejected)
  OBVIOUS
<1>3. /\ N \in Nat /\ order \in [1 .. N -> rejected]
      /\ \A p \in rejected : \E n \in 1 .. N : order[n] = p
      /\ \A i, j \in 1 .. N : i < j => order[i] < order[j]
  BY <1>1, <1>2, SortedLists
<1>4. Len(order) = N
  <2>1. order \in Seq(rejected) /\ DOMAIN order = 1 .. N
    BY <1>3, SeqDef
  <2> QED
    BY <1>3, <2>1, LenProperties
<1>5. PICK positions : positions = Reverse(order)
  OBVIOUS
<1>6. positions = [n \in 1 .. N |-> order[(N - n) + 1]]
  BY <1>4, <1>5 DEF Reverse
<1>7. positions \in [1 .. N -> rejected]
  BY <1>3, <1>6
<1>8. Len(positions) = N
  <2>1. positions \in Seq(rejected) /\ DOMAIN positions = 1 .. N
    BY <1>3, <1>7, SeqDef
  <2> QED
    BY <1>3, <2>1, LenProperties
<1>9. ASSUME NEW p \in rejected PROVE \E n \in 1 .. N : positions[n] = p
  <2>1. PICK i \in 1 .. N : order[i] = p
    BY <1>3
  <2>2. (N - i) + 1 \in 1 .. N /\ (N - ((N - i) + 1)) + 1 = i
    BY <1>3
  <2> QED
    BY <1>6, <2>1, <2>2
<1>10. ASSUME NEW m \in 1 .. N, NEW n \in 1 .. N, m < n PROVE positions[n] < positions[m]
  <2>1. (N - n) + 1 \in 1 .. N /\ (N - m) + 1 \in 1 .. N /\ (N - n) + 1 < (N - m) + 1
    BY <1>3, <1>10
  <2> QED
    BY <1>3, <1>6, <2>1
<1> QED
  BY <1>1, <1>2, <1>3, <1>5, <1>7, <1>8, <1>9, <1>10

\* The run's tables are tables.
LEMMA TablesTyped ==
  ASSUME Inv
  PROVE  tables \in [DOMAIN tables -> AnyTable]
<1>1. \A key \in DOMAIN tables : tables[key] \in AnyTable
  BY AnyTableIs DEF Inv, Identities, Sound, Holds, From
<1> QED
  BY <1>1 DEF Inv, Identities

\* The executor's result, cell by cell.
LEMMA ResultUnwound ==
  ASSUME Inv
  PROVE  Unwound(WithoutRejected(tables), tables, Reverse(Sorted(rejected)), Cardinality(rejected))
<1>1. PICK N, positions : N = Cardinality(rejected) /\ positions = Reverse(Sorted(rejected))
  OBVIOUS
<1>2. N \in Nat /\ Len(positions) = N /\ \A n \in 1 .. N : positions[n] \in rejected
  BY <1>1, RejectedOrder
<1>3. \A n \in 1 .. N : changes[positions[n]].original \in Nat
  BY <1>2, ChangesTyped DEF Inv, Reviewed
<1>4. Unwound(Undone(tables, positions)[N], tables, positions, N)
  BY <1>2, <1>3, TablesTyped, UndoneUnwinds
<1> QED
  BY <1>1, <1>4 DEF WithoutRejected

\* Undoing keeps the rows and their identities.
LEMMA UnwoundSound ==
  ASSUME NEW ts, NEW next, Sound(ts, next), NEW us, NEW positions, NEW n,
         Unwound(us, ts, positions, n)
  PROVE  Sound(us, next) /\ DOMAIN us = DOMAIN ts
<1>1. DOMAIN us = DOMAIN ts /\ \A key \in DOMAIN ts : us[key] \in AnyTable
  BY DEF Unwound
<1>2. ASSUME NEW key \in DOMAIN ts PROVE Holds(us[key], 1 .. next - 1) /\ Distinct(us[key])
  <2>1. PICK t, u : t = ts[key] /\ u = us[key]
    OBVIOUS
  <2>2. Holds(t, 1 .. next - 1) /\ Distinct(t)
    BY <2>1 DEF Sound
  <2>3. /\ IsTable(u) /\ u.columns \in SUBSET Columns
        /\ DOMAIN u.rows = DOMAIN t.rows /\ \A i \in DOMAIN t.rows : u.rows[i].id = t.rows[i].id
    BY <1>1, <2>1, AnyTableIs DEF Unwound
  <2>4. Holds(u, 1 .. next - 1) /\ Distinct(u)
    BY <2>2, <2>3 DEF Holds, From, Distinct
  <2> QED
    BY <2>1, <2>4
<1> QED
  BY <1>1, <1>2 DEF Sound

-----------------------------------------------------------------------------
(* The first state *)

Starts(book, f) ==
  /\ f[0] = 1
  /\ \A n \in 1 .. Len(book) : f[n] = f[n - 1] + Len(book[n].rows)

\* The first identities run on from sheet to sheet.
LEMMA FirstIdsRun ==
  ASSUME NEW book, NEW N \in Nat, N = Len(book),
         \A n \in 1 .. N : Len(book[n].rows) \in Nat
  PROVE  Starts(book, FirstIds(book))
<1> DEFINE step == [p \in Nat \X (1 .. N) |-> p[1] + Len(book[p[2]].rows)]
           Steps(f) == f = [n \in 0 .. Len(book) |->
                              IF n = 0 THEN 1 ELSE f[n - 1] + Len(book[n].rows)]
<1>1. /\ step \in [Nat \X (1 .. N) -> Nat]
      /\ \A m \in Nat, n \in 1 .. N : step[<<m, n>>] = m + Len(book[n].rows)
  OBVIOUS
<1> HIDE DEF step
<1>2. PICK f : Repeats(f, N, Nat, 1, step)
  BY <1>1, 1 \in Nat, Repeating
<1>3. Steps(f)
  <2>1. f = [n \in 0 .. N |-> f[n]]
    BY <1>2 DEF Repeats
  <2>2. ASSUME NEW n \in 0 .. N
        PROVE  f[n] = IF n = 0 THEN 1 ELSE f[n - 1] + Len(book[n].rows)
    <3>1. CASE n = 0
      BY <1>2, <3>1 DEF Repeats
    <3>2. CASE n # 0
      <4>1. n \in 1 .. N /\ n - 1 \in 0 .. N
        BY <3>2
      <4>2. f[n - 1] \in Nat /\ f[n] = step[<<f[n - 1], n>>]
        BY <1>2, <4>1 DEF Repeats
      <4> QED
        BY <1>1, <3>2, <4>1, <4>2
    <3> QED
      BY <3>1, <3>2
  <2> QED
    BY <2>1, <2>2
<1>4. FirstIds(book) = CHOOSE g : Steps(g)
  BY DEF FirstIds
<1>5. Steps(FirstIds(book))
  <2> HIDE DEF Steps
  <2> QED
    BY <1>3, <1>4
<1>6. PICK g : g = FirstIds(book)
  OBVIOUS
<1>7. g = [n \in 0 .. N |-> IF n = 0 THEN 1 ELSE g[n - 1] + Len(book[n].rows)]
  BY <1>5, <1>6
<1>8. g[0] = 1 /\ \A n \in 1 .. N : g[n] = g[n - 1] + Len(book[n].rows)
  BY <1>7
<1> QED
  BY <1>6, <1>8 DEF Starts

\* The first identities never come down.
LEMMA FirstIdsRise ==
  ASSUME NEW book, NEW N \in Nat, N = Len(book),
         \A n \in 1 .. N : Len(book[n].rows) \in Nat, NEW f, Starts(book, f)
  PROVE  \A n \in 0 .. N : f[n] \in Nat \ {0} /\ \A m \in 0 .. n : f[m] <= f[n]
<1> DEFINE Good == {n \in 0 .. N : /\ f[n] \in Nat \ {0}
                                   /\ \A m \in 0 .. n : f[m] \in Nat /\ f[m] <= f[n]}
<1>1. 0 \in Good
  BY DEF Starts
<1>2. ASSUME NEW n \in 1 .. N, n - 1 \in Good PROVE n \in Good
  <2>1. f[n - 1] \in Nat \ {0} /\ \A m \in 0 .. n - 1 : f[m] \in Nat /\ f[m] <= f[n - 1]
    BY <1>2
  <2>2. f[n] = f[n - 1] + Len(book[n].rows) /\ Len(book[n].rows) \in Nat
    BY DEF Starts
  <2>3. \A m \in 0 .. n : m \in 0 .. n - 1 \/ m = n
    OBVIOUS
  <2>4. PICK last, next : last = f[n - 1] /\ next = f[n]
    OBVIOUS
  <2>5. last \in Nat \ {0} /\ next \in Nat \ {0} /\ last <= next
    BY <2>1, <2>2, <2>4
  <2>6. ASSUME NEW m \in 0 .. n PROVE f[m] \in Nat /\ f[m] <= next
    <3>1. CASE m \in 0 .. n - 1
      <4>1. f[m] \in Nat /\ f[m] <= last
        BY <2>1, <2>4, <3>1
      <4> QED
        BY <2>5, <4>1
    <3>2. CASE m = n
      BY <2>4, <2>5, <3>2
    <3> QED
      BY <2>3, <3>1, <3>2
  <2>7. n \in 0 .. N
    OBVIOUS
  <2> QED
    BY <2>4, <2>5, <2>6, <2>7
<1>3. \A n \in 1 .. N : n - 1 \in Good => n \in Good
  BY <1>2
<1> HIDE DEF Good
<1>4. \A n \in 0 .. N : n \in Good
  BY <1>1, <1>3, CountingUp
<1> QED
  BY <1>4 DEF Good

\* The loaded sheets have distinct identities.
LEMMA LoadedSound ==
  ASSUME NEW book \in Inputs
  PROVE  LET next == FirstIds(book)[Len(book)]
         IN  /\ next \in Nat \ {0}
             /\ Sound(Loaded(book), next)
             /\ Sheet(1) \in DOMAIN Loaded(book)
             /\ Loaded(book) = [k \in DOMAIN Loaded(book) |-> Loaded(book)[k]]
<1>1. PICK N : N = Len(book)
  OBVIOUS
<1>2. /\ N \in Nat \ {0} /\ DOMAIN book = 1 .. N
      /\ \A n \in 1 .. N : IsTable(book[n]) /\ book[n].columns \subseteq Columns
  <2>1. book \in Seq(Range(book)) /\ book # <<>>
    BY InputsAssumption
  <2>2. N \in Nat /\ DOMAIN book = 1 .. N
    BY <1>1, <2>1, LenProperties
  <2>3. N # 0
    BY <1>1, <2>1, <2>2, EmptySeq
  <2>4. \A n \in 1 .. N : book[n] \in Range(book)
    BY <2>2 DEF Range
  <2> QED
    BY <2>2, <2>3, <2>4, InputsAssumption
<1>3. \A n \in 1 .. N : Len(book[n].rows) \in Nat
  BY <1>2, TableShape
<1>4. PICK f : f = FirstIds(book)
  OBVIOUS
<1>5. Starts(book, f)
  BY <1>1, <1>2, <1>3, <1>4, FirstIdsRun
<1>6. \A n \in 0 .. N : f[n] \in Nat \ {0} /\ \A m \in 0 .. n : f[m] <= f[n]
  BY <1>1, <1>2, <1>3, <1>5, FirstIdsRise
<1>7. PICK next : next = f[N]
  OBVIOUS
<1>8. next \in Nat \ {0}
  BY <1>2, <1>6, <1>7
<1>9. PICK ts : ts = Loaded(book)
  OBVIOUS
<1>10. /\ DOMAIN ts = {Sheet(n) : n \in 1 .. N}
       /\ ts = [k \in DOMAIN ts |-> ts[k]]
       /\ \A n \in 1 .. N : ts[Sheet(n)] = WithRowIds(book[n], f[n - 1])
  BY <1>2, <1>4, <1>9 DEF Loaded, Sheet
<1>11. ASSUME NEW n \in 1 .. N
       PROVE  Holds(ts[Sheet(n)], 1 .. next - 1) /\ Distinct(ts[Sheet(n)])
  <2>1. PICK t, first : t = book[n] /\ first = f[n - 1]
    OBVIOUS
  <2>2. IsTable(t) /\ t.columns \subseteq Columns /\ Len(t.rows) \in Nat
    BY <1>2, <1>3, <2>1
  <2>3. first \in Nat \ {0} /\ f[n] = first + Len(t.rows) /\ f[n] <= next
    <3>1. n - 1 \in 0 .. N /\ n \in 0 .. N /\ N \in 0 .. N
      BY <1>2
    <3>2. f[n] = f[n - 1] + Len(book[n].rows)
      BY <1>1, <1>5 DEF Starts
    <3>3. f[n] <= f[N]
      BY <1>6, <3>1
    <3> QED
      BY <1>6, <1>7, <2>1, <3>1, <3>2, <3>3
  <2>4. PICK u : u = WithRowIds(t, first)
    OBVIOUS
  <2>5. /\ IsTable(u) /\ u.columns = t.columns /\ Distinct(u)
        /\ From(u, u.columns, first .. first + Len(t.rows) - 1)
    BY <2>2, <2>3, <2>4, WithRowIdsShape
  <2>6. first .. first + Len(t.rows) - 1 \subseteq 1 .. next - 1
    BY <1>8, <2>2, <2>3
  <2>7. Holds(u, 1 .. next - 1)
    BY <2>2, <2>5, <2>6 DEF Holds, From
  <2> QED
    BY <1>10, <2>1, <2>4, <2>5, <2>7
<1>12. IsFiniteSet(DOMAIN ts)
  <2>1. IsFiniteSet(1 .. N)
    BY <1>2, FS_Interval
  <2>2. [n \in 1 .. N |-> Sheet(n)] \in Surjection(1 .. N, DOMAIN ts)
    BY <1>10 DEF Surjection
  <2> QED
    BY <2>1, <2>2, FS_Surjection
<1>13. Sound(ts, next)
  BY <1>10, <1>11, <1>12 DEF Sound
<1>14. Sheet(1) \in DOMAIN ts
  BY <1>2, <1>10
<1> QED
  BY <1>1, <1>4, <1>7, <1>8, <1>9, <1>10, <1>13, <1>14

\* The invariant holds when the tables are loaded.
LEMMA InitInv == Init => Inv
<1> SUFFICES ASSUME Init PROVE Inv
  OBVIOUS
<1>1. PICK book \in Inputs : original = Loaded(book) /\ nextId = FirstIds(book)[Len(book)]
  BY DEF Init
<1>2. /\ nextId \in Nat \ {0} /\ Sound(original, nextId) /\ Sheet(1) \in DOMAIN original
      /\ original = [k \in DOMAIN original |-> original[k]]
  BY <1>1, LoadedSound
<1>3. /\ tables = original /\ final = original /\ changes = <<>> /\ total = 0
      /\ pc = "running" /\ failure = "none" /\ target = Sheet(1) /\ done = 0 /\ rejected = {}
  BY DEF Init
<1>4. Identities
  BY <1>2, <1>3 DEF Identities
<1>5. MaxRecords \in Nat /\ MaxSteps \in Nat
  BY BoundsAssumption
<1>6. Recorded
  BY <1>3, <1>5, EmptySeq DEF Recorded
<1>7. Reviewed
  BY <1>2, <1>3, <1>5 DEF Reviewed, Executed
<1> QED
  BY <1>4, <1>6, <1>7 DEF Inv

-----------------------------------------------------------------------------
(* The steps *)

\* A run that fails keeps what it has.
LEMMA RaiseInv ==
  ASSUME Inv, NEW cause, Raise(cause),
         cause \in {"no_columns", "operation", "execution", "duplicates", "category",
                    "summary", "issues"}
  PROVE  Inv'
<1>1. /\ pc' = "failed" /\ failure' = cause
      /\ UNCHANGED <<original, tables, nextId, changes, total, target, done, rejected, final>>
  BY DEF Raise
<1>2. Identities'
  BY <1>1 DEF Inv, Identities, Sound
<1>3. Recorded'
  BY <1>1 DEF Inv, Recorded
<1>4. Reviewed'
  BY <1>1 DEF Inv, Reviewed, CellChanges, Executed
<1> QED
  BY <1>2, <1>3, <1>4 DEF Inv

\* What a step logs is about the tables and identities there are after it.
LEMMA GrowsLogged ==
  ASSUME Inv, NEW key, NEW t, NEW ts, NEW log, NEW middle, Grows(key, t, ts, log, middle)
  PROVE  LET D == Entries(DOMAIN tables', 1 .. nextId' - 1)
         IN  /\ changes \in Seq(D) /\ log \in Seq(D)
             /\ Diff(tables[key], t, key) \in Seq(D)
             /\ Diff(tables[key], t, key) \o log \in Seq(D)
<1>1. /\ key \in DOMAIN tables /\ middle \in Nat /\ nextId <= middle
      /\ nextId' \in Nat /\ middle <= nextId'
      /\ Holds(t, 1 .. middle - 1)
      /\ New(ts, middle, nextId', log) /\ DOMAIN tables' = DOMAIN tables \cup DOMAIN ts
  BY DEF Grows
<1>2. nextId \in Nat \ {0} /\ nextId' \in Nat \ {0} /\ nextId <= nextId'
  BY <1>1 DEF Inv, Identities
<1>3. PICK last \in Nat : last = nextId'
  BY <1>2
<1>4. /\ 1 .. nextId - 1 \subseteq 1 .. nextId' - 1
      /\ 1 .. middle - 1 \subseteq 1 .. nextId' - 1
      /\ middle .. nextId' - 1 \subseteq 1 .. nextId' - 1
  <2>1. nextId <= last /\ middle <= last /\ 1 <= middle
    BY <1>1, <1>2, <1>3
  <2>2. /\ 1 .. nextId - 1 \subseteq 1 .. last - 1
        /\ 1 .. middle - 1 \subseteq 1 .. last - 1
        /\ middle .. last - 1 \subseteq 1 .. last - 1
    BY <1>1, <1>2, <2>1
  <2> QED
    BY <1>3, <2>2
<1> DEFINE D == Entries(DOMAIN tables', 1 .. nextId' - 1)
<1>5. changes \in Seq(D)
  <2>1. Entries(DOMAIN tables, 1 .. nextId - 1) \subseteq D
    <3>1. DOMAIN tables \subseteq DOMAIN tables' /\ 1 .. nextId - 1 \subseteq 1 .. nextId' - 1
      BY <1>1, <1>4
    <3> QED
      BY <3>1 DEF Entries
  <2>2. changes \in Seq(Entries(DOMAIN tables, 1 .. nextId - 1))
    BY DEF Inv, Recorded
  <2> HIDE DEF D
  <2> QED
    BY <2>1, <2>2, Widened
<1>6. /\ log \in Seq(D) /\ Diff(tables[key], t, key) \in Seq(D)
      /\ Diff(tables[key], t, key) \o log \in Seq(D)
  <2>1. PICK before : before = tables[key]
    OBVIOUS
  <2>2. Holds(before, 1 .. nextId - 1)
    BY <1>1, <2>1 DEF Inv, Identities, Sound
  <2>3. Diff(before, t, key) \in Seq(Entries({key}, Ids(before) \cup Ids(t)))
    BY <1>1, <2>2, DiffListed DEF Holds, From
  <2>4. Ids(before) \cup Ids(t) \subseteq 1 .. nextId' - 1
    <3>1. Ids(before) \subseteq 1 .. nextId - 1 /\ Ids(t) \subseteq 1 .. middle - 1
      BY <1>1, <2>2 DEF Holds, From, Ids
    <3>2. 1 .. nextId - 1 \subseteq 1 .. nextId' - 1 /\ 1 .. middle - 1 \subseteq 1 .. nextId' - 1
      BY <1>4
    <3> QED
      BY <3>1, <3>2
  <2>5. Entries({key}, Ids(before) \cup Ids(t)) \subseteq D
    BY <1>1, <2>4 DEF Entries
  <2>6. log \in Seq(Entries(DOMAIN ts, middle .. nextId' - 1))
    BY <1>1 DEF New
  <2>7. Entries(DOMAIN ts, middle .. nextId' - 1) \subseteq D
    <3>1. DOMAIN ts \subseteq DOMAIN tables' /\ middle .. nextId' - 1 \subseteq 1 .. nextId' - 1
      BY <1>1, <1>4
    <3> QED
      BY <3>1 DEF Entries
  <2> HIDE DEF D
  <2>8. PICK diff : diff = Diff(before, t, key)
    OBVIOUS
  <2>9. diff \in Seq(D)
    BY <2>3, <2>5, <2>8, Widened
  <2>10. log \in Seq(D)
    BY <2>6, <2>7, Widened
  <2>11. diff \o log \in Seq(D)
    BY <2>9, <2>10, Concatenated
  <2> QED
    BY <2>1, <2>8, <2>9, <2>10, <2>11
<1> QED
  BY <1>5, <1>6

\* A step that the loop keeps preserves the invariant.
LEMMA GrowsInv ==
  ASSUME Inv, NEW key, NEW t, NEW ts, NEW log, NEW middle, Grows(key, t, ts, log, middle)
  PROVE  Inv'
<1>1. /\ pc = "running" /\ done < MaxSteps /\ key \in DOMAIN tables
      /\ middle \in Nat /\ nextId <= middle /\ nextId' \in Nat /\ middle <= nextId'
      /\ Holds(t, 1 .. middle - 1) /\ Distinct(t)
      /\ DOMAIN ts \cap DOMAIN tables = {} /\ IsFiniteSet(DOMAIN ts)
      /\ New(ts, middle, nextId', log)
      /\ DOMAIN tables' = DOMAIN tables \cup DOMAIN ts
      /\ tables' = [k \in DOMAIN tables' |-> tables'[k]]
      /\ \A k \in DOMAIN ts : tables'[k] = ts[k]
      /\ \A k \in DOMAIN tables : tables'[k] = IF k = key THEN t ELSE tables[k]
      /\ Log(Diff(tables[key], t, key) \o log)
      /\ target' = key /\ done' = done + 1
      /\ UNCHANGED <<pc, failure, original, rejected, final, report>>
  BY DEF Grows
<1>2. nextId \in Nat \ {0} /\ nextId' \in Nat \ {0} /\ nextId <= nextId'
  BY <1>1 DEF Inv, Identities
<1>3. Sound(tables', nextId')
  <2>1. IsFiniteSet(DOMAIN tables')
    <3>1. IsFiniteSet(DOMAIN tables) /\ IsFiniteSet(DOMAIN ts)
      BY <1>1 DEF Inv, Identities, Sound
    <3>2. IsFiniteSet(DOMAIN tables \cup DOMAIN ts)
      BY <3>1, FS_Union
    <3> QED
      BY <1>1, <3>2
  <2>2. ASSUME NEW k \in DOMAIN tables'
        PROVE  Holds(tables'[k], 1 .. nextId' - 1) /\ Distinct(tables'[k])
    <3>1. CASE k \in DOMAIN ts
      <4>1. Holds(ts[k], middle .. nextId' - 1) /\ Distinct(ts[k]) /\ tables'[k] = ts[k]
        BY <1>1, <3>1 DEF New
      <4>2. middle .. nextId' - 1 \subseteq 1 .. nextId' - 1
        BY <1>1, <1>2
      <4> QED
        BY <4>1, <4>2 DEF Holds, From
    <3>2. CASE k = key
      <4>1. tables'[k] = t
        BY <1>1, <3>2
      <4>2. 1 .. middle - 1 \subseteq 1 .. nextId' - 1
        BY <1>1
      <4> QED
        BY <1>1, <4>1, <4>2 DEF Holds, From
    <3>3. CASE k \in DOMAIN tables /\ k # key
      <4>1. Holds(tables[k], 1 .. nextId - 1) /\ Distinct(tables[k]) /\ tables'[k] = tables[k]
        BY <1>1, <3>3 DEF Inv, Identities, Sound
      <4>2. 1 .. nextId - 1 \subseteq 1 .. nextId' - 1
        BY <1>1, <1>2
      <4> QED
        BY <4>1, <4>2 DEF Holds, From
    <3> QED
      BY <1>1, <3>1, <3>2, <3>3
  <2> QED
    BY <2>1, <2>2 DEF Sound
<1>4. Identities'
  <2>1. Sound(original, nextId') /\ Sound(final, nextId')
    BY <1>2, SoundLater DEF Inv, Identities
  <2>2. DOMAIN original \subseteq DOMAIN tables'
    BY <1>1 DEF Inv, Identities
  <2> QED
    BY <1>1, <1>2, <1>3, <2>1, <2>2 DEF Identities
<1>5. PICK D : D = Entries(DOMAIN tables', 1 .. nextId' - 1)
  OBVIOUS
<1>6. changes \in Seq(D) /\ Diff(tables[key], t, key) \o log \in Seq(D)
  BY <1>5, GrowsLogged
<1>7. /\ changes' \in Seq(D) /\ total' \in Nat
      /\ Len(changes') <= MaxRecords /\ Len(changes') <= total'
      /\ Len(changes) <= Len(changes')
      /\ \A n \in 1 .. Len(changes) : changes'[n] = changes[n]
  <2>1. PICK entries : entries = Diff(tables[key], t, key) \o log
    OBVIOUS
  <2>2. entries \in Seq(D) /\ Log(entries)
    BY <1>1, <1>6, <2>1
  <2>3. total \in Nat /\ Len(changes) <= MaxRecords /\ Len(changes) <= total
    BY DEF Inv, Recorded
  <2> QED
    BY <1>6, <2>2, <2>3, LogShape
<1>8. Recorded'
  BY <1>5, <1>7 DEF Recorded
<1>9. Reviewed'
  <2>1. /\ DOMAIN changes = 1 .. Len(changes) /\ Len(changes) \in Nat
        /\ DOMAIN changes' = 1 .. Len(changes') /\ Len(changes') \in Nat
    <3>1. DOMAIN changes = 1 .. Len(changes) /\ Len(changes) \in Nat
      BY ChangesTyped
    <3>2. DOMAIN changes' = 1 .. Len(changes') /\ Len(changes') \in Nat
      BY <1>7, LenProperties
    <3> QED
      BY <3>1, <3>2
  <2>2. CellChanges \subseteq CellChanges'
    BY <1>7, <2>1 DEF CellChanges
  <2>3. rejected' \subseteq CellChanges'
    BY <1>1, <2>2 DEF Inv, Reviewed
  <2>4. target' \in DOMAIN tables'
    BY <1>1
  <2>5. done' \in 0 .. MaxSteps
    BY <1>1, BoundsAssumption DEF Inv, Reviewed
  <2>6. pc' = "running" /\ failure' = failure /\ ~Executed'
    BY <1>1 DEF Executed
  <2> QED
    BY <2>3, <2>4, <2>5, <2>6 DEF Inv, Reviewed
<1> QED
  BY <1>4, <1>8, <1>9 DEF Inv

\* The reviewer's choice preserves it.
LEMMA ApproveInv == Inv /\ Approve => Inv'
<1> SUFFICES ASSUME Inv, Approve PROVE Inv'
  OBVIOUS
<1>1. /\ pc' = "approved" /\ rejected' \subseteq CellChanges
      /\ UNCHANGED <<failure, original, tables, nextId, changes, total, target, done, final>>
  BY DEF Approve
<1>2. Identities'
  BY <1>1 DEF Inv, Identities, Sound
<1>3. Recorded'
  BY <1>1 DEF Inv, Recorded
<1>4. Reviewed'
  BY <1>1 DEF Inv, Reviewed, CellChanges, Executed
<1> QED
  BY <1>2, <1>3, <1>4 DEF Inv

\* The execution preserves it.
LEMMA ExecuteInv == Inv /\ Execute => Inv'
<1> SUFFICES ASSUME Inv, Execute PROVE Inv'
  OBVIOUS
<1>1. CASE Raise("execution")
  BY <1>1, RaiseInv
<1>2. CASE ~Raise("execution")
  <2>1. /\ \A n \in rejected : changes[n].column \in tables[changes[n].key].columns
        /\ final' = WithoutRejected(tables) /\ report' = Reconciled(WithoutRejected(tables))
        /\ pc' \in {"published", "refused"}
        /\ UNCHANGED <<failure, original, tables, nextId, changes, total, target, done, rejected>>
    BY <1>2 DEF Execute
  <2>2. Unwound(WithoutRejected(tables), tables, Reverse(Sorted(rejected)), Cardinality(rejected))
    BY ResultUnwound
  <2>3. Sound(final', nextId)
    BY <2>1, <2>2, UnwoundSound DEF Inv, Identities
  <2>4. Identities'
    <3>1. Sound(final, nextId)'
      BY <2>1, <2>3
    <3> QED
      BY <2>1, <3>1 DEF Inv, Identities
  <2>5. Recorded'
    BY <2>1 DEF Inv, Recorded
  <2>6. WithoutRejected(tables)' = WithoutRejected(tables)
    <3>1. tables' = tables /\ changes' = changes /\ rejected' = rejected
      BY <2>1
    <3> QED
      BY <3>1 DEF WithoutRejected, Undone, Undo, WithCells
  <2>7. Reconciled(final)' = Reconciled(WithoutRejected(tables))
    BY <2>1 DEF Reconciled, TrackedRows, RowCount
  <2>8. Reviewed'
    BY <2>1, <2>6, <2>7 DEF Inv, Reviewed, CellChanges
  <2> QED
    BY <2>4, <2>5, <2>8 DEF Inv
<1> QED
  BY <1>1, <1>2

\* Every step preserves the invariant.
LEMMA NextInv == Inv /\ [Next]_vars => Inv'
<1> SUFFICES ASSUME Inv, [Next]_vars PROVE Inv'
  OBVIOUS
<1>1. CASE PlanStep
  BY <1>1, PlanStepEffect, RaiseInv, GrowsInv
<1>2. CASE StepRaises
  BY <1>2, RaiseInv DEF StepRaises
<1>3. CASE FinishRun
  <2>1. /\ pc' = "previewed"
        /\ UNCHANGED <<failure, original, tables, nextId, changes, total, target, done,
                       rejected, final>>
    BY <1>3 DEF FinishRun
  <2>2. Identities'
    BY <2>1 DEF Inv, Identities, Sound
  <2>3. Recorded'
    BY <2>1 DEF Inv, Recorded
  <2>4. Reviewed'
    BY <2>1 DEF Inv, Reviewed, CellChanges, Executed
  <2> QED
    BY <2>2, <2>3, <2>4 DEF Inv
<1>4. CASE Approve
  BY <1>4, ApproveInv
<1>5. CASE Execute
  BY <1>5, ExecuteInv
<1>6. CASE UNCHANGED vars
  <2>1. UNCHANGED <<pc, failure, original, tables, nextId, changes, total, target, done,
                    rejected, final, report>>
    BY <1>6 DEF vars
  <2>2. Identities'
    BY <2>1 DEF Inv, Identities, Sound
  <2>3. Recorded'
    BY <2>1 DEF Inv, Recorded
  <2>4. WithoutRejected(tables)' = WithoutRejected(tables)
    BY <2>1 DEF WithoutRejected, Undone, Undo, WithCells
  <2>5. Reconciled(final)' = Reconciled(final)
    BY <2>1 DEF Reconciled, TrackedRows, RowCount
  <2>6. Reviewed'
    BY <2>1, <2>4, <2>5 DEF Inv, Reviewed, CellChanges, Executed
  <2> QED
    BY <2>2, <2>3, <2>6 DEF Inv
<1> QED
  BY <1>1, <1>2, <1>3, <1>4, <1>5, <1>6 DEF Next, PlanStep, Edits

-----------------------------------------------------------------------------
(* What the review leaves *)

\* In every state of a run and its review, rows have distinct identities that were handed out,
\* the log is about tables and identities of the run, and an execution's result is the
\* previewed tables with the rejected changes undone (PlanRunner.run, JobExecutor.execute).
THEOREM ReviewInvariant == Spec => []Inv
<1> QED
  BY InitInv, NextInv, PTL DEF Spec

\* The invariant has the types in it.
LEMMA InvTypes == Inv => TypeOK
<1> SUFFICES ASSUME Inv PROVE TypeOK
  OBVIOUS
<1>1. ASSUME NEW ts \in {original, tables, final}, NEW key \in DOMAIN ts,
             NEW row \in Range(ts[key].rows)
      PROVE  /\ row.id \in 1 .. nextId - 1
             /\ DOMAIN row.cells = ts[key].columns /\ ts[key].columns \subseteq Columns
  <2>1. PICK t : t = ts[key]
    OBVIOUS
  <2>2. IsTable(t) /\ t.columns \subseteq Columns
        /\ \A i \in DOMAIN t.rows : t.rows[i].id \in 1 .. nextId - 1
    BY <2>1 DEF Inv, Identities, Sound, Holds, From
  <2>3. PICK i \in DOMAIN t.rows : row = t.rows[i]
    BY <2>1 DEF Range
  <2>4. row.cells \in [t.columns -> Nat]
    BY <2>2, <2>3, TableShape
  <2> QED
    BY <2>1, <2>2, <2>3, <2>4
<1>2. \A n \in DOMAIN changes :
        [kind |-> changes[n].kind, key |-> changes[n].key, id |-> changes[n].id] \in Records
  BY ChangesTyped DEF Entries, Kinds, Records
<1> QED
  BY <1>1, <1>2 DEF TypeOK, Inv, Recorded, Reviewed

\* The variables keep their types for every workbook: no record names an unknown table or
\* identity, and the collector's limit holds (_ChangeCollector.add).
THEOREM TypeCorrect == Spec => []TypeOK
<1> QED
  BY ReviewInvariant, InvTypes, PTL

\* The invariant has the distinct identities in it.
LEMMA InvIdentities == Inv => RowIdsUnique
BY DEF Inv, Identities, Sound, Distinct, RowIdsUnique, IsInjective

\* No chain of steps, of any length, gives two rows of a table the same internal_row_id
\* (_with_row_ids, _repair_duplicate_row_ids).
THEOREM IdentitiesStayUnique == Spec => []RowIdsUnique
<1> QED
  BY ReviewInvariant, InvIdentities, PTL

\* An unwound result differs only where a rejected change was.
LEMMA InvLocal == Inv => RejectionIsLocal
<1> SUFFICES ASSUME Inv, Executed PROVE RejectionIsLocal
  BY DEF RejectionIsLocal
<1>1. PICK N, positions : N = Cardinality(rejected) /\ positions = Reverse(Sorted(rejected))
  OBVIOUS
<1>2. N \in Nat /\ \A n \in 1 .. N : positions[n] \in rejected
  BY <1>1, RejectedOrder
<1>3. Unwound(final, tables, positions, N)
  BY <1>1, ResultUnwound DEF Inv, Reviewed
<1>4. ASSUME NEW key \in DOMAIN tables, NEW i \in DOMAIN tables[key].rows,
             NEW c \in tables[key].columns
      PROVE  \/ final[key].rows[i].cells[c] = tables[key].rows[i].cells[c]
             \/ \E n \in rejected :
                  /\ changes[n].key = key /\ changes[n].column = c
                  /\ \/ changes[n].id = tables[key].rows[i].id
                     \/ final[key].rows[i].cells[c] = AsText(tables[key].rows[i].cells[c])
  <2>1. PICK is, was, id : /\ is = final[key].rows[i].cells[c]
                           /\ was = tables[key].rows[i].cells[c] /\ id = tables[key].rows[i].id
    OBVIOUS
  <2>2. Settles(is, was, positions, N, key, id, c)
    BY <1>3, <2>1 DEF Unwound
  <2>3. CASE \E m \in 1 .. N : Hits(positions[m], key, id, c)
    BY <1>2, <2>1, <2>3 DEF Hits, SameCell
  <2>4. CASE Kept(is, was, positions, N, key, c)
    BY <1>2, <2>1, <2>4 DEF Kept, InColumn
  <2> QED
    BY <2>2, <2>3, <2>4 DEF Settles
<1>5. /\ DOMAIN final = DOMAIN tables
      /\ \A key \in DOMAIN tables :
           /\ final[key].columns = tables[key].columns
           /\ Len(final[key].rows) = Len(tables[key].rows)
           /\ \A i \in DOMAIN tables[key].rows : final[key].rows[i].id = tables[key].rows[i].id
  BY <1>3 DEF Unwound
<1> QED
  BY <1>4, <1>5 DEF RejectionIsLocal

\* apply_cell_rejections touches no cell, row or table beside those of the rejected changes,
\* however many there are, but that it may cast the column of a rejected change to text.
THEOREM RejectionsStayLocal == Spec => []RejectionIsLocal
<1> QED
  BY ReviewInvariant, InvLocal, PTL

\* Of the rejected changes of a cell, the earliest is undone last.
LEMMA InvRestores == Inv => RejectionRestoresFirstValue
<1> SUFFICES ASSUME Inv, Executed, NEW p \in rejected,
                    changes[p].id \in Ids(final[changes[p].key])
             PROVE  \E v \in Restored(FirstRejected(changes[p]).original) :
                      CellIn(final, changes[p].key, changes[p].id, changes[p].column) = <<v>>
  BY DEF RejectionRestoresFirstValue
<1>1. PICK N, positions : N = Cardinality(rejected) /\ positions = Reverse(Sorted(rejected))
  OBVIOUS
<1>2. /\ IsFiniteSet(rejected) /\ N \in Nat
      /\ \A n \in 1 .. N : positions[n] \in rejected
      /\ \A q \in rejected : \E n \in 1 .. N : positions[n] = q
      /\ \A m, n \in 1 .. N : m < n => positions[n] < positions[m]
  BY <1>1, RejectedOrder
<1>3. Unwound(final, tables, positions, N)
  BY <1>1, ResultUnwound DEF Inv, Reviewed
<1>4. PICK key, id, column :
        key = changes[p].key /\ id = changes[p].id /\ column = changes[p].column
  OBVIOUS
<1>5. rejected \subseteq CellChanges
  BY DEF Inv, Reviewed
<1>6. key \in DOMAIN tables /\ column \in tables[key].columns
  BY <1>4, <1>5, ChangesTyped DEF Inv, Reviewed
<1>7. PICK t, u : t = tables[key] /\ u = final[key]
  OBVIOUS
<1>8. /\ u.columns = t.columns /\ DOMAIN u.rows = DOMAIN t.rows
      /\ DOMAIN final = DOMAIN tables
      /\ \A i \in DOMAIN t.rows :
           /\ u.rows[i].id = t.rows[i].id
           /\ \A c \in t.columns :
                Settles(u.rows[i].cells[c], t.rows[i].cells[c], positions, N,
                        key, t.rows[i].id, c)
  BY <1>3, <1>6, <1>7 DEF Unwound
<1> DEFINE S == {m \in rejected : SameCell(changes[m], changes[p])}
           i == CHOOSE i \in DOMAIN u.rows : u.rows[i].id = id
<1>9. i \in DOMAIN u.rows /\ u.rows[i].id = id
  BY <1>4, <1>7 DEF Ids
<1> HIDE DEF i
<1>10. RowOf(u, id) = u.rows[i]
  BY DEF RowOf, i
<1>11. \A m \in 1 .. N : Hits(positions[m], key, id, column) <=> positions[m] \in S
  BY <1>2, <1>4 DEF Hits, SameCell
<1>12. S \in SUBSET Int /\ IsFiniteSet(S) /\ p \in S
  <2>1. S \in SUBSET rejected
    OBVIOUS
  <2>2. rejected \in SUBSET Int
    BY <1>5, ChangesTyped
  <2>3. p \in S
    BY DEF SameCell
  <2> HIDE DEF S
  <2> QED
    BY <1>2, <2>1, <2>2, <2>3, FS_Subset
<1>13. Min(S) \in S /\ \A q \in S : Min(S) <= q
  <2> HIDE DEF S
  <2> QED
    BY <1>12, Extremes
<1>14. PICK h \in 1 .. N : positions[h] = p
  BY <1>2
<1>15. Settles(u.rows[i].cells[column], t.rows[i].cells[column], positions, N, key, id, column)
  BY <1>6, <1>7, <1>8, <1>9
<1>16. PICK m \in 1 .. N :
         /\ positions[m] \in S
         /\ u.rows[i].cells[column] \in Restored(changes[positions[m]].original)
         /\ \A l \in m + 1 .. N : positions[l] \notin S
  <2>1. Hits(positions[h], key, id, column)
    BY <1>11, <1>12, <1>14
  <2>2. PICK m \in 1 .. N :
          /\ Hits(positions[m], key, id, column)
          /\ u.rows[i].cells[column] \in Restored(changes[positions[m]].original)
          /\ \A l \in m + 1 .. N : ~Hits(positions[l], key, id, column)
    BY <1>15, <2>1 DEF Settles
  <2>3. \A l \in m + 1 .. N : l \in 1 .. N
    OBVIOUS
  <2> HIDE DEF S
  <2> QED
    BY <1>11, <2>2, <2>3
<1>17. positions[m] = Min(S)
  <2>1. PICK l \in 1 .. N : positions[l] = Min(S)
    <3>1. Min(S) \in rejected
      BY <1>13
    <3> HIDE DEF S
    <3> QED
      BY <1>2, <3>1
  <2> HIDE DEF S
  <2>2. ~(l \in m + 1 .. N)
    BY <1>13, <1>16, <2>1
  <2>3. l = m \/ l < m
    BY <2>2
  <2>4. CASE l < m
    <3>1. positions[m] < Min(S) /\ Min(S) <= positions[m]
      BY <1>2, <1>13, <1>16, <2>1, <2>4
    <3>2. positions[m] \in Int /\ Min(S) \in Int
      BY <1>12, <1>13, <1>16
    <3> QED
      BY <3>1, <3>2
  <2> QED
    BY <2>1, <2>3, <2>4
<1>18. CellIn(final, key, id, column) = <<u.rows[i].cells[column]>>
  <2>1. key \in DOMAIN final /\ id \in Ids(final[key]) /\ column \in final[key].columns
    BY <1>4, <1>6, <1>7, <1>8
  <2> QED
    BY <1>7, <1>10, <2>1 DEF CellIn
<1>19. FirstRejected(changes[p]) = changes[positions[m]]
  BY <1>17 DEF FirstRejected
<1> QED
  BY <1>4, <1>16, <1>18, <1>19

\* However often a plan changed a cell, rejecting its changes brings back the value from before
\* the first rejected one, or the text of that value (apply_cell_rejections, latest change first).
THEOREM FirstValuesComeBack == Spec => []RejectionRestoresFirstValue
<1> QED
  BY ReviewInvariant, InvRestores, PTL

\* Counting rows is counting identities.
LEMMA TrackedCount ==
  ASSUME NEW ts, NEW next, Sound(ts, next)
  PROVE  IsFiniteSet(TrackedRows(ts)) /\ Cardinality(TrackedRows(ts)) = RowCount(ts)
<1> DEFINE Places(key) == {key} \X DOMAIN ts[key].rows
           All == {Places(key) : key \in DOMAIN ts}
           P == UNION All
           name == [p \in P |-> <<p[1], ts[p[1]].rows[p[2]].id>>]
<1>1. IsFiniteSet(P)
  <2>1. IsFiniteSet(All)
    <3>1. [key \in DOMAIN ts |-> Places(key)] \in Surjection(DOMAIN ts, All)
      BY DEF Surjection
    <3>2. IsFiniteSet(DOMAIN ts)
      BY DEF Sound
    <3> HIDE DEF All, Places
    <3> QED
      BY <3>1, <3>2, FS_Surjection
  <2>2. \A s \in All : IsFiniteSet(s)
    <3>1. ASSUME NEW key \in DOMAIN ts PROVE IsFiniteSet(Places(key))
      <4>1. IsFiniteSet(DOMAIN ts[key].rows)
        BY TableShape DEF Sound, Holds, From
      <4>2. IsFiniteSet({key})
        BY FS_Singleton
      <4> QED
        BY <4>1, <4>2, FS_Product
    <3> QED
      BY <3>1
  <2> HIDE DEF All
  <2> QED
    BY <2>1, <2>2, FS_UNION
<1>2. \A p : p \in P <=> /\ p = <<p[1], p[2]>>
                         /\ p[1] \in DOMAIN ts /\ p[2] \in DOMAIN ts[p[1]].rows
  OBVIOUS
<1>3. \A x : x \in TrackedRows(ts) <=>
        \E key \in DOMAIN ts : \E i \in DOMAIN ts[key].rows : x = <<key, ts[key].rows[i].id>>
  BY DEF TrackedRows, Ids
<1>4. RowCount(ts) = Cardinality(P)
  BY DEF RowCount
<1>5. DOMAIN name = P /\ \A p \in P : name[p] = <<p[1], ts[p[1]].rows[p[2]].id>>
  OBVIOUS
<1>6. \A key \in DOMAIN ts : \A i \in DOMAIN ts[key].rows : <<key, i>> \in P
  OBVIOUS
<1>7. name = [p \in P |-> name[p]]
  OBVIOUS
<1> HIDE DEF P, name
<1>8. name \in [P -> TrackedRows(ts)]
  <2>1. ASSUME NEW p \in P PROVE name[p] \in TrackedRows(ts)
    BY <1>2, <1>3, <1>5
  <2> QED
    BY <1>7, <2>1
<1>9. ASSUME NEW p \in P, NEW q \in P, name[p] = name[q] PROVE p = q
  <2>1. p[1] = q[1] /\ ts[p[1]].rows[p[2]].id = ts[p[1]].rows[q[2]].id
    BY <1>5, <1>9
  <2>2. p[1] \in DOMAIN ts /\ p[2] \in DOMAIN ts[p[1]].rows /\ q[2] \in DOMAIN ts[p[1]].rows
    BY <1>2, <2>1
  <2>3. p[2] = q[2]
    BY <2>1, <2>2 DEF Sound, Distinct
  <2> QED
    BY <1>2, <2>1, <2>3
<1>10. ASSUME NEW x \in TrackedRows(ts) PROVE \E p \in P : name[p] = x
  <2>1. PICK key \in DOMAIN ts : \E i \in DOMAIN ts[key].rows : x = <<key, ts[key].rows[i].id>>
    BY <1>3
  <2>2. PICK i \in DOMAIN ts[key].rows : x = <<key, ts[key].rows[i].id>>
    BY <2>1
  <2>3. <<key, i>> \in P /\ name[<<key, i>>] = x
    BY <1>5, <1>6, <2>2
  <2> QED
    BY <2>3
<1>11. name \in Bijection(P, TrackedRows(ts))
  BY <1>8, <1>9, <1>10 DEF Bijection, Injection, Surjection, IsInjective
<1>12. ExistsBijection(P, TrackedRows(ts))
  BY <1>11 DEF ExistsBijection
<1> QED
  BY <1>1, <1>4, <1>12, FS_Bijection

\* Set differences of finite sets add up.
LEMMA InvBalance == Inv => RowCountsBalance
<1> SUFFICES ASSUME Inv, Executed
             PROVE  report.originalRows + report.added = report.finalRows + report.removed
  BY DEF RowCountsBalance
<1>1. PICK A, B : A = TrackedRows(original) /\ B = TrackedRows(final)
  OBVIOUS
<1>2. /\ IsFiniteSet(A) /\ Cardinality(A) = RowCount(original)
      /\ IsFiniteSet(B) /\ Cardinality(B) = RowCount(final)
  BY <1>1, TrackedCount DEF Inv, Identities
<1>3. /\ report.originalRows = Cardinality(A) /\ report.finalRows = Cardinality(B)
      /\ report.removed = Cardinality(A \ B) /\ report.added = Cardinality(B \ A)
  BY <1>1, <1>2 DEF Inv, Reviewed, Reconciled
<1>4. /\ Cardinality(A \ B) = Cardinality(A) - Cardinality(A \cap B)
      /\ Cardinality(B \ A) = Cardinality(B) - Cardinality(B \cap A)
  BY <1>2, FS_Difference
<1>5. A \cap B = B \cap A
  OBVIOUS
<1>6. Cardinality(A) \in Nat /\ Cardinality(B) \in Nat /\ Cardinality(A \cap B) \in Nat
  BY <1>2, FS_CardinalityType, FS_Intersection
<1>7. PICK a \in Nat, b \in Nat, common \in Nat :
        /\ a = Cardinality(A) /\ b = Cardinality(B) /\ common = Cardinality(A \cap B)
  BY <1>6
<1>8. /\ report.originalRows = a /\ report.finalRows = b
      /\ report.removed = a - common /\ report.added = b - common
  BY <1>3, <1>4, <1>5, <1>7
<1>9. a + (b - common) = b + (a - common)
  BY <1>7
<1> QED
  BY <1>8, <1>9, Zenon

\* reconcile's row counts add up for every plan: what came in, less what was removed, plus what
\* was added, went out.
THEOREM CountsBalance == Spec => []RowCountsBalance
<1> QED
  BY ReviewInvariant, InvBalance, PTL

-----------------------------------------------------------------------------
(* What the log explains *)

\* What a log says of a cell that was source before it.
Latest(log, key, id, column, source) ==
  LET last == SelectLastInSeq(log, LAMBDA r : About(r, key, id, column))
  IN  IF last = 0 THEN source ELSE Says(log[last], column)

\* No record is about the cell, or the last that is tells its value.
LEMMA LatestIs ==
  ASSUME NEW log, Len(log) \in Nat, NEW key, NEW id, NEW column, NEW source
  PROVE  \/ /\ \A n \in 1 .. Len(log) : ~About(log[n], key, id, column)
            /\ Latest(log, key, id, column, source) = source
         \/ \E last \in 1 .. Len(log) :
              /\ About(log[last], key, id, column)
              /\ \A n \in 1 .. Len(log) : About(log[n], key, id, column) => n <= last
              /\ Latest(log, key, id, column, source) = Says(log[last], column)
<1> DEFINE S == {n \in 1 .. Len(log) : About(log[n], key, id, column)}
<1>1. Latest(log, key, id, column, source) =
        LET last == IF S # {} THEN Max(S) ELSE 0
        IN  IF last = 0 THEN source ELSE Says(log[last], column)
  BY DEF Latest, SelectLastInSeq
<1>2. S \in SUBSET Int /\ IsFiniteSet(S)
  <2>1. IsFiniteSet(1 .. Len(log))
    BY FS_Interval
  <2> QED
    BY <2>1, FS_Subset
<1>3. CASE S = {}
  BY <1>1, <1>3
<1>4. CASE S # {}
  <2>1. Max(S) \in S /\ \A n \in S : n <= Max(S)
    <3> HIDE DEF S
    <3> QED
      BY <1>2, <1>4, Extremes
  <2>2. PICK last : last = Max(S)
    OBVIOUS
  <2>3. last \in 1 .. Len(log) /\ last # 0
    BY <2>1, <2>2
  <2>4. Latest(log, key, id, column, source) = Says(log[last], column)
    BY <1>1, <1>4, <2>2, <2>3
  <2> QED
    BY <2>1, <2>2, <2>3, <2>4
<1> QED
  BY <1>3, <1>4

\* Records appended to a log that tell a cell decide it; if they do not tell it, the log does.
LEMMA LatestAppended ==
  ASSUME NEW D, NEW log \in Seq(D), NEW more \in Seq(D),
         NEW key, NEW id, NEW column, NEW source, NEW after,
         Tells(more, key, Latest(log, key, id, column, source), after, id, column)
  PROVE  Latest(log \o more, key, id, column, source) = after
<1>1. PICK L \in Nat, M \in Nat : L = Len(log) /\ M = Len(more)
  BY LenProperties
<1>2. PICK all : all = log \o more
  OBVIOUS
<1>3. /\ Len(all) = L + M /\ \A n \in 1 .. L : all[n] = log[n]
      /\ \A n \in 1 .. M : all[L + n] = more[n]
  <2>1. /\ Len(log \o more) = L + M
        /\ \A n \in 1 .. L + M : (log \o more)[n] = IF n <= L THEN log[n] ELSE more[n - L]
    BY <1>1, ConcatProperties
  <2>2. \A n \in 1 .. L : n \in 1 .. L + M /\ n <= L
    OBVIOUS
  <2>3. \A n \in 1 .. M : L + n \in 1 .. L + M /\ ~(L + n <= L) /\ (L + n) - L = n
    OBVIOUS
  <2> QED
    BY <1>2, <2>1, <2>2, <2>3
<1>4. \A n \in 1 .. M : more[n] \in Range(more)
  BY <1>1, LenProperties DEF Range
<1>5. \A r \in Range(more) : \E n \in 1 .. M : r = more[n]
  BY <1>1, LenProperties DEF Range
<1>6. PICK before : before = Latest(log, key, id, column, source)
  OBVIOUS
<1>7. /\ \A n \in 1 .. M : About(more[n], key, id, column) => Says(more[n], column) = after
      /\ (\E n \in 1 .. M : About(more[n], key, id, column)) \/ before = after
  BY <1>4, <1>5, <1>6 DEF Tells
<1> DEFINE A(n) == About(all[n], key, id, column)
<1>8. \/ /\ \A n \in 1 .. L + M : ~A(n)
         /\ Latest(all, key, id, column, source) = source
      \/ \E last \in 1 .. L + M :
           /\ A(last) /\ \A n \in 1 .. L + M : A(n) => n <= last
           /\ Latest(all, key, id, column, source) = Says(all[last], column)
  <2>1. Len(all) \in Nat
    BY <1>3
  <2>2. \/ /\ \A n \in 1 .. Len(all) : ~About(all[n], key, id, column)
           /\ Latest(all, key, id, column, source) = source
        \/ \E last \in 1 .. Len(all) :
             /\ About(all[last], key, id, column)
             /\ \A n \in 1 .. Len(all) : About(all[n], key, id, column) => n <= last
             /\ Latest(all, key, id, column, source) = Says(all[last], column)
    BY <2>1, LatestIs
  <2> QED
    BY <1>3, <2>2
<1>9. CASE \E n \in 1 .. M : About(more[n], key, id, column)
  <2>1. PICK m \in 1 .. M : About(more[m], key, id, column)
    BY <1>9
  <2>2. L + m \in 1 .. L + M /\ A(L + m)
    BY <1>3, <2>1
  <2>3. PICK last \in 1 .. L + M :
          /\ A(last) /\ \A n \in 1 .. L + M : A(n) => n <= last
          /\ Latest(all, key, id, column, source) = Says(all[last], column)
    BY <1>8, <2>2
  <2>4. L + m <= last
    BY <2>2, <2>3
  <2>5. PICK k \in 1 .. M : last = L + k
    <3>1. last - L \in 1 .. M /\ last = L + (last - L)
      BY <2>4
    <3> QED
      BY <3>1
  <2> QED
    BY <1>2, <1>3, <1>7, <2>3, <2>5
<1>10. CASE ~ \E n \in 1 .. M : About(more[n], key, id, column)
  <2>1. before = after
    BY <1>7, <1>10
  <2>2. ASSUME NEW n \in 1 .. L + M, A(n) PROVE n \in 1 .. L /\ About(log[n], key, id, column)
    <3>1. CASE n <= L
      BY <1>3, <2>2, <3>1
    <3>2. CASE ~(n <= L)
      <4>1. n - L \in 1 .. M /\ n = L + (n - L)
        BY <3>2
      <4> QED
        BY <1>3, <1>10, <2>2, <4>1
    <3> QED
      BY <3>1, <3>2
  <2>3. \A n \in 1 .. L : n \in 1 .. L + M /\ (About(log[n], key, id, column) => A(n))
    BY <1>3
  <2>4. \/ /\ \A n \in 1 .. L : ~About(log[n], key, id, column)
           /\ before = source
        \/ \E last \in 1 .. L :
             /\ About(log[last], key, id, column)
             /\ \A n \in 1 .. L : About(log[n], key, id, column) => n <= last
             /\ before = Says(log[last], column)
    BY <1>1, <1>6, LatestIs
  <2> HIDE DEF A
  <2>5. CASE \A n \in 1 .. L : ~About(log[n], key, id, column)
    <3>1. \A n \in 1 .. L + M : ~A(n)
      BY <2>2, <2>5
    <3>2. Latest(all, key, id, column, source) = source
      BY <1>8, <3>1
    <3>3. before = source
      BY <2>4, <2>5
    <3> QED
      BY <1>2, <2>1, <3>2, <3>3
  <2>6. CASE \E n \in 1 .. L : About(log[n], key, id, column)
    <3>1. PICK m \in 1 .. L :
            /\ About(log[m], key, id, column)
            /\ \A n \in 1 .. L : About(log[n], key, id, column) => n <= m
            /\ before = Says(log[m], column)
      BY <2>4, <2>6
    <3>2. PICK last \in 1 .. L + M :
            /\ A(last) /\ \A n \in 1 .. L + M : A(n) => n <= last
            /\ Latest(all, key, id, column, source) = Says(all[last], column)
      BY <1>8, <2>3, <3>1
    <3>3. last \in 1 .. L /\ last <= m
      BY <2>2, <3>1, <3>2
    <3>4. m <= last
      BY <2>3, <3>1, <3>2
    <3>5. last = m
      BY <3>3, <3>4
    <3> QED
      BY <1>2, <1>3, <2>1, <3>1, <3>2, <3>5
  <2> QED
    BY <2>5, <2>6
<1> QED
  BY <1>9, <1>10

\* The log, as long as it is not cut off, leads from the source to the tables.
Explained ==
  total = Len(changes) =>
    \A key \in DOMAIN tables, id \in Nat, column \in Columns :
       Latest(changes, key, id, column, CellIn(original, key, id, column)) =
         TableCell(tables[key], id, column)

\* An empty log explains the loaded tables.
LEMMA InitExplained == Init => Explained
<1> SUFFICES ASSUME Init, NEW key \in DOMAIN tables, NEW id \in Nat, NEW column \in Columns
             PROVE  Latest(changes, key, id, column, CellIn(original, key, id, column)) =
                      TableCell(tables[key], id, column)
  BY DEF Explained
<1>1. tables = original /\ changes = <<>>
  BY DEF Init
<1>2. Len(changes) = 0
  BY <1>1
<1>3. Latest(changes, key, id, column, CellIn(original, key, id, column)) =
        CellIn(original, key, id, column)
  BY <1>2, LatestIs
<1> QED
  BY <1>1, <1>3 DEF CellIn, TableCell

\* Records of other tables say nothing of a cell.
LEMMA OthersSilent ==
  ASSUME NEW keys, NEW ids, NEW log \in Seq(Entries(keys, ids)), NEW key, key \notin keys,
         NEW id, NEW column
  PROVE  \A r \in Range(log) : ~About(r, key, id, column)
<1>1. /\ DOMAIN log = 1 .. Len(log)
      /\ \A n \in 1 .. Len(log) : log[n] \in Entries(keys, ids)
  BY LenProperties, ElementOfSeq
<1> QED
  BY <1>1 DEF Range, Entries, About

\* A step's records lead from the tables before it to those after it.
LEMMA GrowsExplained ==
  ASSUME Inv, Explained,
         NEW key, NEW t, NEW ts, NEW log, NEW middle, Grows(key, t, ts, log, middle)
  PROVE  Explained'
<1>1. /\ key \in DOMAIN tables /\ middle \in Nat /\ nextId <= middle /\ nextId' \in Nat
      /\ Holds(t, 1 .. middle - 1) /\ DOMAIN ts \cap DOMAIN tables = {}
      /\ New(ts, middle, nextId', log)
      /\ DOMAIN tables' = DOMAIN tables \cup DOMAIN ts
      /\ \A k \in DOMAIN ts : tables'[k] = ts[k]
      /\ \A k \in DOMAIN tables : tables'[k] = IF k = key THEN t ELSE tables[k]
      /\ Log(Diff(tables[key], t, key) \o log) /\ original' = original
  BY DEF Grows
<1>2. PICK D : D = Entries(DOMAIN tables', 1 .. nextId' - 1)
  OBVIOUS
<1>3. PICK before, diff, entries :
        /\ before = tables[key] /\ diff = Diff(before, t, key) /\ entries = diff \o log
  OBVIOUS
<1>4. changes \in Seq(D) /\ log \in Seq(D) /\ diff \in Seq(D) /\ entries \in Seq(D)
  BY <1>2, <1>3, GrowsLogged
<1>5. Range(entries) = Range(diff) \cup Range(log)
  BY <1>3, <1>4, Concatenated
<1>6. Holds(before, 1 .. nextId - 1)
  BY <1>1, <1>3 DEF Inv, Identities, Sound
<1>7. diff \in Seq(Entries({key}, Ids(before) \cup Ids(t)))
  BY <1>1, <1>3, <1>6, DiffListed DEF Holds, From
<1>8. log \in Seq(Entries(DOMAIN ts, middle .. nextId' - 1))
  BY <1>1 DEF New
<1>9. total' = Len(changes') => total = Len(changes) /\ changes' = changes \o entries
  <2>1. Log(entries)
    BY <1>1, <1>3
  <2>2. total \in Nat /\ Len(changes) <= MaxRecords /\ Len(changes) <= total
    BY DEF Inv, Recorded
  <2> QED
    BY <1>4, <2>1, <2>2, LogShape
<1>10. ASSUME total' = Len(changes'),
              NEW k \in DOMAIN tables', NEW id \in Nat, NEW column \in Columns
       PROVE  Latest(changes', k, id, column, CellIn(original', k, id, column)) =
                TableCell(tables'[k], id, column)
  <2>1. total = Len(changes) /\ changes' = changes \o entries
    BY <1>9, <1>10
  <2>2. PICK source, now :
          /\ source = CellIn(original, k, id, column)
          /\ now = TableCell(tables'[k], id, column)
    OBVIOUS
  <2>3. CellIn(original', k, id, column) = source
    BY <1>1, <2>2
  <2>4. k \in DOMAIN tables =>
          Latest(changes, k, id, column, source) = TableCell(tables[k], id, column)
    BY <2>1, <2>2 DEF Explained
  <2>5. Tells(entries, k, Latest(changes, k, id, column, source), now, id, column)
    <3>1. CASE k = key
      <4>1. Tells(diff, key, TableCell(before, id, column), TableCell(t, id, column), id, column)
        BY <1>1, <1>3, <1>6, DiffTells DEF Holds, From
      <4>2. \A r \in Range(log) : ~About(r, key, id, column)
        <5>1. key \notin DOMAIN ts
          BY <1>1
        <5> QED
          BY <1>8, <5>1, OthersSilent
      <4>3. /\ Latest(changes, key, id, column, source) = TableCell(before, id, column)
            /\ now = TableCell(t, id, column)
        BY <1>1, <1>3, <2>2, <2>4, <3>1
      <4> QED
        BY <1>5, <3>1, <4>1, <4>2, <4>3 DEF Tells
    <3>2. CASE k \in DOMAIN ts
      <4>1. k \notin DOMAIN tables /\ k # key
        BY <1>1, <3>2
      <4>2. Tells(log, k, NoValue, TableCell(ts[k], id, column), id, column)
        BY <1>1, <3>2 DEF New
      <4>3. \A r \in Range(diff) : ~About(r, k, id, column)
        <5>1. k \notin {key}
          BY <4>1
        <5> QED
          BY <1>7, <5>1, OthersSilent
      <4>4. source = NoValue
        BY <2>2, <4>1 DEF CellIn, Inv, Identities
      <4>5. Latest(changes, k, id, column, source) = NoValue
        <5>1. /\ Len(changes) \in Nat /\ DOMAIN changes = 1 .. Len(changes)
              /\ changes \in Seq(Entries(DOMAIN tables, 1 .. nextId - 1))
          BY ChangesTyped DEF Inv, Recorded
        <5>2. \A r \in Range(changes) : ~About(r, k, id, column)
          BY <4>1, <5>1, OthersSilent
        <5>3. \A n \in 1 .. Len(changes) : ~About(changes[n], k, id, column)
          BY <5>1, <5>2 DEF Range
        <5> QED
          BY <4>4, <5>1, <5>3, LatestIs
      <4>6. now = TableCell(ts[k], id, column)
        BY <1>1, <2>2, <3>2
      <4> QED
        BY <1>5, <4>2, <4>3, <4>5, <4>6 DEF Tells
    <3>3. CASE k \in DOMAIN tables /\ k # key
      <4>1. k \notin DOMAIN ts /\ k \notin {key}
        BY <1>1, <3>3
      <4>2. \A r \in Range(diff) : ~About(r, k, id, column)
        BY <1>7, <4>1, OthersSilent
      <4>3. \A r \in Range(log) : ~About(r, k, id, column)
        BY <1>8, <4>1, OthersSilent
      <4>4. Latest(changes, k, id, column, source) = now
        BY <1>1, <2>2, <2>4, <3>3
      <4> QED
        BY <1>5, <4>2, <4>3, <4>4 DEF Tells
    <3> QED
      BY <1>1, <3>1, <3>2, <3>3
  <2>6. Latest(changes \o entries, k, id, column, source) = now
    BY <1>4, <2>5, LatestAppended
  <2> QED
    BY <2>1, <2>2, <2>3, <2>6
<1> QED
  BY <1>10 DEF Explained

\* Every step keeps the log an explanation.
LEMMA NextExplained == Inv /\ Explained /\ [Next]_vars => Explained'
<1> SUFFICES ASSUME Inv, Explained, [Next]_vars PROVE Explained'
  OBVIOUS
<1>1. ASSUME UNCHANGED <<original, tables, changes, total>> PROVE Explained'
  BY <1>1 DEF Explained, CellIn
<1>2. CASE PlanStep
  <2>1. \/ \E cause : Raise(cause)
        \/ \E key, t, ts, log, middle : Grows(key, t, ts, log, middle)
    BY <1>2, PlanStepEffect
  <2>2. ASSUME NEW cause, Raise(cause) PROVE Explained'
    BY <1>1, <2>2 DEF Raise
  <2> QED
    BY <2>1, <2>2, GrowsExplained
<1>3. CASE StepRaises
  BY <1>1, <1>3 DEF StepRaises, Raise
<1>4. CASE FinishRun
  BY <1>1, <1>4 DEF FinishRun
<1>5. CASE Approve
  BY <1>1, <1>5 DEF Approve
<1>6. CASE Execute
  <2>1. UNCHANGED <<original, tables, changes, total>>
    BY <1>6 DEF Execute, Raise
  <2> QED
    BY <1>1, <2>1
<1>7. CASE UNCHANGED vars
  BY <1>1, <1>7 DEF vars
<1> QED
  BY <1>2, <1>3, <1>4, <1>5, <1>6, <1>7 DEF Next, PlanStep, Edits

\* What the log explains, it explains to the reviewer.
LEMMA InvExplains == Inv /\ Explained => LogExplainsResult
<1> SUFFICES ASSUME Inv, Explained, total = Len(changes), NEW key \in DOMAIN tables,
                    NEW id \in 1 .. nextId - 1, NEW column \in Columns
             PROVE  LoggedCell(key, id, column) = CellIn(tables, key, id, column)
  BY DEF LogExplainsResult
<1>1. id \in Nat
  OBVIOUS
<1>2. Latest(changes, key, id, column, CellIn(original, key, id, column)) =
        TableCell(tables[key], id, column)
  BY <1>1 DEF Explained
<1> QED
  BY <1>2 DEF LoggedCell, Latest, CellIn, TableCell

\* Unless the collector cut it off, the change log replayed over the loaded workbook gives every
\* cell of every table of the preview, for plans of any length (_capture_diff).
THEOREM LogTellsTheWholeRun == Spec => []LogExplainsResult
<1>1. Init => Inv /\ Explained
  BY InitInv, InitExplained
<1>2. (Inv /\ Explained) /\ [Next]_vars => (Inv /\ Explained)'
  BY NextInv, NextExplained
<1>3. Inv /\ Explained => LogExplainsResult
  BY InvExplains
<1> QED
  BY <1>1, <1>2, <1>3, PTL DEF Spec

-----------------------------------------------------------------------------
(* Rejecting everything *)

SameRows(t, u) ==
  DOMAIN t.rows = DOMAIN u.rows /\ \A i \in DOMAIN t.rows : t.rows[i].id = u.rows[i].id

RowKinds == {"row_added", "row_deleted", "row_reordered"}

\* Rows no record tells of are where they were in the source.
Unmoved ==
  total = Len(changes) =>
    \A key \in DOMAIN original :
       (\A r \in Range(changes) : r.key = key => r.kind \notin RowKinds)
         => SameRows(tables[key], original[key])

\* The first record of a cell, if it is of its value, has the source's value.
FromSource ==
  total = Len(changes) =>
    \A n \in 1 .. Len(changes) :
       LET r == changes[n]
       IN  /\ r.kind = "cell_changed" /\ r.key \in DOMAIN original
           /\ \A m \in 1 .. Len(changes) : m < n => ~About(changes[m], r.key, r.id, r.column)
           => CellIn(original, r.key, r.id, r.column) = <<r.original>>

\* Distinct identities lead to their rows.
LEMMA FoundAt ==
  ASSUME NEW t, Distinct(t), NEW i \in DOMAIN t.rows
  PROVE  RowOf(t, t.rows[i].id) = t.rows[i] /\ t.rows[i].id \in Ids(t)
         /\ Position(t, t.rows[i].id) = i
<1> DEFINE j == CHOOSE j \in DOMAIN t.rows : t.rows[j].id = t.rows[i].id
<1>1. j \in DOMAIN t.rows /\ t.rows[j].id = t.rows[i].id
  OBVIOUS
<1>2. j = i
  <2> HIDE DEF j
  <2> QED
    BY <1>1 DEF Distinct
<1> QED
  BY <1>2 DEF RowOf, Ids, Position

\* A difference without records of rows is between tables with the same rows.
LEMMA QuietDiff ==
  ASSUME NEW before, IsTable(before), before.columns \subseteq Columns, Distinct(before),
         NEW after, IsTable(after), after.columns \subseteq Columns, Distinct(after), NEW key,
         \A r \in Range(Diff(before, after, key)) : r.kind \notin RowKinds
  PROVE  SameRows(after, before)
<1>1. Range(Diff(before, after, key)) =
        Deleted(before, after, key) \cup Inserted(before, after, key)
          \cup Revised(before, after, key)
  BY DiffListed
<1>2. ASSUME NEW id \in Ids(before) PROVE id \in Ids(after)
  <2> SUFFICES ASSUME id \notin Ids(after) PROVE FALSE
    OBVIOUS
  <2> DEFINE r == Change("row_deleted", key, id, 0, RowOf(before, id).cells, NoValue)
  <2>1. r \in Deleted(before, after, key)
    BY DEF Deleted
  <2>2. r.kind = "row_deleted"
    BY DEF Change
  <2> QED
    BY <1>1, <2>1, <2>2 DEF RowKinds
<1>3. ASSUME NEW id \in Ids(after) PROVE id \in Ids(before)
  <2> SUFFICES ASSUME id \notin Ids(before) PROVE FALSE
    OBVIOUS
  <2> DEFINE r == Change("row_added", key, id, 0, NoValue, RowOf(after, id).cells)
  <2>1. r \in Inserted(before, after, key)
    BY DEF Inserted
  <2>2. r.kind = "row_added"
    BY DEF Change
  <2> QED
    BY <1>1, <2>1, <2>2 DEF RowKinds
<1>4. ASSUME NEW id \in Ids(before) PROVE Position(before, id) = Position(after, id)
  <2> SUFFICES ASSUME Position(before, id) # Position(after, id) PROVE FALSE
    OBVIOUS
  <2> DEFINE r == Change("row_reordered", key, id, 0, NoValue, NoValue)
  <2>1. r \in RowEntries(before, after, key, id)
    BY DEF RowEntries, Shifted
  <2>2. r \in Revised(before, after, key)
    BY <1>2, <2>1 DEF Revised
  <2>3. r.kind = "row_reordered"
    BY DEF Change
  <2> QED
    BY <1>1, <2>2, <2>3 DEF RowKinds
<1>5. ASSUME NEW i \in DOMAIN before.rows
      PROVE  i \in DOMAIN after.rows /\ after.rows[i].id = before.rows[i].id
  <2>1. PICK id : id = before.rows[i].id
    OBVIOUS
  <2>2. id \in Ids(before) /\ Position(before, id) = i
    BY <2>1, FoundAt
  <2>3. PICK j \in DOMAIN after.rows : after.rows[j].id = id
    BY <1>2, <2>2 DEF Ids
  <2>4. Position(after, id) = j
    BY <2>3, FoundAt
  <2> QED
    BY <1>4, <2>1, <2>2, <2>3, <2>4
<1>6. ASSUME NEW j \in DOMAIN after.rows PROVE j \in DOMAIN before.rows
  <2>1. PICK id : id = after.rows[j].id
    OBVIOUS
  <2>2. id \in Ids(after) /\ Position(after, id) = j
    BY <2>1, FoundAt
  <2>3. PICK i \in DOMAIN before.rows : before.rows[i].id = id
    BY <1>3, <2>2 DEF Ids
  <2>4. Position(before, id) = i
    BY <2>3, FoundAt
  <2> QED
    BY <1>3, <1>4, <2>2, <2>3, <2>4
<1> QED
  BY <1>5, <1>6 DEF SameRows

\* A recorded change of a value has the value from before.
LEMMA DiffRemembers ==
  ASSUME NEW before, IsTable(before), before.columns \subseteq Columns,
         NEW after, IsTable(after), after.columns \subseteq Columns, NEW key,
         NEW r \in Range(Diff(before, after, key)), r.kind = "cell_changed"
  PROVE  r.key = key /\ TableCell(before, r.id, r.column) = <<r.original>>
<1>1. Range(Diff(before, after, key)) =
        Deleted(before, after, key) \cup Inserted(before, after, key)
          \cup Revised(before, after, key)
  BY DiffListed
<1>2. r \notin Deleted(before, after, key) /\ r \notin Inserted(before, after, key)
  BY DEF Deleted, Inserted, Change
<1>3. PICK id \in Ids(before) \cap Ids(after) : r \in RowEntries(before, after, key, id)
  BY <1>1, <1>2 DEF Revised
<1>4. r \in Edited(before, after, key, id)
  BY <1>3 DEF RowEntries, Shifted, Dropped, Gained, Change
<1>5. PICK c \in before.columns :
        r = Change("cell_changed", key, id, c, RowOf(before, id).cells[c],
                   RowOf(after, id).cells[c])
  BY <1>4 DEF Edited
<1> QED
  BY <1>3, <1>5 DEF Change, TableCell

Traced == Unmoved /\ FromSource

\* An empty log traces everything to the source.
LEMMA InitTraced == Init => Traced
<1> SUFFICES ASSUME Init PROVE Traced
  OBVIOUS
<1>1. tables = original /\ changes = <<>> /\ Len(changes) = 0
  BY DEF Init
<1>2. Unmoved
  BY <1>1 DEF Unmoved, SameRows
<1>3. FromSource
  BY <1>1 DEF FromSource
<1> QED
  BY <1>2, <1>3 DEF Traced

\* A step's records keep the trace.
LEMMA GrowsTraced ==
  ASSUME Inv, Explained, Traced,
         NEW key, NEW t, NEW ts, NEW log, NEW middle, Grows(key, t, ts, log, middle)
  PROVE  Traced'
<1> SUFFICES ASSUME total' = Len(changes') PROVE Traced'
  BY DEF Traced, Unmoved, FromSource
<1>1. /\ key \in DOMAIN tables /\ middle \in Nat /\ nextId <= middle /\ nextId' \in Nat
      /\ Holds(t, 1 .. middle - 1) /\ Distinct(t) /\ DOMAIN ts \cap DOMAIN tables = {}
      /\ New(ts, middle, nextId', log)
      /\ \A k \in DOMAIN tables : tables'[k] = IF k = key THEN t ELSE tables[k]
      /\ Log(Diff(tables[key], t, key) \o log) /\ original' = original
  BY DEF Grows
<1>2. PICK D : D = Entries(DOMAIN tables', 1 .. nextId' - 1)
  OBVIOUS
<1>3. PICK before, diff, entries :
        /\ before = tables[key] /\ diff = Diff(before, t, key) /\ entries = diff \o log
  OBVIOUS
<1>4. changes \in Seq(D) /\ log \in Seq(D) /\ diff \in Seq(D) /\ entries \in Seq(D)
  BY <1>2, <1>3, GrowsLogged
<1>5. total = Len(changes) /\ changes' = changes \o entries
  <2>1. Log(entries)
    BY <1>1, <1>3
  <2>2. total \in Nat /\ Len(changes) <= MaxRecords /\ Len(changes) <= total
    BY DEF Inv, Recorded
  <2> QED
    BY <1>4, <2>1, <2>2, LogShape
<1>6. Range(entries) = Range(diff) \cup Range(log)
  BY <1>3, <1>4, Concatenated
<1>7. Range(changes') = Range(changes) \cup Range(diff) \cup Range(log)
  BY <1>4, <1>5, <1>6, Concatenated
<1>8. Holds(before, 1 .. nextId - 1) /\ Distinct(before)
  BY <1>1, <1>3 DEF Inv, Identities, Sound
<1>9. \A r \in Range(log) : r.key \in DOMAIN ts
  <2>1. log \in Seq(Entries(DOMAIN ts, middle .. nextId' - 1))
    BY <1>1 DEF New
  <2>2. /\ DOMAIN log = 1 .. Len(log)
        /\ \A n \in 1 .. Len(log) : log[n] \in Entries(DOMAIN ts, middle .. nextId' - 1)
    BY <2>1, LenProperties, ElementOfSeq
  <2> QED
    BY <2>2 DEF Range, Entries
<1>10. \A r \in Range(diff) : r.key = key
  <2>1. diff \in Seq(Entries({key}, Ids(before) \cup Ids(t)))
    BY <1>1, <1>3, <1>8, DiffListed DEF Holds, From
  <2>2. /\ DOMAIN diff = 1 .. Len(diff)
        /\ \A n \in 1 .. Len(diff) : diff[n] \in Entries({key}, Ids(before) \cup Ids(t))
    BY <2>1, LenProperties, ElementOfSeq
  <2> QED
    BY <2>2 DEF Range, Entries
<1>11. Unmoved'
  <2> SUFFICES ASSUME NEW k \in DOMAIN original,
                      \A r \in Range(changes') : r.key = k => r.kind \notin RowKinds
               PROVE  SameRows(tables'[k], original[k])
    BY <1>1 DEF Unmoved
  <2>1. k \in DOMAIN tables
    BY DEF Inv, Identities
  <2>2. SameRows(tables[k], original[k])
    BY <1>5, <1>7 DEF Traced, Unmoved
  <2>3. CASE k # key
    BY <1>1, <2>1, <2>2, <2>3
  <2>4. CASE k = key
    <3>1. \A r \in Range(diff) : r.kind \notin RowKinds
      BY <1>7, <1>10, <2>4
    <3>2. SameRows(t, before)
      BY <1>1, <1>3, <1>8, <3>1, QuietDiff DEF Holds, From
    <3> QED
      BY <1>1, <1>3, <2>2, <2>4, <3>2 DEF SameRows
  <2> QED
    BY <2>3, <2>4
<1>12. FromSource'
  <2>1. PICK L \in Nat, M \in Nat : L = Len(changes) /\ M = Len(entries)
    BY <1>4, LenProperties
  <2>2. PICK all : all = changes'
    OBVIOUS
  <2>3. /\ Len(all) = L + M /\ \A n \in 1 .. L : all[n] = changes[n]
        /\ \A n \in L + 1 .. L + M : all[n] \in Range(entries)
    <3>1. /\ Len(changes \o entries) = L + M
          /\ \A n \in 1 .. L + M :
               (changes \o entries)[n] = IF n <= L THEN changes[n] ELSE entries[n - L]
      BY <1>4, <2>1, ConcatProperties
    <3>2. \A n \in 1 .. M : entries[n] \in Range(entries)
      BY <1>4, <2>1, LenProperties DEF Range
    <3>3. \A n \in 1 .. L : n \in 1 .. L + M /\ n <= L
      OBVIOUS
    <3>4. \A n \in L + 1 .. L + M : n \in 1 .. L + M /\ ~(n <= L) /\ n - L \in 1 .. M
      OBVIOUS
    <3> QED
      BY <1>5, <2>2, <3>1, <3>2, <3>3, <3>4
  <2>4. ASSUME NEW n \in 1 .. L + M, NEW r, r = all[n],
               r.kind = "cell_changed", r.key \in DOMAIN original,
               \A m \in 1 .. L + M : m < n => ~About(all[m], r.key, r.id, r.column)
        PROVE  CellIn(original, r.key, r.id, r.column) = <<r.original>>
    <3>1. CASE n <= L
      <4>1. n \in 1 .. L /\ r = changes[n]
        BY <2>3, <2>4, <3>1
      <4>2. \A m \in 1 .. L : m < n => ~About(changes[m], r.key, r.id, r.column)
        BY <2>3, <2>4
      <4> QED
        BY <1>5, <2>1, <2>4, <4>1, <4>2 DEF Traced, FromSource
    <3>2. CASE ~(n <= L)
      <4>1. r \in Range(entries)
        BY <2>3, <2>4, <3>2
      <4>2. r.key \in DOMAIN tables
        BY <2>4 DEF Inv, Identities
      <4>3. r \in Range(diff)
        BY <1>1, <1>6, <1>9, <4>1, <4>2
      <4>4. r.key = key /\ TableCell(before, r.id, r.column) = <<r.original>>
        <5>1. /\ IsTable(before) /\ before.columns \subseteq Columns
              /\ IsTable(t) /\ t.columns \subseteq Columns
          BY <1>1, <1>8 DEF Holds, From
        <5>2. r \in Range(Diff(before, t, key)) /\ r.kind = "cell_changed"
          BY <1>3, <2>4, <4>3
        <5> QED
          BY <5>1, <5>2, DiffRemembers
      <4>5. r.id \in Nat /\ r.column \in Columns
        <5>1. r \in D
          BY <1>4, <2>1, <2>2, <4>1, LenProperties, ElementOfSeq DEF Range
        <5> QED
          BY <1>2, <2>4, <5>1 DEF Entries
      <4>6. \A m \in 1 .. L : ~About(changes[m], r.key, r.id, r.column)
        <5>1. \A m \in 1 .. L : m \in 1 .. L + M /\ m < n
          BY <3>2
        <5> QED
          BY <2>3, <2>4, <5>1
      <4>7. PICK source : source = CellIn(original, r.key, r.id, r.column)
        OBVIOUS
      <4>8. Latest(changes, r.key, r.id, r.column, source) = source
        BY <2>1, <4>6, LatestIs
      <4>9. Latest(changes, r.key, r.id, r.column, source) = TableCell(before, r.id, r.column)
        BY <1>3, <1>5, <4>2, <4>4, <4>5, <4>7 DEF Explained
      <4> QED
        BY <4>4, <4>7, <4>8, <4>9
    <3> QED
      BY <3>1, <3>2
  <2> QED
    BY <1>1, <2>2, <2>3, <2>4 DEF FromSource
<1> QED
  BY <1>11, <1>12 DEF Traced

\* Every step keeps the trace.
LEMMA NextTraced == Inv /\ Explained /\ Traced /\ [Next]_vars => Traced'
<1> SUFFICES ASSUME Inv, Explained, Traced, [Next]_vars PROVE Traced'
  OBVIOUS
<1>1. ASSUME UNCHANGED <<original, tables, changes, total>> PROVE Traced'
  BY <1>1 DEF Traced, Unmoved, FromSource, CellIn
<1>2. CASE PlanStep
  <2>1. \/ \E cause : Raise(cause)
        \/ \E key, t, ts, log, middle : Grows(key, t, ts, log, middle)
    BY <1>2, PlanStepEffect
  <2>2. ASSUME NEW cause, Raise(cause) PROVE Traced'
    BY <1>1, <2>2 DEF Raise
  <2> QED
    BY <2>1, <2>2, GrowsTraced
<1>3. CASE StepRaises
  BY <1>1, <1>3 DEF StepRaises, Raise
<1>4. CASE FinishRun
  BY <1>1, <1>4 DEF FinishRun
<1>5. CASE Approve
  BY <1>1, <1>5 DEF Approve
<1>6. CASE Execute
  <2>1. UNCHANGED <<original, tables, changes, total>>
    BY <1>6 DEF Execute, Raise
  <2> QED
    BY <1>1, <2>1
<1>7. CASE UNCHANGED vars
  BY <1>1, <1>7 DEF vars
<1> QED
  BY <1>2, <1>3, <1>4, <1>5, <1>6, <1>7 DEF Next, PlanStep, Edits

\* If a record is about a cell, one is the first.
LEMMA FirstRecord ==
  ASSUME NEW log, Len(log) \in Nat, NEW key, NEW id, NEW column,
         NEW n \in 1 .. Len(log), About(log[n], key, id, column)
  PROVE  LET S == {m \in 1 .. Len(log) : About(log[m], key, id, column)}
         IN  /\ Min(S) \in 1 .. Len(log) /\ About(log[Min(S)], key, id, column)
             /\ \A m \in 1 .. Len(log) : m < Min(S) => ~About(log[m], key, id, column)
<1> DEFINE S == {m \in 1 .. Len(log) : About(log[m], key, id, column)}
<1>1. S \in SUBSET Int /\ IsFiniteSet(S) /\ S # {}
  <2>1. IsFiniteSet(1 .. Len(log))
    BY FS_Interval
  <2> QED
    BY <2>1, FS_Subset
<1>2. Min(S) \in S /\ \A m \in S : Min(S) <= m
  <2> HIDE DEF S
  <2> QED
    BY <1>1, Extremes
<1>3. \A m \in 1 .. Len(log) : m < Min(S) => ~About(log[m], key, id, column)
  <2>1. PICK first \in S : first = Min(S)
    BY <1>2
  <2>2. \A m \in S : ~(m < first)
    BY <1>1, <1>2, <2>1
  <2> QED
    BY <2>1, <2>2
<1> QED
  BY <1>2, <1>3

\* If all changes of values are rejected and there are no others, each cell is the source's or
\* the text of it.
LEMMA InvRestoresAll == Inv /\ Explained /\ Traced => RejectingAllRestoresSource
<1> SUFFICES ASSUME Inv, Explained, Traced, Executed, total = Len(changes),
                    rejected = DOMAIN changes,
                    \A key \in DOMAIN original : original[key].rows # <<>>
             PROVE  /\ \A key \in DOMAIN original :
                         LET t == original[key]
                             f == final[key]
                         IN  /\ f.columns = t.columns /\ Len(f.rows) = Len(t.rows)
                             /\ \A i \in DOMAIN t.rows : f.rows[i].id = t.rows[i].id
                             /\ \A i \in DOMAIN t.rows, c \in t.columns :
                                  f.rows[i].cells[c] \in Restored(t.rows[i].cells[c])
                    /\ (\A key \in DOMAIN original : final[key].rows = original[key].rows)
                         => report.changed = 0
                    /\ report.totalChanges = 0
  BY DEF RejectingAllRestoresSource
<1>1. PICK L \in Nat : L = Len(changes) /\ rejected = 1 .. L /\ DOMAIN changes = 1 .. L
  BY ChangesTyped
<1>2. \A n \in 1 .. L : changes[n].kind = "cell_changed"
  BY <1>1 DEF Inv, Reviewed, CellChanges
<1>3. \A n \in 1 .. L : \A key, id, column :
        About(changes[n], key, id, column) <=>
          changes[n].key = key /\ changes[n].id = id /\ changes[n].column = column
  BY <1>2 DEF About
<1>4. ASSUME NEW key \in DOMAIN original
      PROVE  /\ final[key].columns = original[key].columns
             /\ Len(final[key].rows) = Len(original[key].rows)
             /\ \A i \in DOMAIN original[key].rows :
                  final[key].rows[i].id = original[key].rows[i].id
             /\ \A i \in DOMAIN original[key].rows, c \in original[key].columns :
                  final[key].rows[i].cells[c] \in Restored(original[key].rows[i].cells[c])
  <2>1. PICK s, t, u : s = original[key] /\ t = tables[key] /\ u = final[key]
    OBVIOUS
  <2>2. key \in DOMAIN tables /\ DOMAIN final = DOMAIN tables
    BY InvLocal DEF RejectionIsLocal, Inv, Identities
  <2>3. /\ IsTable(s) /\ s.columns \subseteq Columns /\ Distinct(s)
        /\ IsTable(t) /\ t.columns \subseteq Columns /\ Distinct(t)
        /\ IsTable(u) /\ Distinct(u)
        /\ \A i \in DOMAIN s.rows : s.rows[i].id \in Nat
    BY <2>1, <2>2, TableShape DEF Inv, Identities, Sound, Holds, From
  <2>4. SameRows(t, s)
    <3>1. \A r \in Range(changes) : r.kind \notin RowKinds
      BY <1>1, <1>2 DEF Range, RowKinds
    <3> QED
      BY <2>1, <3>1 DEF Traced, Unmoved
  <2>5. /\ u.columns = t.columns /\ Len(u.rows) = Len(t.rows)
        /\ \A i \in DOMAIN t.rows : u.rows[i].id = t.rows[i].id
        /\ \A i \in DOMAIN t.rows : \A c \in t.columns :
             \/ u.rows[i].cells[c] \in Restored(t.rows[i].cells[c])
             \/ \E n \in rejected : SameCell(changes[n],
                                      [key |-> key, id |-> t.rows[i].id, column |-> c])
    <3>1. /\ u.columns = t.columns /\ Len(u.rows) = Len(t.rows)
          /\ \A i \in DOMAIN t.rows : u.rows[i].id = t.rows[i].id
          /\ \A i \in DOMAIN t.rows, c \in t.columns :
               \/ u.rows[i].cells[c] = t.rows[i].cells[c]
               \/ \E n \in rejected :
                    /\ changes[n].key = key /\ changes[n].column = c
                    /\ \/ changes[n].id = t.rows[i].id
                       \/ u.rows[i].cells[c] = AsText(t.rows[i].cells[c])
      BY <2>1, <2>2, InvLocal DEF RejectionIsLocal
    <3> QED
      BY <3>1 DEF Restored, SameCell
  <2>6. SameRows(u, s)
    <3>1. DOMAIN u.rows = DOMAIN t.rows
      BY <2>3, <2>5, TableShape
    <3> QED
      BY <2>4, <2>5, <3>1 DEF SameRows
  <2>7. ASSUME NEW id \in Nat, NEW column \in Columns
        PROVE  \/ /\ TableCell(t, id, column) = TableCell(s, id, column)
                  /\ \A n \in 1 .. L : ~About(changes[n], key, id, column)
               \/ /\ TableCell(t, id, column) # NoValue
                  /\ \E n \in 1 .. L :
                       /\ About(changes[n], key, id, column)
                       /\ TableCell(s, id, column) = <<FirstRejected(changes[n]).original>>
    <3>1. PICK source : source = CellIn(original, key, id, column)
      OBVIOUS
    <3>2. source = TableCell(s, id, column)
      BY <2>1, <3>1 DEF CellIn, TableCell
    <3>3. Latest(changes, key, id, column, source) = TableCell(t, id, column)
      BY <2>1, <2>2, <3>1 DEF Explained
    <3>4. \/ /\ \A n \in 1 .. L : ~About(changes[n], key, id, column)
             /\ Latest(changes, key, id, column, source) = source
          \/ \E last \in 1 .. L :
               /\ About(changes[last], key, id, column)
               /\ Latest(changes, key, id, column, source) = Says(changes[last], column)
      BY <1>1, LatestIs
    <3>5. CASE \A n \in 1 .. L : ~About(changes[n], key, id, column)
      BY <3>2, <3>3, <3>4, <3>5
    <3>6. CASE \E n \in 1 .. L : About(changes[n], key, id, column)
      <4>1. PICK last \in 1 .. L :
              /\ About(changes[last], key, id, column)
              /\ Latest(changes, key, id, column, source) = Says(changes[last], column)
        BY <3>4, <3>6
      <4>2. TableCell(t, id, column) # NoValue
        BY <1>2, <3>3, <4>1 DEF Says, NoValue
      <4>3. PICK S : S = {m \in 1 .. L : About(changes[m], key, id, column)}
        OBVIOUS
      <4>4. PICK first : first = Min(S)
        OBVIOUS
      <4>5. /\ first \in 1 .. L /\ About(changes[first], key, id, column)
            /\ \A m \in 1 .. L : m < first => ~About(changes[m], key, id, column)
        BY <1>1, <4>1, <4>3, <4>4, FirstRecord
      <4>6. source = <<changes[first].original>>
        <5>1. /\ changes[first].kind = "cell_changed" /\ changes[first].key = key
              /\ changes[first].id = id /\ changes[first].column = column
          BY <1>2, <1>3, <4>5
        <5> QED
          BY <1>1, <3>1, <4>5, <5>1 DEF Traced, FromSource
      <4>7. S = {m \in rejected : SameCell(changes[m], changes[last])}
        <5>1. /\ changes[last].key = key /\ changes[last].id = id
              /\ changes[last].column = column
          BY <1>3, <4>1
        <5>2. \A m \in 1 .. L :
                About(changes[m], key, id, column) <=> SameCell(changes[m], changes[last])
          BY <1>2, <5>1 DEF About, SameCell
        <5> QED
          BY <1>1, <4>3, <5>2
      <4> QED
        BY <3>2, <4>1, <4>2, <4>4, <4>6, <4>7 DEF FirstRejected
    <3> QED
      BY <3>5, <3>6
  <2>8. t.columns = s.columns
    <3>1. PICK i \in DOMAIN s.rows : TRUE
      <4>1. Len(s.rows) # 0
        BY <2>1, <2>3, EmptySeq DEF IsTable
      <4>2. Len(s.rows) \in Nat /\ DOMAIN s.rows = 1 .. Len(s.rows)
        BY <2>3, TableShape
      <4>3. 1 \in DOMAIN s.rows
        BY <4>1, <4>2
      <4> QED
        BY <4>3
    <3>2. PICK id \in Nat : id = s.rows[i].id
      BY <2>3
    <3>3. id \in Ids(s) /\ id \in Ids(t)
      BY <2>4, <3>2 DEF Ids, SameRows
    <3>4. \A c \in Columns : c \in s.columns <=> TableCell(s, id, c) # NoValue
      BY <3>3 DEF TableCell, NoValue
    <3>5. \A c \in Columns : c \in t.columns <=> TableCell(t, id, c) # NoValue
      BY <3>3 DEF TableCell, NoValue
    <3>6. \A c \in Columns : TableCell(t, id, c) # NoValue <=> TableCell(s, id, c) # NoValue
      <4>1. \A v : <<v>> # NoValue
        BY DEF NoValue
      <4>2. ASSUME NEW c \in Columns
            PROVE  TableCell(t, id, c) # NoValue <=> TableCell(s, id, c) # NoValue
        <5>1. \/ TableCell(t, id, c) = TableCell(s, id, c)
              \/ /\ TableCell(t, id, c) # NoValue
                 /\ \E v : TableCell(s, id, c) = <<v>>
          BY <2>7
        <5> QED
          BY <4>1, <5>1
      <4> QED
        BY <4>2
    <3> QED
      BY <2>3, <3>4, <3>5, <3>6
  <2>9. ASSUME NEW i \in DOMAIN s.rows, NEW c \in s.columns
        PROVE  u.rows[i].cells[c] \in Restored(s.rows[i].cells[c])
    <3>1. PICK id : id = u.rows[i].id
      OBVIOUS
    <3>2. /\ i \in DOMAIN t.rows /\ i \in DOMAIN u.rows /\ c \in t.columns /\ c \in u.columns
          /\ id = t.rows[i].id /\ id = s.rows[i].id /\ id \in Nat /\ c \in Columns
      BY <2>3, <2>4, <2>5, <2>6, <2>8, <3>1 DEF SameRows
    <3>3. /\ TableCell(u, id, c) = <<u.rows[i].cells[c]>>
          /\ TableCell(t, id, c) = <<t.rows[i].cells[c]>>
          /\ TableCell(s, id, c) = <<s.rows[i].cells[c]>>
      BY <2>3, <3>1, <3>2, FoundAt DEF TableCell
    <3>4. CASE \A n \in 1 .. L : ~About(changes[n], key, id, c)
      <4>1. TableCell(t, id, c) = TableCell(s, id, c)
        BY <2>7, <3>2, <3>4
      <4>2. u.rows[i].cells[c] \in Restored(t.rows[i].cells[c])
        <5>1. ASSUME NEW n \in rejected
              PROVE  ~SameCell(changes[n], [key |-> key, id |-> t.rows[i].id, column |-> c])
          BY <1>1, <1>2, <3>2, <3>4 DEF About, SameCell
        <5> QED
          BY <2>5, <3>2, <5>1
      <4>3. t.rows[i].cells[c] = s.rows[i].cells[c]
        BY <3>3, <4>1
      <4> QED
        BY <4>2, <4>3
    <3>5. CASE \E n \in 1 .. L : About(changes[n], key, id, c)
      <4>1. PICK n \in 1 .. L :
              /\ About(changes[n], key, id, c)
              /\ TableCell(s, id, c) = <<FirstRejected(changes[n]).original>>
        BY <2>7, <3>2, <3>5
      <4>2. changes[n].key = key /\ changes[n].id = id /\ changes[n].column = c
        BY <1>3, <4>1
      <4>3. id \in Ids(final[key])
        BY <2>1, <3>1, <3>2 DEF Ids
      <4>4. PICK v \in Restored(FirstRejected(changes[n]).original) :
              CellIn(final, key, id, c) = <<v>>
        BY <1>1, <4>1, <4>2, <4>3, InvRestores DEF RejectionRestoresFirstValue
      <4>5. CellIn(final, key, id, c) = TableCell(u, id, c)
        BY <2>1, <2>2 DEF CellIn, TableCell
      <4>6. <<u.rows[i].cells[c]>> = <<v>>
        BY <3>3, <4>4, <4>5
      <4>7. <<s.rows[i].cells[c]>> = <<FirstRejected(changes[n]).original>>
        BY <3>3, <4>1
      <4>8. u.rows[i].cells[c] = v /\ s.rows[i].cells[c] = FirstRejected(changes[n]).original
        BY <4>6, <4>7
      <4> QED
        BY <4>4, <4>8
    <3> QED
      BY <3>4, <3>5
  <2>10. Len(u.rows) = Len(s.rows) /\ u.columns = s.columns
         /\ \A i \in DOMAIN s.rows : u.rows[i].id = s.rows[i].id
    BY <2>3, <2>5, <2>6, <2>8, TableShape DEF SameRows
  <2> QED
    BY <2>1, <2>9, <2>10
<1>5. report = Reconciled(final)
  BY DEF Inv, Reviewed
<1>6. ASSUME \A key \in DOMAIN original : final[key].rows = original[key].rows
      PROVE  report.changed = 0
  <2> DEFINE Altered == {row \in TrackedRows(original) \cap TrackedRows(final) :
                 RowOf(original[row[1]], row[2]).cells # RowOf(final[row[1]], row[2]).cells}
  <2>1. report.changed = Cardinality(Altered)
    BY <1>5 DEF Reconciled
  <2>2. \A row \in TrackedRows(original) : row[1] \in DOMAIN original
    BY DEF TrackedRows
  <2>3. \A key \in DOMAIN original : \A id : RowOf(original[key], id) = RowOf(final[key], id)
    BY <1>6 DEF RowOf
  <2>4. Altered = {}
    BY <2>2, <2>3
  <2> HIDE DEF Altered
  <2> QED
    BY <2>1, <2>4, FS_EmptySet
<1>7. report.totalChanges = 0
  <2>1. report.totalChanges = total - Cardinality(rejected)
    BY <1>5 DEF Reconciled
  <2>2. Cardinality(1 .. L) = L
    BY FS_Interval
  <2>3. total = L /\ Cardinality(rejected) = L
    BY <1>1, <2>2
  <2> QED
    BY <2>1, <2>3
<1> QED
  BY <1>4, <1>6, <1>7

\* Rejecting every change of a plan that only edited cells gives back every sheet of the source,
\* its cells or the texts of them, unless a sheet has no rows; the reconciliation reports no
\* changed row if it did not come to texts.
THEOREM RejectingAllGivesTheSourceBack == Spec => []RejectingAllRestoresSource
<1>1. Init => Inv /\ Explained /\ Traced
  BY InitInv, InitExplained, InitTraced
<1>2. (Inv /\ Explained /\ Traced) /\ [Next]_vars => (Inv /\ Explained /\ Traced)'
  BY NextInv, NextExplained, NextTraced
<1>3. Inv /\ Explained /\ Traced => RejectingAllRestoresSource
  BY InvRestoresAll
<1> QED
  BY <1>1, <1>2, <1>3, PTL DEF Spec
=============================================================================
