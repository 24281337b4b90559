------------------------------- MODULE Tables -------------------------------
(***************************************************************************)
(* The registered operations of sheetpilot/operations, as functions on     *)
(* tables.  A table is a set of column names and a sequence of rows; a row *)
(* has its cells and the identity the plan runner gave it in the column    *)
(* _sheetpilot_preview_row_id, 0 when the frame has no such column.        *)
(*                                                                         *)
(* Columns and values are small naturals: their order is the order of the  *)
(* code's sorted().  A column is of type text, or of another type: the     *)
(* values of the other types are called numbers here, and polars' casts    *)
(* between those types keep the value.  The order of columns is left out.  *)
(***************************************************************************)
EXTENDS Naturals, Sequences, SequencesExt, FiniteSets, FiniteSetsExt

CONSTANTS
  TextOf,     \* the text polars casts a number to
  NumberIn,   \* the number that polars reads in a text, where there is one
  BlankText   \* a text of spaces or none

Null == 0

IsText(v) == v # Null /\ v \notin DOMAIN TextOf

ASSUME TypesAssumption ==
  /\ DOMAIN TextOf \subseteq Nat \ {Null}
  /\ \A n \in DOMAIN TextOf : TextOf[n] \in Nat /\ IsText(TextOf[n])
  /\ \A v \in DOMAIN NumberIn : IsText(v) /\ NumberIn[v] \in DOMAIN TextOf
  /\ BlankText \in Nat \ DOMAIN NumberIn /\ IsText(BlankText)

IsBlank(v) == v \in {Null, BlankText}

\* cast(pl.String)
AsText(v) == IF v \in DOMAIN TextOf THEN TextOf[v] ELSE v

\* cast(pl.Float64, strict=False)
AsNumber(v) ==
  IF v \in DOMAIN NumberIn THEN NumberIn[v] ELSE IF IsText(v) THEN Null ELSE v

\* The two values of a marker column.
Marked == 1
Unmarked == 2

Row(columns) == [id : Nat, cells : [columns -> Nat]]

IsTable(t) ==
  /\ t = [columns |-> t.columns, texts |-> t.texts, rows |-> t.rows]
  /\ t.texts \subseteq t.columns /\ t.rows \in Seq(Row(t.columns))

\* Text columns hold texts and nulls, the others numbers and nulls.
IsTyped(t) ==
  \A row \in Range(t.rows), c \in t.columns :
     row.cells[c] # Null => (IsText(row.cells[c]) <=> c \in t.texts)

\* Rewrites and mappings give values.
IsMapping(m) == \A v \in DOMAIN m : m[v] \in Nat

\* The elements of a finite set in the order of the relation before, each at its rank.
InOrder(S, before) ==
  [i \in 1 .. Cardinality(S) |->
     CHOOSE m \in S : Cardinality({n \in S : <<n, m>> \in before}) = i - 1]

Sorted(S) == InOrder(S, {p \in S \X S : p[1] < p[2]})

Ids(t) == {t.rows[i].id : i \in DOMAIN t.rows}

RowOf(t, id) == t.rows[CHOOSE i \in DOMAIN t.rows : t.rows[i].id = id]

HasNoIds(t) == \A i \in DOMAIN t.rows : t.rows[i].id = 0

\* strip_internal_columns
Stripped(t) ==
  [t EXCEPT !.rows = [i \in DOMAIN t.rows |-> [t.rows[i] EXCEPT !.id = 0]]]

AtPositions(t, S) ==
  LET order == Sorted(S)
  IN  [t EXCEPT !.rows = [i \in DOMAIN order |-> t.rows[order[i]]]]

\* The table whose columns are columns and whose cell c of row r is Cell(r, c).
WithCells(t, columns, Cell(_, _)) ==
  [columns |-> columns,
   texts |-> t.texts \cap columns,
   rows |-> [i \in DOMAIN t.rows |->
               [t.rows[i] EXCEPT !.cells = [c \in columns |-> Cell(t.rows[i], c)]]]]

\* The columns take other types, those of texts are text now.
Retyped(t, columns, texts) ==
  [t EXCEPT !.texts = ((@ \ columns) \cup texts) \cap t.columns]

\* The columns cast to text.
AsTexts(t, columns) ==
  Retyped(WithCells(t, t.columns,
                    LAMBDA r, c : IF c \in columns THEN AsText(r.cells[c]) ELSE r.cells[c]),
          columns, columns)

-----------------------------------------------------------------------------
(* Cell edits: one function of the old value, in each of the named columns. *)

\* A value outside the approved mapping is left, or replaced by null; keys are texts.
Mapped(v, mapping, policy) ==
  IF AsText(v) \in DOMAIN mapping THEN mapping[AsText(v)]
  ELSE IF policy = "null" THEN Null ELSE v

\* The columns that text.clean accepts: of text, or of nulls only.
Cleanable(t) ==
  t.texts \cup {c \in t.columns : \A row \in Range(t.rows) : row.cells[c] = Null}

\* text.clean: map_elements skips nulls; rewrite gives the texts it changes.
CleanText(t, columns, rewrite) ==
  Retyped(WithCells(t, t.columns,
                    LAMBDA r, c : IF c \in columns /\ r.cells[c] # Null
                                    THEN Mapped(r.cells[c], rewrite, "leave")
                                    ELSE r.cells[c]),
          columns, columns)

\* values.standardize in the modes of text (the policy "reject" raises: StepRaises).
StandardizeValues(t, column, mapping, policy) ==
  WithCells(AsTexts(t, {column}), t.columns,
            LAMBDA r, c : IF c = column /\ ~IsBlank(r.cells[c])
                            THEN Mapped(r.cells[c], mapping, policy) ELSE r.cells[c])

\* values.standardize, mode numeric_text; but for the policy "null" it raises when some
\* text is no number.
ConvertNumeric(t, column) ==
  Retyped(WithCells(t, t.columns,
                    LAMBDA r, c : IF c = column THEN AsNumber(r.cells[c]) ELSE r.cells[c]),
          {column}, {})

-----------------------------------------------------------------------------
(* columns.transform and calculate.column *)

\* rename, with a swap when both names exist.
RenameColumn(t, from, to) ==
  LET Other(c) == CASE c = to -> from [] c = from -> to [] OTHER -> c
  IN  [WithCells(t, {Other(c) : c \in t.columns}, LAMBDA r, c : r.cells[Other(c)])
         EXCEPT !.texts = {Other(c) : c \in t.texts}]

\* reorder with append_unlisted off: select() drops every unlisted column, the
\* row identities among them.
SelectColumns(t, columns) == Stripped(WithCells(t, columns, LAMBDA r, c : r.cells[c]))

AddColumn(t, column, value) ==
  Retyped(WithCells(t, t.columns \cup {column},
                    LAMBDA r, c : IF c = column THEN value ELSE r.cells[c]),
          {column}, {c \in {column} : IsText(value)})

RemoveColumns(t, columns) ==
  WithCells(t, t.columns \ columns, LAMBDA r, c : r.cells[c])

\* extract, split, combine: a new column computed from source, which is kept or not.
ExtractColumn(t, source, output, rewrite, keepSource) ==
  LET kept == IF keepSource THEN t.columns ELSE t.columns \ {source}
  IN  Retyped(WithCells(t, kept \cup {output},
                        LAMBDA r, c : IF c # output THEN r.cells[c]
                                      ELSE IF r.cells[source] = Null THEN Null
                                      ELSE Mapped(AsText(r.cells[source]), rewrite, "leave")),
              {output}, {output})

\* lookup: output may be source itself; one text among the values makes them all text.
LookupColumn(t, source, output, mapping, policy) ==
  LET Found(r) == Mapped(r.cells[source], mapping, policy)
      text == \E r \in Range(t.rows) : IsText(Found(r))
  IN  Retyped(WithCells(t, t.columns \cup {output},
                        LAMBDA r, c : IF c # output THEN r.cells[c]
                                      ELSE IF text THEN AsText(Found(r)) ELSE Found(r)),
              {output}, {c \in {output} : text})

\* The aggregate of group_total, over the rows with the same group: here the count
\* of non-null values, null if there are none.
GroupTotal(t, group, source, output) ==
  LET Total(r) == Cardinality({i \in DOMAIN t.rows :
                                 /\ t.rows[i].cells[group] = r.cells[group]
                                 /\ t.rows[i].cells[source] # Null})
  IN  Retyped(WithCells(t, t.columns \cup {output},
                        LAMBDA r, c : IF c = output THEN Total(r) ELSE r.cells[c]),
              {output}, {})

-----------------------------------------------------------------------------
(* Row operations *)

\* rows.filter on an exact value; keep is keep_matching.
FilterRows(t, column, value, keep) ==
  AtPositions(t, {i \in DOMAIN t.rows : (t.rows[i].cells[column] = value) = keep})

\* rows.sort by one column: stable, nulls last.
SortRows(t, column, descending) ==
  LET v(i) == t.rows[i].cells[column]
      Less(i, j) ==
        IF v(i) = v(j) THEN i < j
        ELSE v(i) # Null /\ (v(j) = Null \/ (v(i) < v(j)) # descending)
      order == InOrder(DOMAIN t.rows,
                       {p \in (DOMAIN t.rows) \X (DOMAIN t.rows) : Less(p[1], p[2])})
  IN  [t EXCEPT !.rows = [i \in DOMAIN order |-> t.rows[order[i]]]]

SameKey(t, keys, i) ==
  {j \in DOMAIN t.rows : \A c \in keys : t.rows[j].cells[c] = t.rows[i].cells[c]}

Chosen(group, keep) == IF keep = "first" THEN Min(group) ELSE Max(group)

KeptPositions(t, keys, keep) ==
  {Chosen(SameKey(t, keys, i), keep) : i \in DOMAIN t.rows}

\* duplicates.handle, mode mark.
MarkDuplicates(t, keys, marker) ==
  LET Repeated(r) == Cardinality({j \in DOMAIN t.rows :
                       \A c \in keys : t.rows[j].cells[c] = r.cells[c]}) > 1
  IN  Retyped(WithCells(t, t.columns \cup {marker},
                        LAMBDA r, c : IF c # marker THEN r.cells[c]
                                      ELSE IF Repeated(r) THEN Marked ELSE Unmarked),
              {marker}, {})

\* Modes remove and move: the kept rows, and the others.
KeptRows(t, keys, keep) == AtPositions(t, KeptPositions(t, keys, keep))
MovedRows(t, keys, keep) == AtPositions(t, DOMAIN t.rows \ KeptPositions(t, keys, keep))

\* Mode merge_complementary: one row per group, in the order the groups appear, with
\* the first or the last non-blank value of every other column.
MergeComplementary(t, keys, keep, strategy) ==
  LET heads == Sorted({Min(SameKey(t, keys, i)) : i \in DOMAIN t.rows})
      Values(group, c) == {i \in group : ~IsBlank(t.rows[i].cells[c])}
      Merged(group) ==
        LET chosen == t.rows[Chosen(group, keep)]
        IN  [chosen EXCEPT !.cells =
              [c \in t.columns |->
                 IF c \in keys THEN chosen.cells[c]
                 ELSE IF Values(group, c) = {} THEN Null
                 ELSE t.rows[Chosen(Values(group, c), strategy)].cells[c]]]
  IN  [t EXCEPT !.rows = [i \in DOMAIN heads |-> Merged(SameKey(t, keys, heads[i]))]]

-----------------------------------------------------------------------------
(* Several tables *)

\* tables.merge, schema mode union: the rows of every selected table in turn, null
\* where a table has no such column; a column that is text in one of them becomes text.
\* Mode strict is the case of equal columns.
MergeTables(all, selected) ==
  LET columns == UNION {all[selected[n]].columns : n \in DOMAIN selected}
      texts == UNION {all[selected[n]].texts : n \in DOMAIN selected}
      Padded(t) == WithCells(AsTexts(t, texts \cap t.columns), columns,
                             LAMBDA r, c : IF c \in t.columns THEN r.cells[c] ELSE Null)
  IN  [columns |-> columns,
       texts |-> texts,
       rows |-> FlattenSeq([n \in DOMAIN selected |-> Padded(all[selected[n]]).rows])]

\* table.split_by_category: a table for each value of column.
CategoryRows(t, column, value, drop) ==
  LET rows == FilterRows(t, column, value, TRUE)
  IN  IF drop THEN RemoveColumns(rows, {column}) ELSE rows

Categories(t, column) == {r.cells[column] : r \in Range(t.rows)}

-----------------------------------------------------------------------------
(* quality.validate *)

\* The rows that break a rule.  blank_rows asks whether every column of the frame is
\* blank, and inside a plan step the row identity is one of the columns.
RowsBreaking(rule, t) ==
  {i \in DOMAIN t.rows :
     LET cells == t.rows[i].cells
     IN  CASE rule.kind = "required_fields" -> IsBlank(cells[rule.column])
           [] rule.kind = "allowed_values"  -> cells[rule.column] \notin rule.values
           [] rule.kind = "duplicate_id"    ->
                \E j \in DOMAIN t.rows \ {i} :
                   t.rows[j].cells[rule.column] = cells[rule.column]
           [] rule.kind = "blank_rows"       ->
                t.rows[i].id = 0 /\ \A c \in t.columns : IsBlank(cells[c])}

\* require_columns: a rule about a missing column raises.
Checkable(rule, t) == rule.kind = "blank_rows" \/ rule.column \in t.columns
=============================================================================
