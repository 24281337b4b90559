----------------------------- MODULE ReviewedRun -----------------------------
(***************************************************************************)
(* What a plan does to the data, and what is left of it after the review:  *)
(* PlanRunner.run applies the steps to the tables of one workbook, gives   *)
(* every row an identity, and logs each change; the reviewer rejects some  *)
(* of the logged cell changes; JobExecutor.execute undoes those, checks    *)
(* the result, counts what happened, and publishes or refuses it.          *)
(*                                                                         *)
(* The executor runs the plan again and demands the preview's result, so   *)
(* one run stands for both.  Files are JobExecution's subject.             *)
(***************************************************************************)
EXTENDS Tables

CONSTANTS
  Columns,        \* names a column may have
  Inputs,         \* the workbooks: sequences of tables, one for each worksheet
  Rewrites,       \* what an ordered list of text actions does to a value
  Mappings,       \* approved mappings, each from some of the values
  Rules,          \* the rule a quality.validate step may carry
  Validations,    \* the plan's own validation rules
  MaxSteps,       \* bound: enabled steps of a plan
  MaxRecords,     \* max_preview_records
  MaxRejected     \* bound: changes the reviewer rejects

ASSUME BoundsAssumption ==
  /\ Columns \subseteq Nat \ {0} /\ IsFiniteSet(Columns)
  /\ {MaxSteps, MaxRecords, MaxRejected} \subseteq Nat

\* A workbook has a worksheet, no worksheet has row identities yet.
ASSUME InputsAssumption ==
  /\ Columns # {}
  /\ \A book \in Inputs :
       /\ book # <<>> /\ book \in Seq(Range(book))
       /\ \A t \in Range(book) :
            IsTable(t) /\ IsTyped(t) /\ HasNoIds(t) /\ t.columns \subseteq Columns

ASSUME ValuesAssumption == \A m \in Rewrites \cup Mappings : IsMapping(m)

VARIABLES
  pc,         \* "running" -> "previewed" -> "approved" -> "published" | "refused";
              \* or "failed"
  failure,    \* why the run raised; the kind of table whose name was taken
  original,   \* the loaded tables, with row identities
  tables,     \* the tables, by key
  nextId,     \* next_row_id
  changes,    \* the recorded changes, at most MaxRecords
  total,      \* how many changes there were
  gates,      \* a record for each quality.validate step
  target,     \* the key of the last step
  done,       \* steps applied
  rejected,   \* positions in changes of the rejected records
  final,      \* final_tables
  report      \* the reconciliation

vars == <<pc, failure, original, tables, nextId, changes, total, gates, target, done,
          rejected, final, report>>

Sheet(n) == <<"sheet", n>>
NoValue == <<>>

WithRowIds(t, offset) ==
  [t EXCEPT !.rows = [i \in DOMAIN t.rows |-> [t.rows[i] EXCEPT !.id = offset + i - 1]]]

\* The first identity of each sheet, and the next one after them all.
FirstIds(book) ==
  LET first[n \in 0 .. Len(book)] ==
        IF n = 0 THEN 1 ELSE first[n - 1] + Len(book[n].rows)
  IN  first

\* Identities run on from sheet to sheet.
Loaded(book) ==
  [k \in {Sheet(n) : n \in DOMAIN book} |->
     WithRowIds(book[k[2]], FirstIds(book)[k[2] - 1])]

RowCount(ts) == Cardinality(UNION {{key} \X DOMAIN ts[key].rows : key \in DOMAIN ts})

Init ==
  /\ \E book \in Inputs : original = Loaded(book) /\ nextId = FirstIds(book)[Len(book)]
  /\ tables = original
  /\ pc = "running" /\ failure = "none"
  /\ changes = <<>> /\ total = 0 /\ gates = <<>>
  /\ target = Sheet(1) /\ done = 0
  /\ rejected = {} /\ final = original /\ report = NoValue

-----------------------------------------------------------------------------
(* Row identities *)

\* A result without identities keeps those of its rows' positions, or gets new ones.
Identified(before, raw) ==
  LET positional == [i \in DOMAIN raw.rows |-> [raw.rows[i] EXCEPT !.id = before.rows[i].id]]
  IN  IF ~HasNoIds(raw) THEN [table |-> raw, next |-> nextId]
      ELSE IF Len(raw.rows) = Len(before.rows)
        THEN [table |-> [raw EXCEPT !.rows = positional], next |-> nextId]
        ELSE [table |-> WithRowIds(raw, nextId), next |-> nextId + Len(raw.rows)]

\* The rows seen so far, with their identities, and the next identity.
Repairs(t, next) ==
  LET fixed[n \in 0 .. Len(t.rows)] ==
        IF n = 0 THEN [rows |-> <<>>, next |-> Max(Ids(t) \cup {next - 1}) + 1]
        ELSE LET seen == fixed[n - 1]
                 row == t.rows[n]
             IN  IF \E i \in DOMAIN seen.rows : seen.rows[i].id = row.id
                   THEN [rows |-> Append(seen.rows, [row EXCEPT !.id = seen.next]),
                         next |-> seen.next + 1]
                   ELSE [seen EXCEPT !.rows = Append(@, row)]
  IN  fixed

\* Mutant: copies of a row keep its identity.
RepairedNever(t, next) == [table |-> t, next |-> next]

\* _repair_duplicate_row_ids: the first row keeps an identity, a copy gets a new one.
Repaired(t, next) ==
  LET fixed == Repairs(t, next)[Len(t.rows)]
  IN  [table |-> [t EXCEPT !.rows = fixed.rows], next |-> fixed.next]

-----------------------------------------------------------------------------
(* The change log *)

Each(S, Record(_)) == LET order == Sorted(S) IN [i \in DOMAIN order |-> Record(order[i])]

Change(kind, key, id, column, was, becomes) ==
  [kind |-> kind, key |-> key, id |-> id, column |-> column,
   original |-> was, proposed |-> becomes]

Position(t, id) == CHOOSE i \in DOMAIN t.rows : t.rows[i].id = id

\* What happened to one surviving row.
RowDiff(before, after, key, id) ==
  LET was == RowOf(before, id).cells
      is == RowOf(after, id).cells
      common == before.columns \cap after.columns
      moved == Position(before, id) # Position(after, id)
  IN  Each({c \in common : was[c] # is[c]},
           LAMBDA c : Change("cell_changed", key, id, c, was[c], is[c]))
      \o (IF moved THEN <<Change("row_reordered", key, id, 0, NoValue, NoValue)>> ELSE <<>>)
      \o Each(before.columns \ after.columns,
              LAMBDA c : Change("column_deleted", key, id, c, was[c], NoValue))
      \o Each(after.columns \ before.columns,
              LAMBDA c : Change("column_added", key, id, c, NoValue, is[c]))

\* _capture_diff
Diff(before, after, key) ==
  Each(Ids(before) \ Ids(after),
       LAMBDA id : Change("row_deleted", key, id, 0, RowOf(before, id).cells, NoValue))
  \o Each(Ids(after) \ Ids(before),
          LAMBDA id : Change("row_added", key, id, 0, NoValue, RowOf(after, id).cells))
  \o FlattenSeq(Each(Ids(before) \cap Ids(after),
                     LAMBDA id : RowDiff(before, after, key, id)))

\* Mutant: the limit is looked at once for all the changes of a step.
LogUncut(entries) ==
  /\ total' = total + Len(entries)
  /\ changes' = IF Len(changes) >= MaxRecords THEN changes ELSE changes \o entries

\* The collector counts every change and keeps the first MaxRecords.
Log(entries) ==
  /\ total' = total + Len(entries)
  /\ changes' = changes \o SubSeq(entries, 1, Min({MaxRecords - Len(changes), Len(entries)}))

\* The tables of ts, and those of more under other keys.
Beside(ts, more) ==
  [key \in DOMAIN ts \cup DOMAIN more |-> IF key \in DOMAIN ts THEN ts[key] ELSE more[key]]

\* Tables a step made beside its result: identities of their own, every row new.
Allocations(aux, next) ==
  LET made[n \in 0 .. Len(aux)] ==
        IF n = 0 THEN [tables |-> <<>>, next |-> next, log |-> <<>>]
        ELSE LET acc == made[n - 1]
                 t == WithRowIds(aux[n].table, acc.next)
             IN  [tables |-> Beside(acc.tables, [key \in {aux[n].key} |-> t]),
                  next |-> acc.next + Len(t.rows),
                  log |-> acc.log \o Diff([t EXCEPT !.rows = <<>>], t, aux[n].key)]
  IN  made

Allocated(aux, next) == Allocations(aux, next)[Len(aux)]

Raise(cause) ==
  /\ pc' = "failed" /\ failure' = cause
  /\ UNCHANGED <<original, tables, nextId, changes, total, gates, target, done, rejected,
                 final, report>>

\* Mutant: the difference is taken before the identities are repaired.
KeepDiffingEarly(key, raw, aux, checked) ==
  LET before == tables[key]
      placed == Identified(before, raw)
      after == Repaired(placed.table, placed.next)
      made == Allocated(aux, after.next)
  IN  /\ tables' = Beside(made.tables, [tables EXCEPT ![key] = after.table])
      /\ nextId' = made.next
      /\ Log(Diff(before, placed.table, key) \o made.log)
      /\ gates' = gates \o checked
      /\ target' = key /\ done' = done + 1
      /\ UNCHANGED <<pc, failure, original, rejected, final, report>>

Keep(key, raw, aux, checked) ==
  LET before == tables[key]
      placed == Identified(before, raw)
      after == Repaired(placed.table, placed.next)
      made == Allocated(aux, after.next)
  IN  /\ tables' = Beside(made.tables, [tables EXCEPT ![key] = after.table])
      /\ nextId' = made.next
      /\ Log(Diff(before, after.table, key) \o made.log)
      /\ gates' = gates \o checked
      /\ target' = key /\ done' = done + 1
      /\ UNCHANGED <<pc, failure, original, rejected, final, report>>

\* One turn of the loop over the plan's steps: key's table becomes raw, the tables of
\* aux appear, and a validation step leaves its verdict.
RunStep(key, raw, aux, checked) ==
  LET noColumns == \E t \in {raw} \cup {extra.table : extra \in Range(aux)} : t.columns = {}
      taken == {extra \in Range(aux) : extra.key \in DOMAIN tables}
  IN  CASE noColumns                -> Raise("no_columns")
        [] ~noColumns /\ taken # {} -> Raise((CHOOSE extra \in taken : TRUE).key[1])
        [] OTHER                    -> Keep(key, raw, aux, checked)

\* A step on the table of key alone: raw is its result.
Transform(key, raw) == RunStep(key, raw, <<>>, <<>>)

-----------------------------------------------------------------------------
(* The steps of a plan *)

\* The tables the next enabled step can name.
Targets == IF pc = "running" /\ done < MaxSteps THEN DOMAIN tables ELSE {}

Clean ==
  \E key \in Targets, rewrite \in Rewrites :
     \E columns \in SUBSET Cleanable(tables[key]) \ {{}} :
        Transform(key, CleanText(tables[key], columns, rewrite))

Standardize ==
  \E key \in Targets, mapping \in Mappings, policy \in {"leave", "null"} :
     \E column \in tables[key].columns :
        Transform(key, StandardizeValues(tables[key], column, mapping, policy))

Convert ==
  \E key \in Targets :
     \E column \in tables[key].columns :
        Transform(key, ConvertNumeric(tables[key], column))

Rename ==
  \E key \in Targets :
     \E from \in tables[key].columns, to \in Columns :
        from # to /\ Transform(key, RenameColumn(tables[key], from, to))

SelectSome ==
  \E key \in Targets :
     \E columns \in SUBSET tables[key].columns \ {{}} :
        Transform(key, SelectColumns(tables[key], columns))

RemoveSome ==
  \E key \in Targets :
     \E columns \in SUBSET tables[key].columns \ {{}} :
        Transform(key, RemoveColumns(tables[key], columns))

NewColumns(key) == Columns \ tables[key].columns

Add ==
  \E key \in Targets :
     \E column \in NewColumns(key) :
        Transform(key, AddColumn(tables[key], column, Marked))

Extract ==
  \E key \in Targets, rewrite \in Rewrites, keepSource \in BOOLEAN :
     \E source \in tables[key].columns, output \in NewColumns(key) :
        Transform(key, ExtractColumn(tables[key], source, output, rewrite, keepSource))

Lookup ==
  \E key \in Targets, mapping \in Mappings :
     \E source \in tables[key].columns :
        \E output \in NewColumns(key) \cup {source} :
           Transform(key, LookupColumn(tables[key], source, output, mapping, "null"))

Calculate ==
  \E key \in Targets :
     \E group, source \in tables[key].columns, output \in NewColumns(key) :
        Transform(key, GroupTotal(tables[key], group, source, output))

Filter ==
  \E key \in Targets, keep \in BOOLEAN :
     \E column \in tables[key].columns :
        \E value \in Categories(tables[key], column) :
           Transform(key, FilterRows(tables[key], column, value, keep))

Sort ==
  \E key \in Targets, descending \in BOOLEAN :
     \E column \in tables[key].columns :
        Transform(key, SortRows(tables[key], column, descending))

\* duplicates.handle in its four modes; no keys means every column.
Mark ==
  \E key \in Targets :
     \E keys \in SUBSET tables[key].columns \ {{}}, marker \in NewColumns(key) :
        Transform(key, MarkDuplicates(tables[key], keys, marker))

RemoveOrMove ==
  \E key \in Targets, keep \in {"first", "last"}, move \in BOOLEAN :
     \E keys \in SUBSET tables[key].columns \ {{}} :
        LET moved == [key |-> <<"duplicates", 0>>,
                      table |-> MovedRows(tables[key], keys, keep)]
        IN  RunStep(key, KeptRows(tables[key], keys, keep),
                    IF move THEN <<moved>> ELSE <<>>, <<>>)

MergeRows ==
  \E key \in Targets, keep, strategy \in {"first", "last"} :
     \E keys \in SUBSET tables[key].columns \ {{}} :
        Transform(key, MergeComplementary(tables[key], keys, keep, strategy))

\* tables.merge: the result replaces the target's table, the other tables stay.
Merge ==
  \E key, first, second \in Targets :
     Transform(key, MergeTables(tables, <<first, second>>))

\* table.split_by_category: the target stays as it is.
Split ==
  \E key \in Targets, drop \in BOOLEAN :
     \E column \in tables[key].columns :
        LET parts == Each(Categories(tables[key], column),
                          LAMBDA v : [key |-> <<"category", v>>,
                                      table |-> CategoryRows(tables[key], column, v, drop)])
        IN  RunStep(key, tables[key], parts, <<>>)

\* calculate.summary: an aggregate table of its own; its content is left out.
Summarize ==
  \E key \in Targets :
     LET summary == [columns |-> {Min(Columns)}, texts |-> {}, rows |-> <<>>]
     IN  RunStep(key, tables[key], <<[key |-> <<"summary", 0>>, table |-> summary]>>, <<>>)

\* quality.validate: the verdict, and a table of issues under a fixed name.
ValidateSheet(key) ==
  \E rule \in Rules :
     LET broken == RowsBreaking(rule, tables[key])
         row == [id |-> 0, cells |-> [c \in {Min(Columns)} |-> Cardinality(broken)]]
         issues == [columns |-> {Min(Columns)}, texts |-> {},
                    rows |-> IF broken = {} THEN <<>> ELSE <<row>>]
     IN  /\ Checkable(rule, tables[key])
         /\ RunStep(key, tables[key], <<[key |-> <<"issues", 0>>, table |-> issues]>>,
                    <<[key |-> key, rule |-> rule, passed |-> broken = {},
                       table |-> tables[key]]>>)

Validate == \E key \in Targets : ValidateSheet(key)

\* A missing target or column, a refused conversion, a merge of unlike or conflicting
\* tables.
StepRaises == Targets # {} /\ Raise("operation")

FinishRun ==
  /\ pc = "running" /\ pc' = "previewed"
  /\ UNCHANGED <<failure, original, tables, nextId, changes, total, gates, target, done,
                 rejected, final, report>>

-----------------------------------------------------------------------------
(* Review and execution *)

CellChanges == {n \in DOMAIN changes : changes[n].kind = "cell_changed"}

\* validate_approval: only recorded value changes can be rejected.
Approve ==
  /\ pc = "previewed" /\ pc' = "approved"
  /\ rejected' \in {S \in SUBSET CellChanges : Cardinality(S) <= MaxRejected}
  /\ UNCHANGED <<failure, original, tables, nextId, changes, total, gates, target, done,
                 final, report>>

\* The value goes back as a literal, and the column gets the common type of the literal
\* and the column: text when one of them is text.
PutBack(t, change) ==
  LET column == {change.column}
      typed == IF IsText(change.original) THEN AsTexts(t, column) ELSE t
      value == IF change.column \in typed.texts THEN AsText(change.original)
                                                ELSE change.original
  IN  WithCells(typed, typed.columns,
                LAMBDA r, c : IF r.id = change.id /\ c = change.column THEN value ELSE r.cells[c])

\* Mutant: the row is looked up in every table of the result.
UndoEverywhere(ts, change) == [key \in DOMAIN ts |-> PutBack(ts[key], change)]

\* One turn of apply_cell_rejections.
Undo(ts, change) == [ts EXCEPT ![change.key] = PutBack(@, change)]

\* The tables after each turn, when the changes at these positions are undone in turn.
Undone(ts, positions) ==
  LET undone[n \in 0 .. Len(positions)] ==
        IF n = 0 THEN ts ELSE Undo(undone[n - 1], changes[positions[n]])
  IN  undone

\* Mutant: the earliest change is undone first.
WithoutRejectedForward(ts) == Undone(ts, Sorted(rejected))[Cardinality(rejected)]

\* apply_cell_rejections: the latest change is undone first.
WithoutRejected(ts) == Undone(ts, Reverse(Sorted(rejected)))[Cardinality(rejected)]

TrackedRows(ts) == UNION {{<<key, id>> : id \in Ids(ts[key])} : key \in DOMAIN ts}

\* Mutant: rows of new tables are not counted as added.
ReconciledOldTables(result) ==
  LET before == TrackedRows(original)
      after == {row \in TrackedRows(result) : row[1] \in DOMAIN original}
      Changed(row) == RowOf(original[row[1]], row[2]).cells # RowOf(result[row[1]], row[2]).cells
  IN  [originalRows |-> RowCount(original), finalRows |-> RowCount(result),
       removed |-> Cardinality(before \ after), added |-> Cardinality(after \ before),
       changed |-> Cardinality({row \in before \cap after : Changed(row)}),
       totalChanges |-> total - Cardinality(rejected)]

\* Mutant: the tables are compared as they were before the rejections.
ReconciledTooEarly(result) ==
  LET before == TrackedRows(original)
      after == TrackedRows(result)
      Changed(row) == RowOf(original[row[1]], row[2]).cells # RowOf(tables[row[1]], row[2]).cells
  IN  [originalRows |-> RowCount(original), finalRows |-> RowCount(result),
       removed |-> Cardinality(before \ after), added |-> Cardinality(after \ before),
       changed |-> Cardinality({row \in before \cap after : Changed(row)}),
       totalChanges |-> total - Cardinality(rejected)]

\* reconcile
Reconciled(result) ==
  LET before == TrackedRows(original)
      after == TrackedRows(result)
      Changed(row) == RowOf(original[row[1]], row[2]).cells # RowOf(result[row[1]], row[2]).cells
  IN  [originalRows |-> RowCount(original), finalRows |-> RowCount(result),
       removed |-> Cardinality(before \ after), added |-> Cardinality(after \ before),
       changed |-> Cardinality({row \in before \cap after : Changed(row)}),
       totalChanges |-> total - Cardinality(rejected)]

\* JobExecutor.execute, from the second run of the plan to the choice of the output.
Execute ==
  LET undoable == \A n \in rejected : changes[n].column \in tables[changes[n].key].columns
      result == WithoutRejected(tables)
      primary == Stripped(result[target])
      checkable == \A rule \in Validations : Checkable(rule, primary)
      passed == /\ \A n \in DOMAIN gates : gates[n].passed
                /\ \A rule \in Validations : RowsBreaking(rule, primary) = {}
  IN  /\ pc = "approved"
      /\ IF undoable /\ checkable
           THEN /\ final' = result
                /\ report' = Reconciled(result)
                /\ pc' = IF passed THEN "published" ELSE "refused"
                /\ UNCHANGED <<failure, original, tables, nextId, changes, total, gates,
                               target, done, rejected>>
           ELSE Raise("execution")

Next ==
  \/ Clean \/ Standardize \/ Convert
  \/ Rename \/ SelectSome \/ RemoveSome \/ Add \/ Extract \/ Lookup \/ Calculate
  \/ Filter \/ Sort \/ Mark \/ RemoveOrMove \/ MergeRows
  \/ Merge \/ Split \/ Summarize \/ Validate
  \/ StepRaises \/ FinishRun \/ Approve \/ Execute

Spec == Init /\ [][Next]_vars

-----------------------------------------------------------------------------
(* Properties *)

Records ==
  [kind : {"cell_changed", "row_added", "row_deleted", "row_reordered", "column_added",
           "column_deleted"},
   key : DOMAIN tables, id : 1 .. nextId - 1]

\* Types of the variables, among them: a change names a table of the run and an identity
\* that was handed out, and the log never outgrows its limit.
TypeOK ==
  /\ pc \in {"running", "previewed", "approved", "published", "refused", "failed"}
  /\ failure \in {"none", "no_columns", "operation", "execution",
                  "duplicates", "category", "summary", "issues"}
  /\ \A ts \in {original, tables, final} : \A key \in DOMAIN ts : \A row \in Range(ts[key].rows) :
        /\ row.id \in 1 .. nextId - 1
        /\ DOMAIN row.cells = ts[key].columns /\ ts[key].columns \subseteq Columns
  /\ \A n \in DOMAIN changes :
        [kind |-> changes[n].kind, key |-> changes[n].key, id |-> changes[n].id] \in Records
  /\ Len(changes) <= MaxRecords /\ Len(changes) <= total
  /\ rejected \subseteq CellChanges
  /\ target \in DOMAIN tables /\ done \in 0 .. MaxSteps

\* Rows keep distinct identities through every chain of steps, whatever was filtered,
\* merged twice, split off or stripped of its identity column: a rejection by
\* internal_row_id names one row.
RowIdsUnique ==
  \A key \in DOMAIN tables : IsInjective([i \in DOMAIN tables[key].rows |-> tables[key].rows[i].id])

\* The cell (key, id, column) of ts, NoValue if it is not there.
CellIn(ts, key, id, column) ==
  IF key \in DOMAIN ts /\ id \in Ids(ts[key]) /\ column \in ts[key].columns
    THEN <<RowOf(ts[key], id).cells[column]>> ELSE NoValue

\* A record about the cell: of its value, its column or its row.
About(r, key, id, column) ==
  /\ r.key = key /\ r.id = id
  /\ \/ r.kind \in {"row_added", "row_deleted"}
     \/ r.kind # "row_reordered" /\ r.column = column

\* The cell after what the record says.
Says(r, column) ==
  IF r.kind \in {"row_deleted", "column_deleted"} THEN NoValue
  ELSE IF r.kind # "row_added" THEN <<r.proposed>>
  ELSE IF column \in DOMAIN r.proposed THEN <<r.proposed[column]>> ELSE NoValue

\* What the log says of a cell: the latest record about it, else the source's value.
LoggedCell(key, id, column) ==
  LET last == SelectLastInSeq(changes, LAMBDA r : About(r, key, id, column))
  IN  IF last = 0 THEN CellIn(original, key, id, column) ELSE Says(changes[last], column)

\* The change log is complete: as long as it was not cut off, replaying it over the
\* source gives the result, cell by cell. What the reviewer approves is what the plan does.
LogExplainsResult ==
  pc = "previewed" /\ total = Len(changes) =>
    \A key \in DOMAIN tables, id \in 1 .. nextId - 1, column \in Columns :
       LoggedCell(key, id, column) = CellIn(tables, key, id, column)

Executed == pc \in {"published", "refused"}

SameCell(r, s) == r.key = s.key /\ r.id = s.id /\ r.column = s.column

\* The record of the first rejected change of the cell that r is about.
FirstRejected(r) == changes[Min({m \in rejected : SameCell(changes[m], r)})]

\* The value, or the text it was cast to.
Restored(v) == {v, AsText(v)}

\* A rejected cell gets the value it had before the first rejected change of it, or the
\* text of that value, however many steps changed it; its row may be gone by then.
RejectionRestoresFirstValue ==
  Executed => \A n \in rejected :
    LET r == changes[n]
    IN  r.id \in Ids(final[r.key]) =>
          \E v \in Restored(FirstRejected(r).original) :
             CellIn(final, r.key, r.id, r.column) = <<v>>

\* Undoing rejected changes touches no other row, column or table; in the column of a
\* rejected change, the other cells keep their values, or the column is cast to text.
RejectionIsLocal ==
  Executed =>
    /\ DOMAIN final = DOMAIN tables
    /\ \A key \in DOMAIN tables :
         LET t == tables[key]
             f == final[key]
         IN  /\ f.columns = t.columns /\ Len(f.rows) = Len(t.rows)
             /\ \A i \in DOMAIN t.rows : f.rows[i].id = t.rows[i].id
             /\ \A i \in DOMAIN t.rows, c \in t.columns :
                  \/ f.rows[i].cells[c] = t.rows[i].cells[c]
                  \/ \E n \in rejected :
                       /\ changes[n].key = key /\ changes[n].column = c
                       /\ \/ changes[n].id = t.rows[i].id
                          \/ f.rows[i].cells[c] = AsText(t.rows[i].cells[c])

\* The reconciliation adds up: rows in, less rows removed, plus rows added, are the rows
\* out, over all sheets, those that merges and splits made among them.
RowCountsBalance ==
  Executed => report.originalRows + report.added = report.finalRows + report.removed

\* Rejecting every change of a plan that only edited cells gives back the source, its
\* numbers as they were or as texts: a sheet of texts comes back as it was, and if every
\* sheet does, the reconciliation says that no row changed. (The changes of a sheet's
\* columns are logged row by row: a sheet without rows may lose a column and the log says
\* nothing of it.)
RejectingAllRestoresSource ==
  /\ Executed /\ total = Len(changes) /\ rejected = DOMAIN changes
  /\ \A key \in DOMAIN original : original[key].rows # <<>>
  =>
    /\ \A key \in DOMAIN original :
         LET t == original[key]
             f == final[key]
         IN  /\ f.columns = t.columns /\ Len(f.rows) = Len(t.rows)
             /\ \A i \in DOMAIN t.rows : f.rows[i].id = t.rows[i].id
             /\ \A i \in DOMAIN t.rows, c \in t.columns :
                  f.rows[i].cells[c] \in Restored(t.rows[i].cells[c])
    /\ (\A key \in DOMAIN original : final[key].rows = original[key].rows) => report.changed = 0
    /\ report.totalChanges = 0

\* A sheet that an explicit quality.validate step gated, and that no later step touched,
\* satisfies the rule when it is published.
GatedSheetsSatisfyTheirRule ==
  pc = "published" =>
    \A n \in DOMAIN gates :
       tables[gates[n].key] = gates[n].table =>
         RowsBreaking(gates[n].rule, Stripped(final[gates[n].key])) = {}

\* Each additional sheet can have its own quality.validate step: such a step does not
\* fail because another sheet of the workbook was gated before it.
EverySheetCanBeGated ==
  [][(\E key \in Targets \cap DOMAIN original :
         ValidateSheet(key) /\ \A n \in DOMAIN gates : gates[n].key # key)
       => failure' # "issues"]_vars
=============================================================================
