--------------------------- MODULE MCReviewedRun ---------------------------
(* Model-checking instances of ReviewedRun. *)
EXTENDS ReviewedRun

\* The numbers are 1 to 9, their texts 11 to 19; 20 is blank text and 21 a word.
MCTextOf == [n \in 1 .. 9 |-> n + 10]
MCNumberIn == [v \in 11 .. 19 |-> v - 10]
Blanks == 20
Word == 21

\* The first column of a sheet holds numbers, the second texts.
Table(rows) ==
  [columns |-> {1, 2}, texts |-> {2},
   rows |-> [i \in DOMAIN rows |-> [id |-> 0, cells |-> rows[i]]]]

\* Two worksheets with the same headers: one key repeats, one cell is blank.
TwoSheets == {<<Table(<<<<1, 11>>, <<1, Null>>>>), Table(<<<<2, Word>>>>)>>}

\* The text of 1 becomes a word, and a word becomes blank.
MCRewrites == {11 :> Word @@ Word :> Blanks}
\* The text of 1 becomes the text of 2.
MCMappings == {11 :> 12}

Rule(kind, column, values) == [kind |-> kind, column |-> column, values |-> values]

\* Rules a step may carry; the last one is also the plan's own.
AllRules == {Rule("required_fields", 2, {}), Rule("duplicate_id", 1, {}),
             Rule("blank_rows", 0, {}), Rule("allowed_values", 1, {1, 2, 12})}
AllowedRule == {Rule("allowed_values", 1, {12})}
PlanRules == {Rule("allowed_values", 1, {1, 2, 12})}
NoRules == {}
=============================================================================
