---------------------------- MODULE MCPlanReview ----------------------------
(* Model-checking instances of PlanReview. *)
EXTENDS PlanReview, TLC

Consent(mode, metadata, raw) == [mode |-> mode, metadata |-> metadata, raw |-> raw]

Step(id, operation, columns, source, where) ==
  [id |-> id, operation |-> operation, columns |-> columns, source |-> source, sheet |-> where,
   enabled |-> TRUE, destructive |-> operation = "duplicates.remove",
   confirmed |-> operation = "duplicates.remove", needs |-> {}]
Disabled(step) == [step EXCEPT !.enabled = FALSE]

After(step, id) == [step EXCEPT !.needs = {id}]

Plan(source, steps) == [source |-> source, steps |-> steps, rules |-> {}]

Clause(words, named) == [words |-> words, named |-> named]

\* One sheet, and two of which the second repeats a header.
OneSheet(privacy) ==
  [source |-> "first", sheets |-> <<"Data">>, headers |-> [s \in {"Data"} |-> {"Name", "City"}],
   text |-> [s \in {"Data"} |-> {"Name"}], duplicated |-> {}, privacy |-> privacy,
   instruction |-> <<Clause({"clean", "all columns"}, {})>>, steps |-> <<>>]
TwoSheets ==
  [source |-> "second", sheets |-> <<"Data", "More">>,
   headers |-> [s \in {"Data", "More"} |-> IF s = "Data" THEN {"Name"} ELSE {"City"}],
   text |-> [s \in {"Data", "More"} |-> {}], duplicated |-> {"More"},
   privacy |-> Consent("local", FALSE, FALSE),
   instruction |-> <<Clause({"sort"}, {"Name"}), Clause({"duplicates", "mark"}, {})>>,
   steps |-> <<Step(<<"step", 2>>, "text.clean", {"Name"}, "second", "Data")>>]

MCJobs ==
  {OneSheet(Consent("local", FALSE, FALSE)), OneSheet(Consent("ai_assisted", TRUE, FALSE)),
   OneSheet(Consent("ai_assisted", TRUE, TRUE)), TwoSheets}

\* Understood, with two readings, refused, and with words the rules do not know.
MCInstructions ==
  {<<>>,
   <<Clause({"sort", "other"}, {"Name"}), Clause({"duplicates", "remove"}, {"Name"})>>,
   <<Clause({"sort", "clean"}, {"Name"})>>,
   <<Clause({"standardize", "type"}, {"Name"}), Clause({"other"}, {})>>,
   <<Clause({"standardize", "type", "sort"}, {"Name"})>>,
   <<Clause({"rows where", "condition", "remove"}, {"Name"}), Clause({"clean"}, {"City"})>>}

MCEdited ==
  {Plan("first", <<Step(<<"step", 1>>, "text.clean", {"Name"}, "first", "Data")>>),
   Plan("second", <<Step(<<"step", 1>>, "rows.sort", {"Salary"}, "second", "default")>>),
   Plan("first", <<Disabled(Step(<<"step", 1>>, "text.clean", {"Name"}, "first", "Data")),
                   After(Step(<<"step", 2>>, "rows.sort", {"City"}, "first", "Data"),
                         <<"step", 1>>)>>)}

MCManual ==
  {[operation |-> "duplicates.remove", columns |-> {"Name"}],
   [operation |-> "rows.sort", columns |-> {"_sheetpilot_row_id"}]}

\* Two sound plans, an unknown operation, an unanalysed column, a duplicated header,
\* a rule that names a column, and an answer that is no plan.
MCResponses ==
  {[steps |-> <<Step(<<"step", 1>>, "rows.sort", {"Name"}, "first", "default")>>, rules |-> {"Name"}],
   [steps |-> <<Step(<<"step", 1>>, "text.clean", {"City"}, "first", "Data")>>, rules |-> {}],
   [steps |-> <<Step(<<"step", 1>>, "run.macro", {}, "first", "Data")>>, rules |-> {}],
   [steps |-> <<Step(<<"step", 1>>, "rows.sort", {"Salary"}, "first", "Data")>>, rules |-> {}],
   [steps |-> <<Step(<<"step", 1>>, "rows.sort", {"Name"}, "second", "More")>>, rules |-> {}],
   [steps |-> <<Step(<<"step", 1>>, "text.clean", {"Name"}, "second", "Data")>>, rules |-> {}],
   NotAPlan}

ProviderSymmetry == Permutations(ProviderIds)

MCRegistered ==
  {"text.clean", "rows.sort", "values.standardize", "rows.filter", "duplicates.remove",
   "duplicates.mark"}
MCDestructive == {"rows.filter", "duplicates.remove"}
=============================================================================
