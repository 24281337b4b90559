---------------------- MODULE WorkflowRebinding_proofs ----------------------
(***************************************************************************)
(* A plan that a workflow binds to new files is the plan that was          *)
(* reviewed, but for what the user changed: for any plans, any parameter   *)
(* values and any number of workflows, jobs and crashes.                   *)
(*                                                                         *)
(* Two arguments meet here.  No two reuse parameters of a template stand   *)
(* for the same place of its work, so instantiate changes a place exactly  *)
(* when the parameter of that place was changed (InstantiateRebinds).  And *)
(* the template that is bound is the one that was chosen, with the values  *)
(* typed then, however the user moved between the pages (Course).          *)
(*                                                                         *)
(* The types come last, since what instantiate makes of a template is a    *)
(* plan only if the template and what was typed are well formed.           *)
(***************************************************************************)
EXTENDS WorkflowLibrary_proofs, FiniteSetTheorems

\* What EXCEPT needs to know of a work.

WorkShape(w) ==
  /\ DOMAIN w = {"sources", "steps", "rules"}
  /\ \A i \in DOMAIN w.steps : DOMAIN w.steps[i] = {"source", "sheet", "columns", "params"}

\* The parameter bound to a place of a work, if there is one, is the only one, and
\* its default is what stands there.
OnlyParameter(t, binding, old) ==
  \A p, q \in t.parameters :
    p.binding = binding /\ q.binding = binding => p = q /\ p.default = old

\* A value is given to the place it is bound to, and nothing else is.
LEMMA GivenWhereAsked ==
  ASSUME NEW t, NEW values, NEW binding, NEW old, OnlyParameter(t, binding, old)
  PROVE  Bound(t, values, binding, old) = Answer(Changes(t, values), binding, old)
<1> DEFINE bound == {p \in t.parameters : p.binding = binding /\ Supplied(p, values)}
           changed == {c \in Changes(t, values) : c.binding = binding}
<1>1. CASE bound = {}
  <2>1. ~ \E c \in Changes(t, values) : c.binding = binding
    BY <1>1 DEF Changes, Supplied
  <2> QED
    BY <1>1, <2>1 DEF Bound, Answer
<1>2. CASE bound # {}
  <2>1. PICK p \in bound : TRUE
    BY <1>2
  <2>2. \A q \in t.parameters : q.binding = binding => q = p
    BY <2>1 DEF OnlyParameter
  <2>3. p.default = old /\ bound = {p}
    BY <2>1, <2>2 DEF OnlyParameter
  <2>4. Bound(t, values, binding, old) = Given(p, values)
    BY <1>2, <2>3 DEF Bound
  <2>5. CASE p.key \in DOMAIN values /\ values[p.key] # p.default
    <3>1. [binding |-> p.binding, value |-> values[p.key]] \in Changes(t, values)
      BY <2>1, <2>5 DEF Changes
    <3>2. \A c \in Changes(t, values) : c.binding = binding => c.value = values[p.key]
      BY <2>2 DEF Changes
    <3>3. Answer(Changes(t, values), binding, old) = values[p.key]
      BY <2>1, <3>1, <3>2 DEF Answer
    <3> QED
      BY <2>4, <2>5, <3>3 DEF Given
  <2>6. CASE ~(p.key \in DOMAIN values /\ values[p.key] # p.default)
    <3>1. ~ \E c \in Changes(t, values) : c.binding = binding
      BY <2>2, <2>6 DEF Changes
    <3> QED
      BY <2>3, <2>4, <2>6, <3>1 DEF Given, Answer
  <2> QED
    BY <2>5, <2>6
<1> QED
  BY <1>1, <1>2

\* What a binding is made of.
LEMMA BindingFields ==
  \A at, index, name : /\ Binding(at, index, name).at = at
                       /\ Binding(at, index, name).index = index
                       /\ Binding(at, index, name).name = name
  BY DEF Binding

\* The parameters of the places of a work.
SheetParameter(w, i) == Parameter("sheet", Binding("sheet", i, "whole"), "input_sheet", 1, w.steps[i].sheet)
ColumnsParameter(w, i) ==
  Parameter("columns", Binding("columns", i, "whole"), "target_columns", 1, w.steps[i].columns)
PathParameter(w, i, k) ==
  Parameter(ParameterKind(Paths[k], w.steps[i].params[Paths[k]]), Binding("step", i, Paths[k]),
            Descriptor(Paths[k]), Nth(w.steps[i].params, k), w.steps[i].params[Paths[k]])
RuleParameter(w, i, n) ==
  Parameter(ParameterKind(n, w.rules[i][n]), Binding("rule", i, n), n, 1, w.rules[i][n])

\* And where they stand.
LEMMA StepPlaces ==
  ASSUME NEW w, NEW i
  PROVE  /\ SheetParameter(w, i).binding = Binding("sheet", i, "whole")
         /\ SheetParameter(w, i).default = w.steps[i].sheet
         /\ ColumnsParameter(w, i).binding = Binding("columns", i, "whole")
         /\ ColumnsParameter(w, i).default = w.steps[i].columns
  BY DEF SheetParameter, ColumnsParameter, Parameter

\* The parameter of a path of a step, and the place it is bound to.
LEMMA PathPlaces ==
  ASSUME NEW w, NEW i, NEW k
  PROVE  /\ PathParameter(w, i, k).binding = Binding("step", i, Paths[k])
         /\ PathParameter(w, i, k).default = w.steps[i].params[Paths[k]]
  BY DEF PathParameter, Parameter

\* The same for a parameter of a rule.
LEMMA RulePlaces ==
  ASSUME NEW w, NEW i, NEW n
  PROVE  /\ RuleParameter(w, i, n).binding = Binding("rule", i, n)
         /\ RuleParameter(w, i, n).default = w.rules[i][n]
  BY DEF RuleParameter, Parameter

\* A place in a step's parameters is visited once.
LEMMA PathsDiffer ==
  /\ DOMAIN Paths = 1 .. 5
  /\ \A k, l \in DOMAIN Paths : Paths[k] = Paths[l] => k = l
  BY DEF Paths

\* The parameters of a step.
LEMMA StepParametersBound ==
  ASSUME NEW w, NEW i, NEW p \in StepParameters(w.steps[i], i)
  PROVE  \/ p = SheetParameter(w, i)
         \/ p = ColumnsParameter(w, i)
         \/ \E k \in DOMAIN Paths :
              IsCandidate(w.steps[i].params, Paths[k]) /\ p = PathParameter(w, i, k)
<1> DEFINE step == w.steps[i]
           sheets == IF step.sheet = Null THEN {} ELSE {SheetParameter(w, i)}
           columns == IF step.columns = NoList THEN {} ELSE {ColumnsParameter(w, i)}
           paths == {PathParameter(w, i, k) : k \in {x \in DOMAIN Paths : IsCandidate(step.params, Paths[x])}}
<1>1. StepParameters(step, i) = (sheets \union columns) \union paths
  BY Zenon DEF StepParameters, SheetParameter, ColumnsParameter, PathParameter
<1>2. CASE p \in sheets
  BY <1>2
<1>3. CASE p \in columns
  BY <1>3
<1>4. CASE p \in paths
  BY <1>4
<1> QED
  BY <1>1, <1>2, <1>3, <1>4

\* Every parameter of a template stands for one place of the work it was made of.
LEMMA ParametersBound ==
  ASSUME NEW w, NEW name, NEW p \in FromPlan(w, name).parameters
  PROVE  \/ \E i \in DOMAIN w.steps :
              \/ p = SheetParameter(w, i)
              \/ p = ColumnsParameter(w, i)
              \/ \E k \in DOMAIN Paths :
                   IsCandidate(w.steps[i].params, Paths[k]) /\ p = PathParameter(w, i, k)
         \/ \E i \in DOMAIN w.rules : \E n \in DOMAIN w.rules[i] : p = RuleParameter(w, i, n)
<1>1. p \in UNION ({StepParameters(w.steps[i], i) : i \in DOMAIN w.steps}
                   \union {RuleParametersOf(w.rules[i], i) : i \in DOMAIN w.rules})
  BY DEF FromPlan, DefaultParameters
<1>2. \/ \E i \in DOMAIN w.steps : p \in StepParameters(w.steps[i], i)
      \/ \E i \in DOMAIN w.rules : p \in RuleParametersOf(w.rules[i], i)
  BY <1>1
<1>3. ASSUME NEW i, p \in RuleParametersOf(w.rules[i], i)
      PROVE  \E n \in DOMAIN w.rules[i] : p = RuleParameter(w, i, n)
  BY <1>3 DEF RuleParametersOf, RuleParameter
<1> QED
  BY <1>2, <1>3, StepParametersBound

\* So no two of them are bound to the same place.
LEMMA ParametersOnly ==
  ASSUME NEW w, NEW name
  PROVE  /\ \A i \in DOMAIN w.steps :
              /\ OnlyParameter(FromPlan(w, name), Binding("sheet", i, "whole"), w.steps[i].sheet)
              /\ OnlyParameter(FromPlan(w, name), Binding("columns", i, "whole"), w.steps[i].columns)
              /\ \A n \in DOMAIN w.steps[i].params :
                   OnlyParameter(FromPlan(w, name), Binding("step", i, n), w.steps[i].params[n])
         /\ \A i \in DOMAIN w.rules : \A n \in DOMAIN w.rules[i] :
              OnlyParameter(FromPlan(w, name), Binding("rule", i, n), w.rules[i][n])
<1> DEFINE ps == FromPlan(w, name).parameters
<1>1. ASSUME NEW p \in ps, NEW at, NEW i, NEW n, p.binding = Binding(at, i, n)
      PROVE  /\ at = "sheet" => p = SheetParameter(w, i) /\ p.default = w.steps[i].sheet
             /\ at = "columns" => p = ColumnsParameter(w, i) /\ p.default = w.steps[i].columns
             /\ at = "step" => \E k \in DOMAIN Paths :
                  p = PathParameter(w, i, k) /\ Paths[k] = n /\ p.default = w.steps[i].params[n]
             /\ at = "rule" => p = RuleParameter(w, i, n) /\ p.default = w.rules[i][n]
  <2> DEFINE Goal == (
             /\ at = "sheet" => p = SheetParameter(w, i) /\ p.default = w.steps[i].sheet
             /\ at = "columns" => p = ColumnsParameter(w, i) /\ p.default = w.steps[i].columns
             /\ at = "step" => \E k \in DOMAIN Paths :
                  p = PathParameter(w, i, k) /\ Paths[k] = n /\ p.default = w.steps[i].params[n]
             /\ at = "rule" => p = RuleParameter(w, i, n) /\ p.default = w.rules[i][n])
  <2>0. p.binding.at = at /\ p.binding.index = i /\ p.binding.name = n
    BY <1>1, BindingFields
  <2>1. ASSUME NEW x, p = SheetParameter(w, x)
        PROVE  Goal
    <3>1. p.binding = Binding("sheet", x, "whole") /\ p.default = w.steps[x].sheet
      BY <2>1, StepPlaces
    <3>2. at = "sheet" /\ x = i
      BY <2>0, <3>1, BindingFields
    <3> QED
      BY <2>1, <3>1, <3>2
  <2>2. ASSUME NEW x, p = ColumnsParameter(w, x)
        PROVE  Goal
    <3>1. p.binding = Binding("columns", x, "whole") /\ p.default = w.steps[x].columns
      BY <2>2, StepPlaces
    <3>2. at = "columns" /\ x = i
      BY <2>0, <3>1, BindingFields
    <3> QED
      BY <2>2, <3>1, <3>2
  <2>3. ASSUME NEW x, NEW k \in DOMAIN Paths, p = PathParameter(w, x, k)
        PROVE  Goal
    <3>1. p.binding = Binding("step", x, Paths[k]) /\ p.default = w.steps[x].params[Paths[k]]
      BY <2>3, PathPlaces
    <3>2. at = "step" /\ x = i /\ Paths[k] = n
      BY <2>0, <3>1, BindingFields
    <3> QED
      BY <2>3, <3>1, <3>2
  <2>4. ASSUME NEW x, NEW y, p = RuleParameter(w, x, y)
        PROVE  Goal
    <3>1. p.binding = Binding("rule", x, y) /\ p.default = w.rules[x][y]
      BY <2>4, RulePlaces
    <3>2. at = "rule" /\ x = i /\ y = n
      BY <2>0, <3>1, BindingFields
    <3> QED
      BY <2>4, <3>1, <3>2
  <2> QED
    BY <2>1, <2>2, <2>3, <2>4, ParametersBound
<1>2. ASSUME NEW i, NEW n
      PROVE  /\ OnlyParameter(FromPlan(w, name), Binding("sheet", i, "whole"), w.steps[i].sheet)
             /\ OnlyParameter(FromPlan(w, name), Binding("columns", i, "whole"), w.steps[i].columns)
             /\ OnlyParameter(FromPlan(w, name), Binding("rule", i, n), w.rules[i][n])
  BY <1>1 DEF OnlyParameter
<1>3. ASSUME NEW i, NEW n
      PROVE  OnlyParameter(FromPlan(w, name), Binding("step", i, n), w.steps[i].params[n])
  BY <1>1, PathsDiffer DEF OnlyParameter
<1> QED
  BY <1>2, <1>3

\* from_plan followed by instantiate changes what was asked for.
LEMMA InstantiateRebinds ==
  ASSUME NEW w, WorkShape(w), NEW name, NEW values
  PROVE  LET t == FromPlan(w, name) IN
         /\ Rebinds(Instantiate(t, values), w, Changes(t, values))
         /\ WorkShape(Instantiate(t, values))
<1> DEFINE t == FromPlan(w, name)
           new == Instantiate(t, values)
<1>1. t.work = w
  BY DEF FromPlan
<1>2. /\ DOMAIN new = {"sources", "steps", "rules"}
      /\ new.sources = w.sources
      /\ new.steps = [i \in DOMAIN w.steps |->
                  [w.steps[i] EXCEPT
                     !.sheet = Bound(t, values, Binding("sheet", i, "whole"), @),
                     !.columns = Bound(t, values, Binding("columns", i, "whole"), @),
                     !.params = [n \in DOMAIN w.steps[i].params |->
                        Bound(t, values, Binding("step", i, n), w.steps[i].params[n])]]]
      /\ new.rules = [i \in DOMAIN w.rules |->
                  [n \in DOMAIN w.rules[i] |->
                     Bound(t, values, Binding("rule", i, n), w.rules[i][n])]]
  BY <1>1 DEF Instantiate, WorkShape
<1> HIDE DEF new, t
<1>3. ASSUME NEW i \in DOMAIN w.steps
      PROVE  /\ DOMAIN new.steps[i] = DOMAIN w.steps[i]
             /\ new.steps[i].source = w.steps[i].source
             /\ new.steps[i].sheet = Bound(t, values, Binding("sheet", i, "whole"), w.steps[i].sheet)
             /\ new.steps[i].columns =
                  Bound(t, values, Binding("columns", i, "whole"), w.steps[i].columns)
             /\ new.steps[i].params =
                  [n \in DOMAIN w.steps[i].params |->
                     Bound(t, values, Binding("step", i, n), w.steps[i].params[n])]
  <2>1. DOMAIN w.steps[i] = {"source", "sheet", "columns", "params"}
    BY DEF WorkShape
  <2>2. new.steps[i] =
          [w.steps[i] EXCEPT
             !.sheet = Bound(t, values, Binding("sheet", i, "whole"), @),
             !.columns = Bound(t, values, Binding("columns", i, "whole"), @),
             !.params = [n \in DOMAIN w.steps[i].params |->
                Bound(t, values, Binding("step", i, n), w.steps[i].params[n])]]
    BY <1>2
  <2> QED
    BY <2>1, <2>2
<1>4. WorkShape(new)
  BY <1>2, <1>3 DEF WorkShape
<1>5. ASSUME NEW i \in DOMAIN w.steps
      PROVE  /\ new.steps[i].sheet =
                  Answer(Changes(t, values), Binding("sheet", i, "whole"), w.steps[i].sheet)
             /\ new.steps[i].columns =
                  Answer(Changes(t, values), Binding("columns", i, "whole"), w.steps[i].columns)
             /\ new.steps[i].params =
                  [n \in DOMAIN w.steps[i].params |->
                     Answer(Changes(t, values), Binding("step", i, n), w.steps[i].params[n])]
  BY <1>3, GivenWhereAsked, ParametersOnly DEF t
<1>6. ASSUME NEW i \in DOMAIN w.rules
      PROVE  new.rules[i] = [n \in DOMAIN w.rules[i] |->
                               Answer(Changes(t, values), Binding("rule", i, n), w.rules[i][n])]
  <2>1. \A n \in DOMAIN w.rules[i] :
          Bound(t, values, Binding("rule", i, n), w.rules[i][n])
            = Answer(Changes(t, values), Binding("rule", i, n), w.rules[i][n])
    BY GivenWhereAsked, ParametersOnly DEF t
  <2>2. new.rules[i] = [n \in DOMAIN w.rules[i] |->
                          Bound(t, values, Binding("rule", i, n), w.rules[i][n])]
    BY <1>2
  <2> QED
    BY <2>1, <2>2
<1>7. Rebinds(new, w, Changes(t, values))
  BY <1>2, <1>3, <1>5, <1>6 DEF Rebinds
<1> QED
  BY <1>4, <1>7 DEF new, t

\* Values that are all defaults change nothing.
LEMMA DefaultsChangeNothing ==
  ASSUME NEW t, ValidTemplate(t)
  PROVE  Changes(t, Defaults(t)) = {}
<1>1. ASSUME NEW p \in t.parameters, p.key \in DOMAIN Defaults(t)
      PROVE  Defaults(t)[p.key] = p.default
  <2>1. \A q \in t.parameters : q.key = p.key => q = p
    BY DEF ValidTemplate
  <2>2. (CHOOSE q \in t.parameters : q.key = p.key) = p
    BY <2>1
  <2> QED
    BY <1>1, <2>2 DEF Defaults
<1> QED
  BY <1>1 DEF Changes

\* What a sequence holds.
LEMMA Elements == ASSUME NEW S, NEW s \in Seq(S), NEW i \in DOMAIN s PROVE s[i] \in S
  OBVIOUS

\* The works a user may ask for have the shape of a work.
LEMMA WorksAreShaped ==
  /\ \A w \in Work : WorkShape(w)
  /\ \A n : WorkShape(EmptyWork(n))
<1>1. ASSUME NEW w \in Work PROVE WorkShape(w)
  <2>1. /\ DOMAIN w = {"sources", "steps", "rules"}
        /\ w.steps \in Seq([source : Nat \ {0}, sheet : Value, columns : Value, params : Parameters])
    BY DEF Work
  <2>2. ASSUME NEW i \in DOMAIN w.steps
        PROVE  w.steps[i] \in [source : Nat \ {0}, sheet : Value, columns : Value, params : Parameters]
    BY <2>1, Elements
  <2>3. \A i \in DOMAIN w.steps : DOMAIN w.steps[i] = {"source", "sheet", "columns", "params"}
    BY <2>2
  <2> QED
    BY <2>1, <2>3 DEF WorkShape
<1>2. ASSUME NEW n PROVE WorkShape(EmptyWork(n))
  <2>1. DOMAIN EmptyWork(n) = {"sources", "steps", "rules"} /\ EmptyWork(n).steps = <<>>
    BY DEF EmptyWork
  <2> QED
    BY <2>1 DEF WorkShape
<1> QED
  BY <1>1, <1>2

-----------------------------------------------------------------------------

\* A template is still what was made of the plan that was reviewed.
Templates ==
  /\ DOMAIN made \subseteq Ids /\ DOMAIN reviewed = DOMAIN made
  /\ disk.stored \subseteq DOMAIN made
  /\ \A id \in DOMAIN made :
       WorkShape(reviewed[id]) /\ \E name : made[id] = FromPlan(reviewed[id], name)

\* Between choosing a workflow and binding it, the window keeps what the user typed.
\* A succeeded job is left behind before a plan is shown again.
Course ==
  /\ WorkShape(ui.work)
  /\ ui.pending # None => /\ ui.pending \in DOMAIN made
                          /\ asked = Changes(made[ui.pending], ui.values)
  /\ ui.active # None => ui.active \in DOMAIN made
  /\ ui.page = "plan" => ~ui.done
  /\ ui.busy => ui.page = "results" /\ ~ui.done

RebindInv == IInv /\ Templates /\ Course /\ RebindingKeepsTheReviewedWork

\* At first there are the templates of an earlier release.
LEMMA InitRebinding == Init => RebindInv
<1> SUFFICES ASSUME Init PROVE RebindInv
  OBVIOUS
<1>1. PICK old \in Legacy, names \in [Ids -> Names] :
        /\ disk.stored = DOMAIN old.works
        /\ reviewed = old.works
        /\ made = [i \in DOMAIN old.works |-> FromPlan(old.works[i], names[i])]
  BY DEF Init
<1>2. old.works \in Seq(Works) /\ DOMAIN old.works \subseteq Ids
  BY LegacyAssumption, BoundsAssumption DEF Ids
<1>3. \A i \in DOMAIN old.works : WorkShape(old.works[i])
  BY <1>2, WorksAssumption, WorksAreShaped
<1>4. Templates
  BY <1>1, <1>2, <1>3 DEF Templates
<1>5. Course /\ RebindingKeepsTheReviewedWork
  BY WorksAreShaped DEF Init, FreshUi, Course, RebindingKeepsTheReviewedWork
<1> QED
  BY <1>4, <1>5, InitStore DEF RebindInv

\* Starting and dying.
LEMMA StartRebinds ==
  ASSUME RebindInv, Launch \/ Migrate \/ Started \/ Crash
  PROVE  Templates' /\ Course' /\ RebindingKeepsTheReviewedWork'
<1>1. disk'.stored = disk.stored
  <2>1. CASE Migrate
    <3>1. CASE \E c \in Columns : AddColumn(c)
      BY <3>1 DEF RebindInv, IInv, StoreInv, Shape, StoreFields, Upgrade, AddColumn, Define
    <3> QED
      BY <2>1, <3>1 DEF Migrate, CreateTables, FinishColumns, ResetPrivacy, Record
  <2> QED
    BY <2>1 DEF RebindInv, IInv, StoreInv, Upgrade, Launch, Started, Crash, store
<1>2. UNCHANGED <<made, reviewed>>
  BY DEF Launch, Migrate, Started, Crash, library
<1>3. Templates'
  BY <1>1, <1>2 DEF RebindInv, Templates
<1>4. \/ UNCHANGED <<ui, asked>>
      \/ ui' = FreshUi
  BY DEF Launch, Migrate, Started, Crash
<1>5. Course' /\ RebindingKeepsTheReviewedWork'
  <2>1. CASE UNCHANGED <<ui, asked>>
    BY <1>2, <2>1 DEF RebindInv, Course, RebindingKeepsTheReviewedWork
  <2>2. CASE ui' = FreshUi
    BY <2>2, WorksAreShaped DEF FreshUi, Course, RebindingKeepsTheReviewedWork
  <2> QED
    BY <1>4, <2>1, <2>2
<1> QED
  BY <1>3, <1>5

\* A template waits for files.
LEMMA BeginRebinds ==
  ASSUME RebindInv, NEW id \in DOMAIN made, NEW saved, NEW values, Begin(id, saved, values),
         Idle, UNCHANGED made
  PROVE  Course' /\ RebindingKeepsTheReviewedWork'
<1>1. /\ ui'.page = "intake" /\ ui'.pending = id /\ ui'.values = values
      /\ ui'.work = EmptyWork(1) /\ ui'.active = ui.active /\ ui'.busy = ui.busy
  BY DEF Begin, RebindInv, IInv, StoreInv, Shape, UiFields
<1>2. asked' = Changes(made[id], values)
  BY DEF Begin
<1> QED
  BY <1>1, <1>2, WorksAreShaped DEF RebindInv, Idle, Course, RebindingKeepsTheReviewedWork

\* Nothing is made or deleted.
LEMMA SameTemplates ==
  ASSUME Templates, UNCHANGED <<made, reviewed, disk>>
  PROVE  Templates'
  BY DEF Templates

\* Choosing a workflow, leaving a page.
LEMMA ChoosingRebinds ==
  ASSUME RebindInv, NEW page, NEW id, NEW j,
         NewJob \/ (page \in {"library", "history", "settings"} /\ Show(page))
           \/ (id \in DOMAIN made /\ Use(id)) \/ RepeatFromHistory(j) \/ RepeatActive
  PROVE  Templates' /\ Course' /\ RebindingKeepsTheReviewedWork'
<1>1. Templates'
  BY SameTemplates DEF RebindInv, NewJob, Show, Use, RepeatFromHistory, RepeatActive, store, library
<1>2. CASE NewJob
  BY <1>1, <1>2, WorksAreShaped DEF NewJob, FreshUi, Course, RebindingKeepsTheReviewedWork
<1>3. CASE page \in {"library", "history", "settings"} /\ Show(page)
  <2>1. /\ ui' = [ui EXCEPT !.page = page, !.work = EmptyWork(1)]
        /\ ~ui.busy /\ UNCHANGED <<made, asked>>
    BY <1>3 DEF Show, Idle, library
  <2>2. /\ ui'.page = page /\ ui'.work = EmptyWork(1) /\ ui'.pending = ui.pending
        /\ ui'.values = ui.values /\ ui'.active = ui.active /\ ui'.busy = ui.busy
    BY <2>1 DEF RebindInv, IInv, StoreInv, Shape, UiFields
  <2> QED
    BY <1>1, <1>3, <2>1, <2>2, WorksAreShaped DEF RebindInv, Course, RebindingKeepsTheReviewedWork
<1>4. CASE id \in DOMAIN made /\ Use(id)
  BY <1>1, <1>4, BeginRebinds DEF Use, library
<1>5. CASE RepeatFromHistory(j)
  BY <1>1, <1>5, BeginRebinds DEF RepeatFromHistory, library, RebindInv, Templates
<1>6. CASE RepeatActive
  BY <1>1, <1>6, BeginRebinds DEF RepeatActive, library, RebindInv, Course
<1> QED
  BY <1>2, <1>3, <1>4, <1>5, <1>6

\* A new job: a template that waited is bound to its files.
LEMMA ContinueRebinds ==
  ASSUME RebindInv, ContinueToPlan
  PROVE  Templates' /\ Course' /\ RebindingKeepsTheReviewedWork'
<1>1. Templates'
  BY SameTemplates DEF RebindInv, ContinueToPlan, store, library
<1>2. /\ UNCHANGED <<made, reviewed, asked>>
      /\ ~ui.busy
      /\ \E n : PlanFromScratch(n) \/ RebindTemplate(n)
  BY DEF ContinueToPlan, Idle, library
<1>3. ASSUME NEW n, PlanFromScratch(n) PROVE Course' /\ RebindingKeepsTheReviewedWork'
  <2>1. /\ ui'.work = EmptyWork(n) /\ ui'.pending = None /\ ui'.active = None
        /\ ~ui'.done /\ ui'.busy = ui.busy
    BY <1>3 DEF PlanFromScratch, RebindInv, IInv, StoreInv, Shape, UiFields
  <2> QED
    BY <1>2, <2>1, WorksAreShaped DEF Course, RebindingKeepsTheReviewedWork
<1>4. ASSUME NEW n, RebindTemplate(n) PROVE Course' /\ RebindingKeepsTheReviewedWork'
  <2> DEFINE t == made[ui.pending]
  <2>1. /\ ui.pending # None
        /\ ui'.work = Instantiate(t, ui.values) /\ ui'.pending = None
        /\ ui'.active = ui.pending /\ ~ui'.done /\ ui'.busy = ui.busy
    BY <1>4 DEF RebindTemplate, RebindInv, IInv, StoreInv, Shape, UiFields
  <2>2. /\ ui.pending \in DOMAIN made
        /\ asked = Changes(t, ui.values)
    BY <2>1 DEF RebindInv, Course
  <2>3. /\ WorkShape(reviewed[ui.pending])
        /\ \E name : t = FromPlan(reviewed[ui.pending], name)
    BY <2>2 DEF RebindInv, Templates
  <2>4. /\ Rebinds(ui'.work, reviewed[ui.pending], asked)
        /\ WorkShape(ui'.work)
    BY <2>1, <2>2, <2>3, InstantiateRebinds
  <2> QED
    BY <1>2, <2>1, <2>2, <2>4 DEF Course, RebindingKeepsTheReviewedWork
<1> QED
  BY <1>1, <1>2, <1>3, <1>4

\* Editing, going back, executing; deleting a workflow and saving settings.
LEMMA WorkingRebinds ==
  ASSUME RebindInv, NEW id, EditPlan \/ GoBack \/ Execute \/ ExecutionEnds \/ Delete(id) \/ SaveSettings
  PROVE  Templates' /\ Course' /\ RebindingKeepsTheReviewedWork'
<1> DOMAIN ui = UiFields
  BY DEF RebindInv, IInv, StoreInv, Shape
<1>1. /\ UNCHANGED <<made, reviewed, asked>>
  BY DEF EditPlan, GoBack, Execute, ExecutionEnds, Delete, SaveSettings, library
<1>2. Templates'
  <2>1. CASE Delete(id)
    <3>1. disk'.stored \subseteq disk.stored
      BY <2>1 DEF Delete, Write, RebindInv, IInv, StoreInv, Shape, StoreFields
    <3> QED
      BY <1>1, <3>1 DEF RebindInv, Templates
  <2> QED
    BY <1>1, <2>1, SameTemplates DEF RebindInv, EditPlan, GoBack, Execute, ExecutionEnds, SaveSettings,
                                     store
<1>3. CASE EditPlan
  <2>1. PICK w \in Works : ui' = [ui EXCEPT !.work = w, !.edited = TRUE]
    BY <1>3 DEF EditPlan
  <2>2. WorkShape(w)
    BY WorksAssumption, WorksAreShaped
  <2> QED
    BY <1>1, <1>2, <2>1, <2>2 DEF UiFields, RebindInv, Course, RebindingKeepsTheReviewedWork
<1>4. CASE GoBack
  BY <1>1, <1>2, <1>4 DEF GoBack, Idle, UiFields, RebindInv, Course, RebindingKeepsTheReviewedWork
<1>5. CASE Execute
  BY <1>1, <1>2, <1>5 DEF Execute, Idle, UiFields, RebindInv, Course, RebindingKeepsTheReviewedWork
<1>6. CASE ExecutionEnds
  <2>1. PICK status \in Terminal : ui' = [ui EXCEPT !.busy = FALSE, !.done = (status = "succeeded")]
    BY <1>6 DEF ExecutionEnds
  <2>2. ui.busy
    BY <1>6 DEF ExecutionEnds
  <2>3. /\ ui'.page = ui.page /\ ui'.work = ui.work /\ ui'.pending = ui.pending
        /\ ui'.values = ui.values /\ ui'.active = ui.active /\ ui'.edited = ui.edited /\ ~ui'.busy
    BY <2>1 DEF UiFields
  <2> QED
    BY <1>1, <1>2, <2>2, <2>3 DEF RebindInv, Course, RebindingKeepsTheReviewedWork
<1>7. CASE Delete(id) \/ SaveSettings
  BY <1>1, <1>2, <1>7 DEF Delete, SaveSettings, RebindInv, Course, RebindingKeepsTheReviewedWork
<1> QED
  BY <1>3, <1>4, <1>5, <1>6, <1>7

\* A template is made of the plan of the job at hand.
LEMMA MakeRebinds ==
  ASSUME RebindInv, NEW name, Make(name)
  PROVE  /\ Fresh \in Ids \ DOMAIN made
         /\ DOMAIN made' = DOMAIN made \union {Fresh}
         /\ DOMAIN reviewed' = DOMAIN made'
         /\ \A id \in DOMAIN made : made'[id] = made[id]
         /\ made'[Fresh] = FromPlan(ui.work, name)
         /\ ValidTemplate(made'[Fresh])
         /\ \A id \in DOMAIN made' :
              WorkShape(reviewed'[id]) /\ \E n : made'[id] = FromPlan(reviewed'[id], n)
<1>1. Fresh \in Ids \ DOMAIN made
  BY DEF Make, Fresh, RebindInv, Templates
<1> HIDE DEF Fresh
<1>2. /\ DOMAIN reviewed = DOMAIN made /\ WorkShape(ui.work)
      /\ \A id \in DOMAIN made :
           WorkShape(reviewed[id]) /\ \E n : made[id] = FromPlan(reviewed[id], n)
  BY DEF RebindInv, Templates, Course
<1>3. /\ made' = With(made, Fresh, FromPlan(ui.work, name))
      /\ reviewed' = With(reviewed, Fresh, ui.work)
      /\ ValidTemplate(FromPlan(ui.work, name))
  BY DEF Make
<1>4. /\ DOMAIN made' = DOMAIN made \union {Fresh} /\ DOMAIN reviewed' = DOMAIN made'
      /\ made'[Fresh] = FromPlan(ui.work, name) /\ reviewed'[Fresh] = ui.work
      /\ \A id \in DOMAIN made : made'[id] = made[id] /\ reviewed'[id] = reviewed[id]
  BY <1>1, <1>2, <1>3 DEF With
<1> QED
  BY <1>1, <1>2, <1>3, <1>4

\* Saving a workflow, repeating an unsaved one.
LEMMA MakingRebinds ==
  ASSUME RebindInv, NEW name, SaveWorkflow(name) \/ RepeatUnsaved(name)
  PROVE  Templates' /\ Course' /\ RebindingKeepsTheReviewedWork'
<1> DOMAIN ui = UiFields /\ DOMAIN disk = StoreFields
  BY DEF RebindInv, IInv, StoreInv, Shape
<1>1. Make(name)
  BY DEF SaveWorkflow, RepeatUnsaved
<1> HIDE DEF Fresh
<1>0. /\ Fresh \in DOMAIN made' /\ ValidTemplate(made'[Fresh])
      /\ DOMAIN made \subseteq DOMAIN made'
      /\ \A id \in DOMAIN made : made'[id] = made[id]
  BY <1>1, MakeRebinds
<1>2. Templates'
  <2>1. disk'.stored \subseteq disk.stored \union {Fresh}
    BY DEF SaveWorkflow, RepeatUnsaved, Write, StoreFields, store
  <2> QED
    BY <1>1, <2>1, MakeRebinds DEF RebindInv, Templates
<1>3. CASE SaveWorkflow(name)
  <2>1. ui.done /\ ui.page = "results" /\ ~ui.busy /\ UNCHANGED asked
    BY <1>3 DEF SaveWorkflow, Idle
  <2>2. /\ ui'.page = ui.page /\ ui'.work = ui.work /\ ui'.pending = ui.pending
        /\ ui'.values = ui.values /\ ui'.active \in {ui.active, Fresh} /\ ui'.done = ui.done
        /\ ui'.busy = ui.busy
    BY <1>3 DEF SaveWorkflow, UiFields
  <2> QED
    BY <1>0, <1>2, <2>1, <2>2 DEF RebindInv, Course, RebindingKeepsTheReviewedWork
<1>4. CASE RepeatUnsaved(name)
  <2>1. /\ ui'.page = "intake" /\ ui'.work = EmptyWork(1) /\ ui'.pending = Fresh
        /\ ui'.values = Defaults(made'[Fresh]) /\ ui'.active = None /\ ~ui'.busy
        /\ asked' = {}
    BY <1>4 DEF RepeatUnsaved, Idle, UiFields
  <2>2. Changes(made'[Fresh], ui'.values) = {} /\ Fresh \in DOMAIN made'
    BY <1>0, <2>1, DefaultsChangeNothing
  <2> QED
    BY <1>2, <2>1, <2>2, WorksAreShaped DEF Course, RebindingKeepsTheReviewedWork
<1> QED
  BY <1>3, <1>4

\* The invariant behind it.
LEMMA StepRebinds == RebindInv /\ [Next]_vars => RebindInv'
<1> SUFFICES ASSUME RebindInv, [Next]_vars PROVE RebindInv'
  OBVIOUS
<1> DEFINE Goal == Templates' /\ Course' /\ RebindingKeepsTheReviewedWork'
<1>1. IInv'
  BY StepKeeps DEF RebindInv
<1>2. CASE Launch \/ Migrate \/ Started \/ Crash
  BY <1>1, <1>2, StartRebinds DEF RebindInv
<1>3. CASE User
  <2>1. CASE NewJob \/ RepeatActive
    <3>1. Templates' /\ Course' /\ RebindingKeepsTheReviewedWork'
      BY <2>1, ChoosingRebinds
    <3> QED
      BY <1>1, <3>1 DEF RebindInv
  <2>2. ASSUME NEW page \in {"library", "history", "settings"}, Show(page) PROVE Goal
    BY <2>2, ChoosingRebinds
  <2>3. ASSUME NEW id \in DOMAIN made, Use(id) PROVE Goal
    BY <2>3, ChoosingRebinds
  <2>4. ASSUME NEW j \in Jobs, RepeatFromHistory(j) PROVE Goal
    BY <2>4, ChoosingRebinds
  <2>5. CASE ContinueToPlan
    BY <1>1, <2>5, ContinueRebinds DEF RebindInv
  <2>6. CASE EditPlan \/ GoBack \/ Execute \/ SaveSettings \/ \E id \in DOMAIN made : Delete(id)
    BY <1>1, <2>6, WorkingRebinds DEF RebindInv
  <2>7. ASSUME NEW name \in Names, SaveWorkflow(name) \/ RepeatUnsaved(name) PROVE Goal
    BY <2>7, MakingRebinds
  <2> QED
    BY <1>1, <1>3, <2>1, <2>2, <2>3, <2>4, <2>5, <2>6, <2>7 DEF User, RebindInv
<1>4. CASE ExecutionEnds
  BY <1>1, <1>4, WorkingRebinds DEF RebindInv
<1>5. CASE UNCHANGED vars
  BY <1>1, <1>5 DEF vars, store, library, RebindInv, Templates, Course, RebindingKeepsTheReviewedWork
<1> QED
  BY <1>2, <1>3, <1>4, <1>5 DEF Next

\* A plan rebound to new files does what was reviewed, but for what the user changed
\* (WorkflowTemplate.from_plan and instantiate, MainWindow._on_job_ready).
THEOREM ReboundPlansAreReviewed == Spec => []RebindingKeepsTheReviewedWork
<1>1. RebindInv => RebindingKeepsTheReviewedWork
  BY DEF RebindInv
<1> QED
  BY <1>1, InitRebinding, StepRebinds, PTL DEF Spec

-----------------------------------------------------------------------------
(* Types. *)

StepType == [source : Nat \ {0}, sheet : Value, columns : Value, params : Parameters]

\* What the parameters of a step and of a rule hold.
LEMMA ParametersHoldValues ==
  /\ \A params \in Parameters : \A n \in DOMAIN params : params[n] \in Value
  /\ \A rule \in RuleParameters : \A n \in DOMAIN rule : rule[n] \in Value /\ n \in RuleNames
<1>1. ASSUME NEW params \in Parameters, NEW n \in DOMAIN params PROVE params[n] \in Value
  <2>1. PICK S \in SUBSET {Paths[k] : k \in DOMAIN Paths} : params \in [S -> Value]
    BY DEF Parameters
  <2> QED
    BY <2>1
<1>2. ASSUME NEW rule \in RuleParameters, NEW n \in DOMAIN rule
      PROVE  rule[n] \in Value /\ n \in RuleNames
  <2>1. PICK S \in SUBSET RuleNames : rule \in [S -> Value]
    BY DEF RuleParameters
  <2> QED
    BY <2>1
<1> QED
  BY <1>1, <1>2

\* Values of the same names are parameters again.
LEMMA ParametersOfSameNames ==
  /\ \A params \in Parameters : \A new :
       new = [n \in DOMAIN params |-> new[n]] /\ (\A n \in DOMAIN params : new[n] \in Value)
         => new \in Parameters
  /\ \A rule \in RuleParameters : \A new :
       new = [n \in DOMAIN rule |-> new[n]] /\ (\A n \in DOMAIN rule : new[n] \in Value)
         => new \in RuleParameters
<1>1. ASSUME NEW params \in Parameters, NEW new,
             new = [n \in DOMAIN params |-> new[n]], \A n \in DOMAIN params : new[n] \in Value
      PROVE  new \in Parameters
  <2>1. PICK S \in SUBSET {Paths[k] : k \in DOMAIN Paths} : params \in [S -> Value]
    BY DEF Parameters
  <2>2. new \in [S -> Value]
    BY <1>1, <2>1
  <2> QED
    BY <2>1, <2>2 DEF Parameters
<1>2. ASSUME NEW rule \in RuleParameters, NEW new,
             new = [n \in DOMAIN rule |-> new[n]], \A n \in DOMAIN rule : new[n] \in Value
      PROVE  new \in RuleParameters
  <2>1. PICK S \in SUBSET RuleNames : rule \in [S -> Value]
    BY DEF RuleParameters
  <2>2. new \in [S -> Value]
    BY <1>2, <2>1
  <2> QED
    BY <2>1, <2>2 DEF RuleParameters
<1> QED
  BY <1>1, <1>2

\* What a work holds.
LEMMA WorkHolds ==
  ASSUME NEW w \in Work
  PROVE  /\ w.sources \in Nat \ {0}
         /\ w.steps \in Seq(StepType) /\ w.rules \in Seq(RuleParameters)
         /\ \A i \in DOMAIN w.steps : i \in Nat \ {0} /\ w.steps[i] \in StepType
         /\ \A i \in DOMAIN w.rules : i \in Nat \ {0} /\ w.rules[i] \in RuleParameters
<1>1. /\ w.sources \in Nat \ {0}
      /\ w.steps \in Seq(StepType) /\ w.rules \in Seq(RuleParameters)
  BY DEF Work, StepType
<1>2. /\ \A i \in DOMAIN w.steps : i \in Nat \ {0} /\ w.steps[i] \in StepType
      /\ \A i \in DOMAIN w.rules : i \in Nat \ {0} /\ w.rules[i] \in RuleParameters
  BY <1>1, Elements
<1> QED
  BY <1>1, <1>2

\* A parameter is made of its kind, its place, and the value that stands there.
LEMMA ParameterTyped ==
  ASSUME NEW kind \in Kinds, NEW binding \in BindingType, NEW descriptor \in Descriptors,
         NEW nth \in Nat \ {0}, NEW default \in Value
  PROVE  Parameter(kind, binding, descriptor, nth, default) \in ParameterType
<1>1. (binding.at = "rule") \in BOOLEAN
  OBVIOUS
<1>2. binding.index \in Nat \ {0}
  BY DEF BindingType
<1>3. PICK isRule \in BOOLEAN : isRule = (binding.at = "rule")
  BY <1>1
<1>4. <<isRule, binding.index, descriptor, nth>>
        \in BOOLEAN \X (Nat \ {0}) \X Descriptors \X (Nat \ {0})
  BY <1>2
<1>5. Parameter(kind, binding, descriptor, nth, default)
        = [key |-> <<isRule, binding.index, descriptor, nth>>, kind |-> kind,
           binding |-> binding, default |-> default]
  BY <1>3, Zenon DEF Parameter
<1> QED
  BY <1>4, <1>5 DEF ParameterType

\* Every parameter has one of the kinds, every path a descriptor.
LEMMA KindsTyped ==
  /\ \A n, value : ParameterKind(n, value) \in Kinds
  /\ \A n : Descriptor(n) \in Descriptors
<1>1. ASSUME NEW n, NEW value PROVE ParameterKind(n, value) \in Kinds
  BY DEF ParameterKind, Kinds
<1>2. ASSUME NEW n PROVE Descriptor(n) \in Descriptors
  BY DEF Descriptor, Descriptors
<1> QED
  BY <1>1, <1>2

\* from_plan makes a template.
LEMMA FromPlanTyped ==
  ASSUME NEW w \in Work, NEW name \in Names
  PROVE  FromPlan(w, name) \in Template
<1>1. ASSUME NEW p \in FromPlan(w, name).parameters
      PROVE  p \in ParameterType
  <2>1. ASSUME NEW at \in {"sheet", "columns", "step", "rule"}, NEW index \in Nat \ {0},
               NEW n \in {"whole"} \union {Paths[k] : k \in DOMAIN Paths} \union RuleNames
        PROVE  Binding(at, index, n) \in BindingType
    BY DEF Binding, BindingType
  <2>2. ASSUME NEW i \in DOMAIN w.steps, p = SheetParameter(w, i) PROVE p \in ParameterType
    <3>1. w.steps[i].sheet \in Value /\ i \in Nat \ {0}
      BY WorkHolds DEF StepType
    <3> QED
      BY <2>1, <2>2, <3>1, ParameterTyped DEF SheetParameter, Kinds, Descriptors
  <2>3. ASSUME NEW i \in DOMAIN w.steps, p = ColumnsParameter(w, i) PROVE p \in ParameterType
    <3>1. w.steps[i].columns \in Value /\ i \in Nat \ {0}
      BY WorkHolds DEF StepType
    <3> QED
      BY <2>1, <2>3, <3>1, ParameterTyped DEF ColumnsParameter, Kinds, Descriptors
  <2>4. ASSUME NEW i \in DOMAIN w.steps, NEW k \in DOMAIN Paths,
               IsCandidate(w.steps[i].params, Paths[k]), p = PathParameter(w, i, k)
        PROVE  p \in ParameterType
    <3>1. w.steps[i].params[Paths[k]] \in Value /\ i \in Nat \ {0}
      BY <2>4, WorkHolds, ParametersHoldValues DEF StepType, IsCandidate
    <3>2. Nth(w.steps[i].params, k) \in Nat \ {0}
      <4>1. IsFiniteSet(1 .. k) /\ k \in 1 .. k
        BY PathsDiffer, FS_Interval
      <4>2. PICK S : S = {x \in 1 .. k : /\ IsCandidate(w.steps[i].params, Paths[x])
                                         /\ Descriptor(Paths[x]) = Descriptor(Paths[k])}
        OBVIOUS
      <4>3. S \subseteq 1 .. k /\ k \in S
        BY <2>4, <4>1, <4>2
      <4>4. Cardinality(S) \in Nat /\ Cardinality(S) # 0
        BY <4>1, <4>3, FS_Subset, FS_CardinalityType, FS_EmptySet
      <4> QED
        BY <4>2, <4>4 DEF Nth
    <3>3. Binding("step", i, Paths[k]) \in BindingType
      BY <2>1, <3>1
    <3> QED
      BY <2>4, <3>1, <3>2, <3>3, KindsTyped, ParameterTyped DEF PathParameter
  <2>5. ASSUME NEW i \in DOMAIN w.rules, NEW n \in DOMAIN w.rules[i], p = RuleParameter(w, i, n)
        PROVE  p \in ParameterType
    <3>1. w.rules[i][n] \in Value /\ i \in Nat \ {0} /\ n \in RuleNames
      BY WorkHolds, ParametersHoldValues
    <3>2. Binding("rule", i, n) \in BindingType
      <4>1. n \in {"whole"} \union {Paths[k] : k \in DOMAIN Paths} \union RuleNames
        BY <3>1, Zenon
      <4> QED
        BY <2>1, <3>1, <4>1, Zenon
    <3>3. n \in Descriptors /\ 1 \in Nat \ {0}
      BY <3>1 DEF Descriptors
    <3>4. ParameterKind(n, w.rules[i][n]) \in Kinds
      BY KindsTyped
    <3>5. Parameter(ParameterKind(n, w.rules[i][n]), Binding("rule", i, n), n, 1, w.rules[i][n])
            \in ParameterType
      BY <3>1, <3>2, <3>3, <3>4, ParameterTyped
    <3> QED
      BY <2>5, <3>5 DEF RuleParameter
  <2> QED
    BY <2>2, <2>3, <2>4, <2>5, ParametersBound
<1> QED
  BY <1>1 DEF FromPlan, Template

\* A value is given for a value.
LEMMA BoundTyped ==
  ASSUME NEW t \in Template, NEW values, \A key \in DOMAIN values : values[key] \in Value,
         NEW binding, NEW old \in Value
  PROVE  Bound(t, values, binding, old) \in Value
<1> DEFINE bound == {p \in t.parameters : p.binding = binding /\ Supplied(p, values)}
<1>1. ASSUME NEW p \in bound PROVE Given(p, values) \in Value
  <2>1. p.default \in Value
    BY DEF Template, ParameterType
  <2> QED
    BY <2>1 DEF Given
<1>2. CASE bound = {}
  BY <1>2 DEF Bound
<1>3. CASE bound # {}
  <2>1. (CHOOSE p \in bound : TRUE) \in bound
    BY <1>3
  <2> HIDE DEF bound
  <2>2. Given(CHOOSE p \in bound : TRUE, values) \in Value
    BY <1>1, <2>1
  <2> QED
    BY <1>3, <2>2 DEF Bound, bound
<1> QED
  BY <1>2, <1>3

\* instantiate makes a plan of a template.
LEMMA InstantiateTyped ==
  ASSUME NEW t \in Template, NEW values, \A key \in DOMAIN values : values[key] \in Value
  PROVE  Instantiate(t, values) \in Work
<1> DEFINE w == t.work
           new == Instantiate(t, values)
           Step(i) == [w.steps[i] EXCEPT
                     !.sheet = Bound(t, values, Binding("sheet", i, "whole"), @),
                     !.columns = Bound(t, values, Binding("columns", i, "whole"), @),
                     !.params = [n \in DOMAIN w.steps[i].params |->
                        Bound(t, values, Binding("step", i, n), w.steps[i].params[n])]]
           Rule(i) == [n \in DOMAIN w.rules[i] |->
                         Bound(t, values, Binding("rule", i, n), w.rules[i][n])]
<1>1. w \in Work
  BY DEF Template
<1>2. ASSUME NEW i \in DOMAIN w.steps PROVE Step(i) \in StepType
  <2>1. w.steps[i] \in StepType
    BY <1>1, WorkHolds
  <2>2. /\ Bound(t, values, Binding("sheet", i, "whole"), w.steps[i].sheet) \in Value
        /\ Bound(t, values, Binding("columns", i, "whole"), w.steps[i].columns) \in Value
    BY <2>1, BoundTyped DEF StepType
  <2>3. [n \in DOMAIN w.steps[i].params |->
            Bound(t, values, Binding("step", i, n), w.steps[i].params[n])] \in Parameters
    <3>1. w.steps[i].params \in Parameters
      BY <2>1 DEF StepType
    <3>2. \A n \in DOMAIN w.steps[i].params :
            Bound(t, values, Binding("step", i, n), w.steps[i].params[n]) \in Value
      BY <3>1, ParametersHoldValues, BoundTyped
    <3> QED
      BY <3>1, <3>2, ParametersOfSameNames
  <2> QED
    BY <2>1, <2>2, <2>3 DEF StepType
<1>3. ASSUME NEW i \in DOMAIN w.rules PROVE Rule(i) \in RuleParameters
  <2>1. w.rules[i] \in RuleParameters
    BY <1>1, WorkHolds
  <2>2. \A n \in DOMAIN w.rules[i] :
          Bound(t, values, Binding("rule", i, n), w.rules[i][n]) \in Value
    BY <2>1, ParametersHoldValues, BoundTyped
  <2> QED
    BY <2>1, <2>2, ParametersOfSameNames
<1>4. /\ w.steps \in Seq(StepType) /\ w.rules \in Seq(RuleParameters) /\ w.sources \in Nat \ {0}
      /\ DOMAIN w = {"sources", "steps", "rules"}
  BY <1>1, WorkHolds DEF Work
<1>5. new = [w EXCEPT !.steps = [i \in DOMAIN w.steps |-> Step(i)],
                      !.rules = [i \in DOMAIN w.rules |-> Rule(i)]]
  BY DEF Instantiate
<1> HIDE DEF w, new, Step, Rule
<1>6. /\ [i \in DOMAIN w.steps |-> Step(i)] \in Seq(StepType)
      /\ [i \in DOMAIN w.rules |-> Rule(i)] \in Seq(RuleParameters)
  BY <1>2, <1>3, <1>4
<1>7. new = [sources |-> w.sources, steps |-> [i \in DOMAIN w.steps |-> Step(i)],
             rules |-> [i \in DOMAIN w.rules |-> Rule(i)]]
  <2>1. w = [sources |-> w.sources, steps |-> w.steps, rules |-> w.rules]
    BY <1>1 DEF Work
  <2> QED
    BY <1>5, <2>1
<1>8. new \in Work
  BY <1>4, <1>6, <1>7 DEF Work, StepType
<1> QED
  BY <1>8 DEF new

\* The values without one of them, and with another one.
Without(values, key) == [k \in DOMAIN values \ {key} |-> values[k]]
Put(values, key, v) == [k \in DOMAIN values \union {key} |-> IF k = key THEN v ELSE values[k]]

\* Defaults are values, and so is what may stand in the field.
LEMMA DefaultsTyped ==
  ASSUME NEW t \in Template, NEW key \in DOMAIN Defaults(t)
  PROVE  Defaults(t)[key] \in Value
<1>1. \E p \in t.parameters : p.key = key
  BY DEF Defaults
<1>2. PICK p \in t.parameters : p = CHOOSE q \in t.parameters : q.key = key
  BY <1>1
<1>3. p.default \in Value
  BY DEF Template, ParameterType
<1> QED
  BY <1>2, <1>3 DEF Defaults

\* So is whatever the user leaves in the fields.
LEMMA EditsTyped ==
  ASSUME NEW t \in Template, NEW values \in Edits(t), NEW name \in DOMAIN values
  PROVE  values[name] \in Value
<1> DEFINE A == {[k \in DOMAIN Defaults(t) \ {key} |-> Defaults(t)[k]] : key \in Keys(t)}
           B == {[k \in DOMAIN Defaults(t) \union {key} |-> IF k = key THEN v ELSE Defaults(t)[k]] :
                   key \in Keys(t), v \in Values}
<1>1. values = Defaults(t) \/ values \in A \/ values \in B
  <2>1. values \in {Defaults(t)} \union A \union B
    BY SMTT(30) DEF Edits
  <2> HIDE DEF A, B
  <2> QED
    BY <2>1
<1>2. CASE values = Defaults(t)
  BY <1>2, DefaultsTyped
<1>3. CASE values \in A
  <2>1. PICK key : values = Without(Defaults(t), key)
    BY <1>3 DEF Without
  <2> HIDE DEF A, B
  <2> QED
    BY <2>1, DefaultsTyped DEF Without
<1>4. CASE values \in B
  <2>1. PICK key \in Keys(t), v \in Values : values = Put(Defaults(t), key, v)
    <3>1. PICK key \in Keys(t), v \in Values :
            values = [k \in DOMAIN Defaults(t) \union {key} |->
                        IF k = key THEN v ELSE Defaults(t)[k]]
      BY <1>4, SMTT(30)
    <3> QED
      BY <3>1, SMTT(30) DEF Put
  <2> HIDE DEF A, B
  <2> QED
    BY <2>1, DefaultsTyped, WorksAssumption DEF Put
<1> HIDE DEF A, B
<1> QED
  BY <1>1, <1>2, <1>3, <1>4

-----------------------------------------------------------------------------

JobRecord == [status : {"none", "running"} \union Terminal, link : Ids \union {None}]

StoreTyped ==
  /\ phase \in {"down", "starting", "running"}
  /\ open \in BOOLEAN /\ (open => phase = "starting")
  /\ disk.version \in 0 .. CurrentVersion /\ disk.columns \subseteq Columns
  /\ disk.stored \subseteq DOMAIN made /\ disk.consented \subseteq disk.stored
  /\ work.version \in 0 .. CurrentVersion /\ work.columns \subseteq Columns
  /\ work.stored \subseteq DOMAIN made /\ work.consented \subseteq work.stored
LibraryTyped ==
  /\ DOMAIN made \subseteq Ids /\ DOMAIN reviewed = DOMAIN made
  /\ \A id \in DOMAIN made : reviewed[id] \in Work /\ made[id] \in Template
JobsTyped ==
  jobs \in [Jobs -> JobRecord] /\ minted \in 0 .. MaxJobs /\ crashes \in 0 .. MaxCrashes
PagesTyped ==
  /\ listed \subseteq DOMAIN made /\ ui.page \in Pages
  /\ ui.pending \in DOMAIN made \union {None} /\ ui.active \in DOMAIN made \union {None}
  /\ ui.pendingSaved \in BOOLEAN /\ ui.activeSaved \in BOOLEAN
  /\ ui.edited \in BOOLEAN /\ ui.busy \in BOOLEAN /\ ui.done \in BOOLEAN
  /\ ui.job \in Jobs \union {None} /\ ui.work \in Work
  /\ \A key \in DOMAIN ui.values : ui.values[key] \in Value

\* The types, with those of the values typed for a workflow, and what the pages lead to.
TypeInv == RebindInv /\ StoreTyped /\ LibraryTyped /\ JobsTyped /\ PagesTyped

\* A plan that is still empty is a plan.
LEMMA EmptyWorkTyped == \A n \in Nat \ {0} : EmptyWork(n) \in Work
  BY DEF EmptyWork, Work

\* The pages a new session or job starts with.
LEMMA FreshPagesTyped ==
  ASSUME ui' = FreshUi, listed' = {}
  PROVE  PagesTyped'
<1>1. FreshUi.work \in Work
  BY EmptyWorkTyped DEF FreshUi
<1>2. \A key \in DOMAIN FreshUi.values : FreshUi.values[key] \in Value
  BY DEF FreshUi
<1> QED
  BY <1>1, <1>2 DEF PagesTyped, FreshUi, Pages

\* The database an earlier release left holds templates.
LEMMA InitTyped == Init => StoreTyped /\ LibraryTyped /\ JobsTyped /\ PagesTyped
<1> SUFFICES ASSUME Init PROVE StoreTyped /\ LibraryTyped /\ JobsTyped /\ PagesTyped
  OBVIOUS
<1>0. PICK old \in Legacy, names \in [Ids -> Names] :
        LET db == [version |-> old.version, columns |-> old.columns,
                   stored |-> DOMAIN old.works, consented |-> old.consented]
        IN  /\ disk = db /\ work = db
            /\ reviewed = old.works
            /\ made = [i \in DOMAIN old.works |-> FromPlan(old.works[i], names[i])]
  BY Zenon DEF Init
<1>1. /\ disk = [version |-> old.version, columns |-> old.columns,
                 stored |-> DOMAIN old.works, consented |-> old.consented]
      /\ work = disk
      /\ reviewed = old.works
      /\ made = [i \in DOMAIN old.works |-> FromPlan(old.works[i], names[i])]
  BY <1>0
<1>2. old.works \in Seq(Works) /\ DOMAIN old.works \subseteq Ids
  BY LegacyAssumption, BoundsAssumption DEF Ids
<1>3. \A i \in DOMAIN old.works : old.works[i] \in Work
  BY <1>2, WorksAssumption
<1>4. LibraryTyped
  BY <1>1, <1>2, <1>3, FromPlanTyped DEF LibraryTyped
<1>5. StoreTyped
  BY <1>1, LegacyAssumption DEF Init, StoreTyped
<1>6. JobsTyped
  BY BoundsAssumption DEF Init, JobsTyped, JobRecord
<1>7. PagesTyped
  <2>1. ui = FreshUi /\ listed = {}
    BY DEF Init
  <2>2. FreshUi.work \in Work
    BY EmptyWorkTyped DEF FreshUi
  <2>3. \A key \in DOMAIN FreshUi.values : FreshUi.values[key] \in Value
    BY DEF FreshUi
  <2> QED
    BY <2>1, <2>2, <2>3 DEF PagesTyped, FreshUi, Pages
<1> QED
  BY <1>4, <1>5, <1>6, <1>7

\* Expired records are forgotten.
LEMMA PruneTyped ==
  ASSUME jobs \in [Jobs -> JobRecord], Prune
  PROVE  jobs' \in [Jobs -> JobRecord]
  BY DEF Prune, Pruned, JobRecord

\* Starting and dying.
LEMMA StartTyped ==
  ASSUME TypeInv, Launch \/ Migrate \/ Started \/ Crash
  PROVE  StoreTyped' /\ LibraryTyped' /\ JobsTyped' /\ PagesTyped'
<1> USE DEF TypeInv, store, library
<1>1. UNCHANGED <<made, reviewed>>
  BY DEF Launch, Migrate, Started, Crash
<1>2. LibraryTyped'
  BY <1>1 DEF LibraryTyped
<1>3. CASE Launch
  <2>1. StoreTyped'
    BY <1>1, <1>3 DEF Launch, StoreTyped, RebindInv, IInv, StoreInv, Upgrade
  <2> QED
    BY <1>1, <1>2, <1>3, <2>1 DEF Launch, JobsTyped, PagesTyped
<1>4. CASE Migrate
  <2>0. /\ phase = "starting"
        /\ UNCHANGED <<phase, made, reviewed, minted, jobs, listed, ui, crashes>>
        /\ DOMAIN work = StoreFields
    BY <1>4 DEF Migrate, RebindInv, IInv, StoreInv, Shape
  <2>1. StoreTyped'
    <3>1. CASE CreateTables
      BY <2>0, <3>1 DEF CreateTables, Record, StoreTyped, StoreFields, CurrentVersion
    <3>2. CASE \E c \in Columns : AddColumn(c)
      BY <2>0, <3>2 DEF AddColumn, Define, StoreTyped, StoreFields, CurrentVersion
    <3>3. CASE FinishColumns
      BY <2>0, <3>3 DEF FinishColumns, Record, StoreTyped, StoreFields, CurrentVersion
    <3>4. CASE ResetPrivacy
      BY <2>0, <3>4 DEF ResetPrivacy, Record, StoreTyped, StoreFields, CurrentVersion
    <3> QED
      BY <1>4, <3>1, <3>2, <3>3, <3>4 DEF Migrate
  <2> QED
    BY <1>2, <2>0, <2>1 DEF JobsTyped, PagesTyped
<1>5. CASE Started
  <2>1. StoreTyped'
    BY <1>1, <1>5 DEF Started, StoreTyped
  <2>2. JobsTyped'
    BY <1>5, PruneTyped DEF Started, JobsTyped
  <2> QED
    BY <1>1, <1>2, <1>5, <2>1, <2>2 DEF Started, PagesTyped
<1>6. CASE Crash
  <2>1. StoreTyped'
    BY <1>1, <1>6 DEF Crash, StoreTyped
  <2>2. JobsTyped'
    BY <1>6, BoundsAssumption DEF Crash, JobsTyped
  <2>3. PagesTyped'
    BY <1>6, FreshPagesTyped DEF Crash
  <2> QED
    BY <1>2, <2>1, <2>2, <2>3
<1> QED
  BY <1>3, <1>4, <1>5, <1>6

\* What leaves the database and the templates alone.
LEMMA PagesOnly ==
  ASSUME TypeInv, UNCHANGED <<phase, store, library, crashes>>, jobs' \in [Jobs -> JobRecord],
         minted' \in 0 .. MaxJobs, PagesTyped'
  PROVE  StoreTyped' /\ LibraryTyped' /\ JobsTyped' /\ PagesTyped'
  BY DEF TypeInv, store, library, StoreTyped, LibraryTyped, JobsTyped

\* A workflow waits for files.
LEMMA BeginTyped ==
  ASSUME TypeInv, NEW id \in DOMAIN made, NEW saved \in BOOLEAN, NEW values,
         \A key \in DOMAIN values : values[key] \in Value, Begin(id, saved, values), UNCHANGED made
  PROVE  PagesTyped'
<1>1. DOMAIN ui = UiFields
  BY DEF TypeInv, RebindInv, IInv, StoreInv, Shape
<1>2. /\ ui'.page = "intake" /\ ui'.job = None /\ ui'.work = EmptyWork(1) /\ ui'.pending = id
      /\ ui'.pendingSaved = saved /\ ui'.values = values /\ ui'.active = ui.active
      /\ ui'.activeSaved = ui.activeSaved /\ ui'.edited = ui.edited /\ ui'.busy = ui.busy
      /\ ui'.done = ui.done /\ listed' = {}
  BY <1>1 DEF Begin, UiFields
<1> QED
  BY <1>2, EmptyWorkTyped DEF TypeInv, PagesTyped, Pages

\* Leaving a page, choosing a workflow.
LEMMA ChoosingTyped ==
  ASSUME TypeInv, NEW page, NEW id, NEW j,
         NewJob \/ (page \in {"library", "history", "settings"} /\ Show(page))
           \/ (id \in DOMAIN made /\ Use(id)) \/ RepeatFromHistory(j) \/ RepeatActive
           \/ GoBack \/ EditPlan
  PROVE  StoreTyped' /\ LibraryTyped' /\ JobsTyped' /\ PagesTyped'
<1> DOMAIN ui = UiFields
  BY DEF TypeInv, RebindInv, IInv, StoreInv, Shape
<1>0. /\ UNCHANGED <<phase, store, library, crashes>>
      /\ jobs' \in [Jobs -> JobRecord] /\ minted' \in 0 .. MaxJobs
  BY DEF TypeInv, JobsTyped, NewJob, Show, Use, RepeatFromHistory, RepeatActive, GoBack, EditPlan
<1>1. CASE NewJob
  BY <1>0, <1>1, FreshPagesTyped, PagesOnly DEF NewJob
<1>2. CASE page \in {"library", "history", "settings"} /\ Show(page)
  <2>1. listed' \subseteq DOMAIN made /\ made' = made
    BY <1>0, <1>2 DEF Show, Reread, TypeInv, StoreTyped, library
  <2>2. /\ ui'.page \in Pages /\ ui'.work = EmptyWork(1)
        /\ \A field \in UiFields \ {"page", "work"} : ui'[field] = ui[field]
    BY <1>2 DEF Show, UiFields, Pages
  <2>3. PagesTyped'
    BY <2>1, <2>2, EmptyWorkTyped DEF TypeInv, PagesTyped, UiFields
  <2> QED
    BY <1>0, <2>3, PagesOnly
<1>3. CASE id \in DOMAIN made /\ Use(id)
  <2>1. PICK values \in Edits(made[id]) : Begin(id, TRUE, values)
    BY <1>3 DEF Use
  <2>2. \A key \in DOMAIN values : values[key] \in Value
    BY <1>3, <2>1, EditsTyped DEF TypeInv, LibraryTyped
  <2> QED
    BY <1>0, <1>3, <2>1, <2>2, BeginTyped, PagesOnly DEF library
<1>4. CASE RepeatFromHistory(j)
  <2>1. jobs[j].link \in DOMAIN made /\ Begin(jobs[j].link, TRUE, Defaults(made[jobs[j].link]))
    BY <1>4 DEF RepeatFromHistory, TypeInv, StoreTyped
  <2>2. \A key \in DOMAIN Defaults(made[jobs[j].link]) : Defaults(made[jobs[j].link])[key] \in Value
    BY <2>1, DefaultsTyped DEF TypeInv, LibraryTyped
  <2> QED
    BY <1>0, <2>1, <2>2, BeginTyped, PagesOnly DEF library
<1>5. CASE RepeatActive
  <2>1. /\ ui.active \in DOMAIN made /\ ui.activeSaved \in BOOLEAN
        /\ Begin(ui.active, ui.activeSaved, Defaults(made[ui.active]))
    BY <1>5 DEF RepeatActive, TypeInv, PagesTyped
  <2>2. \A key \in DOMAIN Defaults(made[ui.active]) : Defaults(made[ui.active])[key] \in Value
    BY <2>1, DefaultsTyped DEF TypeInv, LibraryTyped
  <2> QED
    BY <1>0, <2>1, <2>2, BeginTyped, PagesOnly DEF library
<1>6. CASE GoBack
  <2>1. /\ ui'.page \in Pages /\ \A field \in UiFields \ {"page"} : ui'[field] = ui[field]
        /\ UNCHANGED <<listed, made>>
    BY <1>6 DEF GoBack, UiFields, Pages, library
  <2>2. PagesTyped'
    BY <2>1 DEF TypeInv, PagesTyped, UiFields
  <2> QED
    BY <1>0, <2>2, PagesOnly
<1>7. CASE EditPlan
  <2>1. /\ ui'.work \in Work /\ ui'.edited = TRUE
        /\ \A field \in UiFields \ {"work", "edited"} : ui'[field] = ui[field]
        /\ UNCHANGED <<listed, made>>
    BY <1>7, WorksAssumption DEF EditPlan, UiFields, library
  <2>2. PagesTyped'
    BY <2>1 DEF TypeInv, PagesTyped, UiFields
  <2> QED
    BY <1>0, <2>2, PagesOnly
<1> QED
  BY <1>1, <1>2, <1>3, <1>4, <1>5, <1>6, <1>7

\* A job for new files.
LEMMA ContinueTyped ==
  ASSUME TypeInv, ContinueToPlan
  PROVE  StoreTyped' /\ LibraryTyped' /\ JobsTyped' /\ PagesTyped'
<1> DOMAIN ui = UiFields
  BY DEF TypeInv, RebindInv, IInv, StoreInv, Shape
<1>1. /\ UNCHANGED <<phase, store, library, jobs, crashes, listed, made>>
      /\ minted + 1 \in Jobs /\ minted' \in 0 .. MaxJobs
  BY BoundsAssumption DEF ContinueToPlan, TypeInv, JobsTyped, Jobs, library
<1>2. PICK n \in {w.sources : w \in Works} : PlanFromScratch(n) \/ RebindTemplate(n)
  BY DEF ContinueToPlan
<1>3. EmptyWork(n) \in Work
  BY WorksAssumption, WorkHolds, EmptyWorkTyped
<1>4. PagesTyped'
  <2>1. CASE PlanFromScratch(n)
    <3>1. /\ ui'.page = "plan" /\ ui'.job = minted + 1 /\ ui'.work = EmptyWork(n)
          /\ ui'.active = None /\ ui'.activeSaved = FALSE /\ ui'.edited = FALSE /\ ui'.done = FALSE
          /\ ui'.pending = ui.pending /\ ui'.pendingSaved = ui.pendingSaved
          /\ ui'.values = ui.values /\ ui'.busy = ui.busy
      BY <2>1 DEF PlanFromScratch, UiFields
    <3> QED
      BY <1>1, <1>3, <3>1 DEF TypeInv, PagesTyped, Pages
  <2>2. CASE RebindTemplate(n)
    <3>1. made[ui.pending] \in Template /\ \A key \in DOMAIN ui.values : ui.values[key] \in Value
      BY <2>2 DEF RebindTemplate, TypeInv, LibraryTyped, PagesTyped
    <3>2. Instantiate(made[ui.pending], ui.values) \in Work
      BY <3>1, InstantiateTyped
    <3>3. /\ ui'.page = "plan" /\ ui'.job = minted + 1
          /\ ui'.work = Instantiate(made[ui.pending], ui.values)
          /\ ui'.active = ui.pending /\ ui'.activeSaved = ui.pendingSaved
          /\ ui'.pending = None /\ ui'.pendingSaved = FALSE /\ ui'.values = <<>>
          /\ ui'.edited = FALSE /\ ui'.done = FALSE /\ ui'.busy = ui.busy
      BY <2>2 DEF RebindTemplate, UiFields
    <3>4. DOMAIN ui'.values = {}
      BY <3>3
    <3>5. ui.pending \in DOMAIN made \union {None} /\ ui.pendingSaved \in BOOLEAN
      BY DEF TypeInv, PagesTyped
    <3> QED
      BY <1>1, <3>2, <3>3, <3>4, <3>5 DEF TypeInv, PagesTyped, Pages
  <2> QED
    BY <1>2, <2>1, <2>2
<1> QED
  BY <1>1, <1>4, PagesOnly DEF TypeInv, JobsTyped

\* Deleting a workflow, saving settings, executing.
LEMMA WorkingTyped ==
  ASSUME TypeInv, NEW id, Delete(id) \/ SaveSettings \/ Execute \/ ExecutionEnds
  PROVE  StoreTyped' /\ LibraryTyped' /\ JobsTyped' /\ PagesTyped'
<1> DOMAIN ui = UiFields /\ DOMAIN disk = StoreFields
  BY DEF TypeInv, RebindInv, IInv, StoreInv, Shape
<1>1. CASE Delete(id)
  <2>1. /\ disk'.version = disk.version /\ disk'.columns = disk.columns
        /\ disk'.stored = disk.stored \ {id} /\ disk'.consented = disk.consented \ {id}
        /\ work' = disk' /\ UNCHANGED <<phase, open, made, reviewed, jobs, minted, crashes, ui>>
    BY <1>1 DEF Delete, Write, StoreFields, library
  <2>2. StoreTyped'
    BY <2>1 DEF TypeInv, StoreTyped
  <2>3. listed' \subseteq DOMAIN made
    BY <1>1, <2>1 DEF Delete, Reread, TypeInv, StoreTyped
  <2> QED
    BY <2>1, <2>2, <2>3 DEF TypeInv, LibraryTyped, JobsTyped, PagesTyped
<1>2. CASE SaveSettings
  <2>1. jobs' \in [Jobs -> JobRecord]
    BY <1>2, PruneTyped DEF SaveSettings, TypeInv, JobsTyped
  <2>2. UNCHANGED <<phase, store, library, minted, listed, ui, crashes>> /\ made' = made
    BY <1>2 DEF SaveSettings, library
  <2>3. PagesTyped'
    BY <2>2 DEF TypeInv, PagesTyped
  <2> QED
    BY <2>1, <2>2, <2>3, PagesOnly DEF TypeInv, JobsTyped
<1>3. CASE Execute
  <2>1. WorkflowId \in Ids \union {None}
    BY DEF WorkflowId, TypeInv, PagesTyped, LibraryTyped
  <2>2. jobs' \in [Jobs -> JobRecord]
    BY <1>3, <2>1 DEF Execute, TypeInv, JobsTyped, JobRecord
  <2>3. /\ UNCHANGED <<phase, store, library, minted, listed, crashes>> /\ made' = made
        /\ ui'.page = "results" /\ ui'.busy = TRUE /\ ui'.done = FALSE
        /\ \A field \in UiFields \ {"page", "busy", "done"} : ui'[field] = ui[field]
    BY <1>3 DEF Execute, library, UiFields
  <2>4. PagesTyped'
    BY <2>3 DEF TypeInv, PagesTyped, UiFields, Pages
  <2> QED
    BY <2>2, <2>3, <2>4, PagesOnly DEF TypeInv, JobsTyped
<1>4. CASE ExecutionEnds
  <2>1. PICK status \in Terminal, booked \in BOOLEAN :
          /\ jobs' = [jobs EXCEPT ![ui.job].status = IF booked THEN status ELSE @]
          /\ ui' = [ui EXCEPT !.busy = FALSE, !.done = (status = "succeeded")]
    BY <1>4 DEF ExecutionEnds
  <2>2. jobs' \in [Jobs -> JobRecord]
    BY <2>1 DEF TypeInv, JobsTyped, JobRecord
  <2>3. /\ UNCHANGED <<phase, store, library, minted, listed, crashes>> /\ made' = made
        /\ ui'.busy = FALSE /\ ui'.done \in BOOLEAN
        /\ \A field \in UiFields \ {"busy", "done"} : ui'[field] = ui[field]
    BY <1>4, <2>1 DEF ExecutionEnds, library, UiFields
  <2>4. PagesTyped'
    BY <2>3 DEF TypeInv, PagesTyped, UiFields
  <2> QED
    BY <2>2, <2>3, <2>4, PagesOnly DEF TypeInv, JobsTyped
<1> QED
  BY <1>1, <1>2, <1>3, <1>4

\* Saving a workflow, repeating an unsaved one.
LEMMA MakingTyped ==
  ASSUME TypeInv, NEW name \in Names, SaveWorkflow(name) \/ RepeatUnsaved(name)
  PROVE  StoreTyped' /\ LibraryTyped' /\ JobsTyped' /\ PagesTyped'
<1> DOMAIN ui = UiFields /\ DOMAIN disk = StoreFields
  BY DEF TypeInv, RebindInv, IInv, StoreInv, Shape
<1>1. Make(name)
  BY DEF SaveWorkflow, RepeatUnsaved
<1>2. /\ Fresh \in Ids \ DOMAIN made
      /\ DOMAIN made' = DOMAIN made \union {Fresh} /\ DOMAIN reviewed' = DOMAIN made'
      /\ \A id \in DOMAIN made : made'[id] = made[id]
      /\ made'[Fresh] = FromPlan(ui.work, name)
  BY <1>1, MakeRebinds DEF TypeInv
<1>3. \A id \in DOMAIN made' : reviewed'[id] \in {ui.work} \union {reviewed[k] : k \in DOMAIN made}
  BY <1>1 DEF Make, With, TypeInv, LibraryTyped
<1> HIDE DEF Fresh
<1>4. made'[Fresh] \in Template
  BY <1>2, FromPlanTyped DEF TypeInv, PagesTyped
<1>5. LibraryTyped'
  BY <1>2, <1>3, <1>4 DEF TypeInv, LibraryTyped, PagesTyped
<1>6. CASE SaveWorkflow(name)
  <2>1. /\ disk'.version = disk.version /\ disk'.columns = disk.columns
        /\ disk'.stored = disk.stored \union {Fresh} /\ disk'.consented = disk.consented
        /\ work' = disk' /\ UNCHANGED <<phase, open, minted, crashes, listed>>
    BY <1>6 DEF SaveWorkflow, Write, StoreFields
  <2>2. StoreTyped'
    BY <1>2, <2>1 DEF TypeInv, StoreTyped
  <2>3. \/ /\ jobs' = [jobs EXCEPT ![ui.job].link = Fresh]
           /\ ui' = [ui EXCEPT !.active = Fresh, !.activeSaved = TRUE]
        \/ UNCHANGED <<jobs, ui>>
    BY <1>6 DEF SaveWorkflow
  <2>4. JobsTyped'
    BY <1>2, <2>1, <2>3 DEF TypeInv, JobsTyped, JobRecord
  <2>5. /\ ui'.active \in DOMAIN made' \union {None} /\ ui'.activeSaved \in BOOLEAN
        /\ \A field \in UiFields \ {"active", "activeSaved"} : ui'[field] = ui[field]
    BY <1>2, <2>3 DEF TypeInv, PagesTyped, UiFields
  <2>6. PagesTyped'
    BY <1>2, <2>1, <2>5 DEF TypeInv, PagesTyped, UiFields
  <2> QED
    BY <1>5, <2>2, <2>4, <2>6
<1>7. CASE RepeatUnsaved(name)
  <2>1. /\ ui'.page = "intake" /\ ui'.job = None /\ ui'.work = EmptyWork(1) /\ ui'.pending = Fresh
        /\ ui'.pendingSaved = FALSE /\ ui'.values = Defaults(made'[Fresh])
        /\ ui'.active = ui.active /\ ui'.activeSaved = ui.activeSaved /\ ui'.edited = ui.edited
        /\ ui'.busy = ui.busy /\ ui'.done = ui.done
        /\ UNCHANGED <<phase, disk, work, open, minted, jobs, listed, crashes>>
    BY <1>7 DEF RepeatUnsaved, UiFields, store
  <2>2. \A key \in DOMAIN ui'.values : ui'.values[key] \in Value
    BY <1>4, <2>1, DefaultsTyped
  <2>3. PagesTyped'
    <3>1. /\ listed' \subseteq DOMAIN made' /\ ui'.active \in DOMAIN made' \union {None}
          /\ ui'.pending \in DOMAIN made' \union {None}
      BY <1>2, <2>1 DEF TypeInv, PagesTyped
    <3>2. EmptyWork(1) \in Work
      BY EmptyWorkTyped
    <3> QED
      BY <2>1, <2>2, <3>1, <3>2 DEF TypeInv, PagesTyped, Pages
  <2>4. StoreTyped' /\ JobsTyped'
    BY <1>2, <2>1 DEF TypeInv, StoreTyped, JobsTyped
  <2> QED
    BY <1>5, <2>3, <2>4
<1> QED
  BY <1>6, <1>7

\* The types are kept by every step.
LEMMA StepTyped == TypeInv /\ [Next]_vars => TypeInv'
<1> SUFFICES ASSUME TypeInv, [Next]_vars PROVE TypeInv'
  OBVIOUS
<1> DEFINE Goal == StoreTyped' /\ LibraryTyped' /\ JobsTyped' /\ PagesTyped'
<1>1. RebindInv'
  BY StepRebinds DEF TypeInv
<1>2. CASE Launch \/ Migrate \/ Started \/ Crash
  BY <1>1, <1>2, StartTyped DEF TypeInv
<1>3. CASE User
  <2>1. CASE NewJob \/ RepeatActive \/ GoBack \/ EditPlan
    <3>1. Goal
      BY <2>1, ChoosingTyped
    <3> QED
      BY <1>1, <3>1 DEF TypeInv
  <2>2. ASSUME NEW page \in {"library", "history", "settings"}, Show(page) PROVE Goal
    BY <2>2, ChoosingTyped
  <2>3. ASSUME NEW id \in DOMAIN made, Use(id) PROVE Goal
    BY <2>3, ChoosingTyped
  <2>4. ASSUME NEW j \in Jobs, RepeatFromHistory(j) PROVE Goal
    BY <2>4, ChoosingTyped
  <2>5. CASE ContinueToPlan
    BY <1>1, <2>5, ContinueTyped DEF TypeInv
  <2>6. CASE Execute \/ SaveSettings \/ \E id \in DOMAIN made : Delete(id)
    BY <1>1, <2>6, WorkingTyped DEF TypeInv
  <2>7. ASSUME NEW name \in Names, SaveWorkflow(name) \/ RepeatUnsaved(name) PROVE Goal
    BY <2>7, MakingTyped
  <2> QED
    BY <1>1, <1>3, <2>1, <2>2, <2>3, <2>4, <2>5, <2>6, <2>7 DEF User, TypeInv
<1>4. CASE ExecutionEnds
  BY <1>1, <1>4, WorkingTyped DEF TypeInv
<1>5. CASE UNCHANGED vars
  BY <1>1, <1>5 DEF vars, store, library, TypeInv, StoreTyped, LibraryTyped, JobsTyped, PagesTyped
<1> QED
  BY <1>2, <1>3, <1>4, <1>5 DEF Next

\* Every template the program holds, saved or not, is well formed: a plan, with parameters
\* of known kinds bound to places (storage/models.py, WorkflowTemplate).  So is the plan made
\* of one with whatever was typed, and the records and pages name templates.
THEOREM TypeCorrect == Spec => []TypeOK
<1>1. TypeInv => TypeOK
  BY DEF TypeInv, StoreTyped, LibraryTyped, JobsTyped, JobRecord, PagesTyped, TypeOK
<1>2. Init => TypeInv
  BY InitTyped, InitRebinding DEF TypeInv
<1> QED
  BY <1>1, <1>2, StepTyped, PTL DEF Spec
=============================================================================
