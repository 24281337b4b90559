--------------------------- MODULE WorkflowLibrary ---------------------------
(***************************************************************************)
(* The local metadata database and the reusable workflows kept in it       *)
(* (sheetpilot/storage), with the pages that offer them                    *)
(* (ui/pages/persistence_pages.py) and the main window that binds them to  *)
(* newly analysed files.                                                   *)
(*                                                                         *)
(* The database is upgraded when the program starts, may be half upgraded  *)
(* when it dies, and is then read and written in one transaction per       *)
(* operation, any of which may fail.  Preview, approval, cancellation and  *)
(* the execution itself are the business of DesktopSession.                *)
(***************************************************************************)
EXTENDS Naturals, Sequences, FiniteSets

CONSTANTS
  Works,         \* what a user may have a plan do: sources, steps, validation rules
  Values,        \* what a user may type for a reuse parameter
  Legacy,        \* databases an earlier release may have left behind
  Names,         \* names a user may give to a workflow
  Readings,      \* templates that match a search; none of them when reading fails
  MaxJobs,       \* bound on the jobs a user prepares
  MaxTemplates,  \* bound on the templates that are ever built
  MaxCrashes     \* bound on the times the program dies

Types == {"text", "list", "map", "null"}
Value == [type : Types, is : {"empty", "a", "b"}]
Null == [type |-> "null", is |-> "empty"]
NoList == [type |-> "list", is |-> "empty"]

\* Places in a step's parameters, in the order in which they are visited; a rule
\* has parameters of its own.
Paths == <<"actions.1.mapping", "actions.2.mapping", "category_column", "columns", "group_by">>
RuleNames == {"column", "columns", "limit"}
MappingPaths == {"actions.1.mapping", "actions.2.mapping"}
GroupingPaths == {"category_column", "group_by"}
Parameters == UNION {[S -> Value] : S \in SUBSET {Paths[k] : k \in DOMAIN Paths}}
RuleParameters == UNION {[S -> Value] : S \in SUBSET RuleNames}

\* OperationPlan without its identity: the files are counted, a step names the
\* position of its own, and its id is its position.
Work ==
  [sources : Nat \ {0},
   steps : Seq([source : Nat \ {0}, sheet : Value, columns : Value, params : Parameters]),
   rules : Seq(RuleParameters)]
EmptyWork(n) == [sources |-> n, steps |-> <<>>, rules |-> <<>>]

\* Columns added by the second migration.
Columns == 1 .. 5
CurrentVersion == 3

ASSUME BoundsAssumption ==
  /\ MaxJobs \in Nat /\ MaxTemplates \in Nat /\ MaxCrashes \in Nat
  /\ Readings \subseteq SUBSET (1 .. MaxTemplates)
ASSUME WorksAssumption == Works \subseteq Work /\ Values \subseteq Value

\* The second and third migration are recorded with what they did; before them a
\* template may carry an upload consent.
ASSUME LegacyAssumption ==
  \A old \in Legacy :
    /\ old.version \in 0 .. CurrentVersion /\ old.columns \subseteq Columns
    /\ old.works \in Seq(Works) /\ Len(old.works) <= MaxTemplates
    /\ old.consented \subseteq DOMAIN old.works
    /\ old.version >= 2 => old.columns = Columns
    /\ old.version >= 3 => old.consented = {}
    /\ old.version = 0 => old.works = <<>> /\ old.columns = {}

Jobs == 1 .. MaxJobs
Ids == 1 .. MaxTemplates
None == 0
Pages == {"intake", "plan", "results", "library", "history", "settings"}
Terminal == {"succeeded", "failed"}

VARIABLES
  phase,     \* "down", "starting" (Database.initialize), "running"
  disk,      \* the committed database: version, columns, stored templates, consents
  work,      \* what the connection sees
  open,      \* a transaction is open on it
  made,      \* every template ever built, by id
  reviewed,  \* history: the work it was built from
  minted,    \* job ids given out
  jobs,      \* job records: status and linked workflow
  listed,    \* what the library page shows while it is on screen
  ui,        \* page, template waiting for files, template in use, plan
  asked,     \* history: what the user changed in the reuse parameters
  crashes    \* bounded by MaxCrashes

store == <<disk, work, open>>
library == <<made, reviewed>>
vars == <<phase, store, library, minted, jobs, listed, ui, asked, crashes>>

-----------------------------------------------------------------------------
(* Templates (storage/models.py). *)

\* _parameter_kind.
ParameterKind(name, value) ==
  CASE name \in MappingPaths /\ value.type = "map" -> "mapping"
    [] name \in {"column", "category_column"} /\ value.type = "text" -> "column"
    [] name \in {"columns", "group_by"} /\ value.type = "list" -> "columns"
    [] OTHER -> "json"

\* _validate_parameter_value.
ValidValue(kind, value) ==
  CASE kind \in {"sheet", "column"} -> value.type = "text" /\ value.is # "empty"
    [] kind = "columns" -> value.type = "list" /\ value.is # "empty"
    [] kind = "mapping" -> value.type = "map"
    [] OTHER -> TRUE

Binding(at, index, name) == [at |-> at, index |-> index, name |-> name]
Parameter(kind, binding, descriptor, nth, default) ==
  [key |-> <<binding.at = "rule", binding.index, descriptor, nth>>,
   kind |-> kind, binding |-> binding, default |-> default]

\* _step_candidates: the values worth asking for again, and what they are called.
IsCandidate(params, path) ==
  /\ path \in DOMAIN params
  /\ path \in GroupingPaths \/ (path \in MappingPaths /\ params[path].type = "map")
Descriptor(path) == IF path \in MappingPaths THEN "mapping" ELSE "grouping_columns"

\* unique_key: the second of a name gets the suffix _2.
Nth(params, k) ==
  Cardinality({i \in 1 .. k : /\ IsCandidate(params, Paths[i])
                              /\ Descriptor(Paths[i]) = Descriptor(Paths[k])})

StepParameters(step, i) ==
  (IF step.sheet = Null THEN {}
   ELSE {Parameter("sheet", Binding("sheet", i, "whole"), "input_sheet", 1, step.sheet)})
  \union
  (IF step.columns = NoList THEN {}
   ELSE {Parameter("columns", Binding("columns", i, "whole"), "target_columns", 1, step.columns)})
  \union
  {Parameter(ParameterKind(Paths[k], step.params[Paths[k]]), Binding("step", i, Paths[k]),
             Descriptor(Paths[k]), Nth(step.params, k), step.params[Paths[k]]) :
     k \in {x \in DOMAIN Paths : IsCandidate(step.params, Paths[x])}}

RuleParametersOf(rule, i) ==
  {Parameter(ParameterKind(name, rule[name]), Binding("rule", i, name), name, 1, rule[name]) :
     name \in DOMAIN rule}

\* _default_parameters.  The output name is left out: the intake form asks for it.
DefaultParameters(w) ==
  UNION ({StepParameters(w.steps[i], i) : i \in DOMAIN w.steps}
         \union {RuleParametersOf(w.rules[i], i) : i \in DOMAIN w.rules})

\* from_plan: a slot for every source, and no file, no job and no consent.
FromPlan(w, name) == [name |-> name, work |-> w, parameters |-> DefaultParameters(w)]

\* validate_blueprint_references.
ValidTemplate(t) ==
  /\ \A p, q \in t.parameters : p.key = q.key => p = q
  /\ \A p \in t.parameters : p.default # Null => ValidValue(p.kind, p.default)

Keys(t) == {p.key : p \in t.parameters}
Defaults(t) ==
  [key \in {p.key : p \in {x \in t.parameters : x.default # Null}} |->
     (CHOOSE p \in t.parameters : p.key = key).default]

\* What instantiate gives the parameter p, if it gives it anything.
Supplied(p, values) == p.key \in DOMAIN values \/ p.default # Null
Given(p, values) == IF p.key \in DOMAIN values THEN values[p.key] ELSE p.default

\* _set_parameter_path and its siblings for sheet and columns.
AnywhereBound(t, values, binding, old) ==
  LET bound == {p \in t.parameters : /\ p.binding.at = binding.at
                                     /\ p.binding.name = binding.name /\ Supplied(p, values)}
  IN IF bound = {} THEN old ELSE Given(CHOOSE p \in bound : TRUE, values)

Bound(t, values, binding, old) ==
  LET bound == {p \in t.parameters : p.binding = binding /\ Supplied(p, values)}
  IN IF bound = {} THEN old ELSE Given(CHOOSE p \in bound : TRUE, values)

\* instantiate, for as many new files as the template has slots.
Instantiate(t, values) ==
  [t.work EXCEPT
     !.steps = [i \in DOMAIN t.work.steps |->
                  [t.work.steps[i] EXCEPT
                     !.sheet = Bound(t, values, Binding("sheet", i, "whole"), @),
                     !.columns = Bound(t, values, Binding("columns", i, "whole"), @),
                     !.params = [n \in DOMAIN t.work.steps[i].params |->
                        Bound(t, values, Binding("step", i, n), t.work.steps[i].params[n])]]],
     !.rules = [i \in DOMAIN t.work.rules |->
                  [n \in DOMAIN t.work.rules[i] |->
                     Bound(t, values, Binding("rule", i, n), t.work.rules[i][n])]]]

\* What instantiate refuses.
Acceptable(t, values) ==
  /\ DOMAIN values \subseteq Keys(t)
  /\ \A p \in t.parameters : Supplied(p, values) => ValidValue(p.kind, Given(p, values))

\* PlanValidator.validate: the operations' own parameter types.
WellTyped(w) ==
  /\ \A i \in DOMAIN w.steps : \A path \in DOMAIN w.steps[i].params :
       w.steps[i].params[path].type =
         (IF path \in MappingPaths THEN "map" ELSE IF path = "category_column" THEN "text" ELSE "list")
  /\ \A i \in DOMAIN w.rules : "column" \in DOMAIN w.rules[i] => w.rules[i]["column"].type = "text"

-----------------------------------------------------------------------------
(* State. *)

FreshUi ==
  [page |-> "intake", pending |-> None, pendingSaved |-> FALSE, values |-> <<>>,
   active |-> None, activeSaved |-> FALSE, job |-> None, work |-> EmptyWork(1),
   edited |-> FALSE, busy |-> FALSE, done |-> FALSE]

\* What a template may hold: a parameter asks for one kind of value, is known by what it
\* stands for, and is bound to one place of the work.
Kinds == {"sheet", "column", "columns", "mapping", "json"}
Descriptors == {"input_sheet", "target_columns", "mapping", "grouping_columns"} \union RuleNames
BindingType ==
  [at : {"sheet", "columns", "step", "rule"}, index : Nat \ {0},
   name : {"whole"} \union {Paths[k] : k \in DOMAIN Paths} \union RuleNames]
ParameterType ==
  [key : BOOLEAN \X (Nat \ {0}) \X Descriptors \X (Nat \ {0}), kind : Kinds, default : Value,
   binding : BindingType]
Template == [name : Names, work : Work, parameters : SUBSET ParameterType]

TypeOK ==
  /\ phase \in {"down", "starting", "running"}
  /\ \A db \in {disk, work} :
       /\ db.version \in 0 .. CurrentVersion /\ db.columns \subseteq Columns
       /\ db.stored \subseteq DOMAIN made /\ db.consented \subseteq db.stored
  /\ open \in BOOLEAN
  /\ open => phase = "starting"
  /\ DOMAIN made \subseteq Ids /\ DOMAIN reviewed = DOMAIN made
  /\ \A id \in DOMAIN made : reviewed[id] \in Work /\ made[id] \in Template
  /\ jobs \in [Jobs -> [status : {"none", "running"} \union Terminal, link : Ids \union {None}]]
  /\ listed \subseteq DOMAIN made /\ ui.page \in Pages
  /\ {ui.pending, ui.active} \subseteq DOMAIN made \union {None}
  /\ {ui.pendingSaved, ui.activeSaved, ui.edited, ui.busy, ui.done} \subseteq BOOLEAN
  /\ ui.job \in Jobs \union {None} /\ ui.work \in Work
  /\ minted \in 0 .. MaxJobs /\ crashes \in 0 .. MaxCrashes

Init ==
  /\ phase = "down"
  /\ \E old \in Legacy, names \in [Ids -> Names] :
       LET db == [version |-> old.version, columns |-> old.columns,
                  stored |-> DOMAIN old.works, consented |-> old.consented]
       IN /\ disk = db /\ work = db
          /\ reviewed = old.works
          /\ \A i, k \in DOMAIN old.works : names[i] = names[k] => i = k
          /\ \A i \in Ids : i > Len(old.works) => names[i] = names[1]
          /\ made = [i \in DOMAIN old.works |-> FromPlan(old.works[i], names[i])]
  /\ open = FALSE
  /\ jobs = [j \in Jobs |-> [status |-> "none", link |-> None]]
  /\ listed = {}
  /\ ui = FreshUi
  /\ asked = {}
  /\ minted = 0 /\ crashes = 0

\* Database.connect: what a finished operation wrote, or nothing at all.
Write(db) == disk' = db /\ work' = db /\ UNCHANGED open

-----------------------------------------------------------------------------
(* Start: Database.initialize, which runs the missing migrations, and the      *)
(* pruning of expired history.                                                 *)

Launch ==
  /\ phase = "down"
  /\ phase' = "starting"
  /\ UNCHANGED <<store, library, minted, jobs, listed, ui, asked, crashes>>

\* A statement that changes the schema is durable at once unless a row was
\* written before it: sqlite3 opens a transaction only for the latter.
Define(db) ==
  /\ work' = db
  /\ disk' = IF open THEN disk ELSE db
  /\ UNCHANGED open

\* A statement that writes rows opens a transaction that lasts until the commit.
Record(db) == work' = db /\ open' = TRUE /\ UNCHANGED disk

CreateTables ==
  /\ work.version = 0
  /\ Record([work EXCEPT !.version = 1])

\* _add_column_if_missing, in the order of _migration_2.
AddColumn(c) ==
  /\ work.version = 1
  /\ c \in Columns \ work.columns
  /\ \A earlier \in Columns : earlier < c => earlier \in work.columns
  /\ Define([work EXCEPT !.columns = @ \union {c}])

FinishColumnsAnyway ==
  /\ work.version = 1
  /\ work.columns # {}
  /\ Record([work EXCEPT !.version = 2])

FinishColumns ==
  /\ work.version = 1
  /\ work.columns = Columns
  /\ Record([work EXCEPT !.version = 2])

\* _migration_3.
ResetPrivacy ==
  /\ work.version = 2
  /\ Record([work EXCEPT !.version = 3, !.consented = {}])

Migrate ==
  /\ phase = "starting"
  /\ CreateTables \/ (\E c \in Columns : AddColumn(c)) \/ FinishColumns \/ ResetPrivacy
  /\ UNCHANGED <<phase, library, minted, jobs, listed, ui, asked, crashes>>

\* prune_completed_before: any terminal record may be old enough.
Pruned(db, expired) == [j \in Jobs |-> IF j \in expired THEN [status |-> "none", link |-> None]
                                       ELSE db[j]]
Prune ==
  \E expired \in SUBSET {j \in Jobs : jobs[j].status \in Terminal} : jobs' = Pruned(jobs, expired)

StartedUncommitted ==
  /\ phase = "starting"
  /\ work.version = CurrentVersion
  /\ phase' = "running"
  /\ Prune
  /\ UNCHANGED <<store, library, minted, listed, ui, asked, crashes>>

Started ==
  /\ phase = "starting"
  /\ work.version = CurrentVersion
  /\ phase' = "running"
  /\ disk' = work /\ open' = FALSE
  /\ Prune
  /\ UNCHANGED <<work, library, minted, listed, ui, asked, crashes>>

\* The program dies, or a migration fails and it gives up: an open transaction
\* is rolled back.
Crash ==
  /\ phase # "down"
  /\ crashes < MaxCrashes
  /\ crashes' = crashes + 1
  /\ phase' = "down"
  /\ work' = disk /\ open' = FALSE
  /\ listed' = {} /\ ui' = FreshUi /\ asked' = {}
  /\ UNCHANGED <<disk, library, minted, jobs>>

-----------------------------------------------------------------------------
(* Pages.  The sidebar is enabled unless an execution is under way. *)

Idle == phase = "running" /\ ~ui.busy

\* WorkflowLibraryPage.refresh.  The saved workflows and the templates are two such
\* pages; the one that is not on screen is read again before it is.
Reread(stored) == \E found \in Readings : listed' = found \intersect stored

NewJobKeepingTemplate ==
  /\ Idle
  /\ ui' = [ui EXCEPT !.page = "intake", !.job = None]
  /\ listed' = {}
  /\ UNCHANGED <<phase, store, library, minted, jobs, asked, crashes>>

\* _new_job.
NewJob ==
  /\ Idle
  /\ ui' = FreshUi /\ listed' = {} /\ asked' = {}
  /\ UNCHANGED <<phase, store, library, minted, jobs, crashes>>

\* _show_navigation and the refresh button: a page is read again when it is shown.
\* The plan stays in memory, but nothing leads back to it: it is forgotten here.
Show(page) ==
  /\ Idle
  /\ ui' = [ui EXCEPT !.page = page, !.work = EmptyWork(1)]
  /\ IF page = "library" THEN Reread(disk.stored) ELSE listed' = {}
  /\ UNCHANGED <<phase, store, library, minted, jobs, asked, crashes>>

\* What the user sees change, at the binding the page shows beside the key.
Changes(t, values) ==
  {[binding |-> p.binding, value |-> values[p.key]] :
     p \in {x \in t.parameters : x.key \in DOMAIN values /\ values[x.key] # x.default}}

\* _begin_workflow.
Begin(id, saved, values) ==
  /\ ui' = [ui EXCEPT !.page = "intake", !.job = None, !.work = EmptyWork(1),
                      !.pending = id, !.pendingSaved = saved, !.values = values]
  /\ listed' = {}
  /\ asked' = Changes(made[id], values)

\* What may stand in the value field of a selected workflow: its defaults, one of
\* them removed or one value changed.
Edits(t) ==
  {Defaults(t)}
  \union {[k \in DOMAIN Defaults(t) \ {key} |-> Defaults(t)[k]] : key \in Keys(t)}
  \union {[k \in DOMAIN Defaults(t) \union {key} |-> IF k = key THEN v ELSE Defaults(t)[k]] :
           key \in Keys(t), v \in Values}

\* _use_selected, with what _parse_parameter_values accepts.
Use(id) ==
  /\ Idle /\ ui.page = "library"
  /\ id \in listed
  /\ \E values \in Edits(made[id]) :
       /\ \A p \in made[id].parameters :
            p.key \in DOMAIN values => ValidValue(p.kind, values[p.key])
       /\ Begin(id, TRUE, values)
  /\ UNCHANGED <<phase, store, library, minted, jobs, crashes>>

Linked == {jobs[j].link : j \in Jobs}

DeleteUnread(id) ==
  /\ Idle /\ ui.page = "library"
  /\ id \in listed /\ id \in disk.stored \ Linked
  /\ Write([disk EXCEPT !.stored = @ \ {id}, !.consented = @ \ {id}])
  /\ UNCHANGED <<phase, library, minted, jobs, listed, ui, asked, crashes>>

\* _delete_selected: refused while a job record names the workflow; afterwards
\* both library pages are read again.
Delete(id) ==
  /\ Idle /\ ui.page = "library"
  /\ id \in listed /\ id \in disk.stored \ Linked
  /\ Write([disk EXCEPT !.stored = @ \ {id}, !.consented = @ \ {id}])
  /\ Reread(disk'.stored)
  /\ UNCHANGED <<phase, library, minted, jobs, ui, asked, crashes>>

\* _repeat_history_job reads the record and its template afresh.
RepeatFromHistory(j) ==
  /\ Idle /\ ui.page = "history"
  /\ jobs[j].link \in disk.stored
  /\ Begin(jobs[j].link, TRUE, Defaults(made[jobs[j].link]))
  /\ UNCHANGED <<phase, store, library, minted, jobs, crashes>>

\* Settings are stored one by one; history is pruned when all of them were.
SaveSettings ==
  /\ Idle /\ ui.page = "settings"
  /\ Prune
  /\ UNCHANGED <<phase, store, library, minted, listed, ui, asked, crashes>>

-----------------------------------------------------------------------------
(* A job: intake, plan, execution, and what its results offer. *)

\* _on_job_ready without and with a template waiting for files.
PlanFromScratch(n) ==
  /\ ui.pending = None
  /\ ui' = [ui EXCEPT !.page = "plan", !.job = minted + 1, !.work = EmptyWork(n),
                      !.active = None, !.activeSaved = FALSE, !.edited = FALSE, !.done = FALSE]

RebindTemplate(n) ==
  LET t == made[ui.pending]
      rebound == Instantiate(t, ui.values)
  IN /\ ui.pending # None
     /\ n = t.work.sources
     /\ Acceptable(t, ui.values) /\ WellTyped(rebound)
     /\ ui' = [ui EXCEPT !.page = "plan", !.job = minted + 1, !.work = rebound,
                         !.active = ui.pending, !.activeSaved = ui.pendingSaved,
                         !.pending = None, !.pendingSaved = FALSE, !.values = <<>>,
                         !.edited = FALSE, !.done = FALSE]

ContinueToPlan ==
  /\ Idle /\ ui.page = "intake"
  /\ minted < MaxJobs
  /\ minted' = minted + 1
  /\ \E n \in {w.sources : w \in Works} : PlanFromScratch(n) \/ RebindTemplate(n)
  /\ UNCHANGED <<phase, store, library, jobs, listed, asked, crashes>>

EditPlan ==
  /\ Idle /\ ui.page = "plan"
  /\ \E w \in Works :
       /\ w.sources = ui.work.sources /\ WellTyped(w)
       /\ ui' = [ui EXCEPT !.work = w, !.edited = TRUE]
  /\ UNCHANGED <<phase, store, library, minted, jobs, listed, asked, crashes>>

GoBack ==
  /\ Idle
  /\ \/ ui.page = "plan" /\ ui' = [ui EXCEPT !.page = "intake"]
     \/ ui.page = "results" /\ ~ui.done /\ ui' = [ui EXCEPT !.page = "plan"]
  /\ UNCHANGED <<phase, store, library, minted, jobs, listed, asked, crashes>>

WorkflowId == IF ui.activeSaved THEN ui.active ELSE None

\* start_execution: record_started refuses a terminal record and a change of workflow.
Execute ==
  /\ Idle /\ ui.page = "plan"
  /\ \/ jobs[ui.job].status = "none"
     \/ jobs[ui.job] = [status |-> "running", link |-> WorkflowId]
  /\ jobs' = [jobs EXCEPT ![ui.job] = [status |-> "running", link |-> WorkflowId]]
  /\ ui' = [ui EXCEPT !.page = "results", !.busy = TRUE, !.done = FALSE]
  /\ UNCHANGED <<phase, store, library, minted, listed, asked, crashes>>

\* Its outcome is booked unless the database fails.
ExecutionEnds ==
  /\ phase = "running" /\ ui.busy
  /\ \E status \in Terminal, booked \in BOOLEAN :
       /\ jobs' = [jobs EXCEPT ![ui.job].status = IF booked THEN status ELSE @]
       /\ ui' = [ui EXCEPT !.busy = FALSE, !.done = (status = "succeeded")]
  /\ UNCHANGED <<phase, store, library, minted, listed, asked, crashes>>

Fresh == CHOOSE id \in Ids : id \notin DOMAIN made
With(f, id, x) == [i \in DOMAIN f \union {id} |-> IF i = id THEN x ELSE f[i]]

\* WorkflowTemplate.from_plan with its validation.
Make(name) ==
  /\ DOMAIN made # Ids
  /\ ValidTemplate(FromPlan(ui.work, name))
  /\ made' = With(made, Fresh, FromPlan(ui.work, name))
  /\ reviewed' = With(reviewed, Fresh, ui.work)

\* _save_workflow: one transaction stores the template under a name not yet taken,
\* a second one links the record of the succeeded job.
SaveWorkflow(name) ==
  /\ Idle /\ ui.page = "results" /\ ui.done /\ ~ui.activeSaved
  /\ \A id \in disk.stored : made[id].name # name
  /\ Make(name)
  /\ Write([disk EXCEPT !.stored = @ \union {Fresh}])
  /\ \/ /\ jobs[ui.job] = [status |-> "succeeded", link |-> None]
        /\ jobs' = [jobs EXCEPT ![ui.job].link = Fresh]
        /\ ui' = [ui EXCEPT !.active = Fresh, !.activeSaved = TRUE]
     \/ UNCHANGED <<jobs, ui>>
  /\ UNCHANGED <<phase, minted, listed, asked, crashes>>

\* _repeat_workflow and _repeat_job: the template in use, or one made for this.
RepeatActive ==
  /\ Idle /\ ui.page = "results" /\ ui.done
  /\ ui.active # None
  /\ Begin(ui.active, ui.activeSaved, Defaults(made[ui.active]))
  /\ UNCHANGED <<phase, store, library, minted, jobs, crashes>>

RepeatUnsaved(name) ==
  /\ Idle /\ ui.page = "results" /\ ui.done
  /\ ui.active = None
  /\ Make(name)
  /\ ui' = [ui EXCEPT !.page = "intake", !.job = None, !.work = EmptyWork(1),
                      !.pending = Fresh, !.pendingSaved = FALSE, !.values = Defaults(made'[Fresh])]
  /\ asked' = {}
  /\ UNCHANGED <<phase, store, minted, jobs, listed, crashes>>

-----------------------------------------------------------------------------
(* Specification. *)

User ==
  \/ NewJob
  \/ \E page \in {"library", "history", "settings"} : Show(page)
  \/ \E id \in DOMAIN made : Use(id) \/ Delete(id)
  \/ \E j \in Jobs : RepeatFromHistory(j)
  \/ SaveSettings
  \/ ContinueToPlan
  \/ EditPlan
  \/ GoBack
  \/ Execute
  \/ \E name \in Names : SaveWorkflow(name) \/ RepeatUnsaved(name)
  \/ RepeatActive

Next == Launch \/ Migrate \/ Started \/ User \/ ExecutionEnds \/ Crash

Spec == Init /\ [][Next]_vars

-----------------------------------------------------------------------------
(* Properties. *)

\* Once the program runs, its database has every column and no stored workflow
\* carries an upload consent, wherever an earlier upgrade was interrupted
\* (database.py, "including after a legacy partial migration").
StoreIsUpgraded ==
  phase = "running" => disk.version = CurrentVersion /\ disk.columns = Columns /\ disk.consented = {}

\* A job record never names a workflow that is not stored, although a record is
\* written long after its workflow was chosen and the user may visit the library
\* and delete in between ("A workflow linked to job history cannot be deleted").
LinksResolve == \A j \in Jobs : jobs[j].link # None => jobs[j].link \in disk.stored

\* The library page on screen offers nothing that was deleted.
OffersExist == phase = "running" /\ ui.page = "library" => listed \subseteq disk.stored

Answer(changes, binding, old) ==
  IF \E c \in changes : c.binding = binding
  THEN (CHOOSE c \in changes : c.binding = binding).value ELSE old

\* The work w with nothing changed but what was asked for.
Rebinds(new, w, changes) ==
  /\ new.sources = w.sources
  /\ DOMAIN new.steps = DOMAIN w.steps /\ DOMAIN new.rules = DOMAIN w.rules
  /\ \A i \in DOMAIN w.steps :
       LET old == w.steps[i] IN
       /\ new.steps[i].source = old.source
       /\ new.steps[i].sheet = Answer(changes, Binding("sheet", i, "whole"), old.sheet)
       /\ new.steps[i].columns = Answer(changes, Binding("columns", i, "whole"), old.columns)
       /\ new.steps[i].params = [n \in DOMAIN old.params |->
                                   Answer(changes, Binding("step", i, n), old.params[n])]
  /\ \A i \in DOMAIN w.rules :
       new.rules[i] = [n \in DOMAIN w.rules[i] |->
                         Answer(changes, Binding("rule", i, n), w.rules[i][n])]

\* A plan rebound to new files does what was reviewed when its workflow was saved,
\* in every step and rule, except where the user changed a reuse parameter, and
\* there it does what the user typed.
RebindingKeepsTheReviewedWork ==
  ui.page \in {"plan", "results"} /\ ui.active # None /\ ~ui.edited /\ ~ui.done =>
    Rebinds(ui.work, reviewed[ui.active], asked)
=============================================================================
