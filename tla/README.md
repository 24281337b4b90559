# SheetPilot: formal models

TLA+ models of SheetPilot, the desktop program in `sheetpilot/` that changes
spreadsheets only through a previewed, approved and audited transaction. The
models follow the source line by line in their control and abstract the data to
what the properties tell apart; `PROJECT.json` maps every definition to the lines
it models. TLC checks small instances, TLAPS proves the theorems listed below
for every value of the constants.

## 1. The system

| component | source | state it keeps | operations |
|---|---|---|---|
| job execution | `core/executor.py` | local to one call: digests, backups, working copies, receipts | `execute` |
| atomic publication | `core/atomic_output.py`, `core/no_clobber.py` | files in the output directory and the failed folder | `write`, `quarantine_committed`, `publish_new_file` |
| workspace | `core/workspace.py` | a temporary directory with verified copies | enter, `copy_source`, exit |
| fingerprints, path guard | `security/hashing.py`, `security/path_guard.py` | none | `verify_fingerprint`, `safe_output_path` |
| preview and approval | `core/preview_engine.py` | none; a `PreviewResult` with digests | `generate`, `validate_approval`, `apply_cell_rejections` |
| plan runner | `core/plan_runner.py`, `core/plan_validator.py`, `core/reconciliation.py` | tables with row ids, change records | `run`, `reconcile` |
| operations, engines | `operations/`, `engines/` | none | table transformations, reading and writing of formats |
| backups | `core/backup_service.py` | backup files and manifests, a folder per job | `create_backup`, `list_verified_receipts`, `restore_to_new_file` |
| audit report | `core/audit_report.py` | a JSON file beside the output | `build_audit_report`, `write_audit_report` |
| main window and pages | `ui/main_window.py`, `ui/pages/` | current job, templates in use, the preview shown, the last result, busy flags | signal handlers |
| workers | `ui/workers/` | a cancellation token per worker | `run` on the thread pool |
| history and templates | `storage/`, `ui/pages/persistence_pages.py` | SQLite: jobs, validation summaries, workflow templates, settings; what a library page shows | migrations at start, then one transaction per repository call; save, use, repeat, delete |
| planner | `ai/`, `ui/pages/plan_page.py` | an instruction, the plan text, a proposal with its digest, an approved plan; a prepared provider call | draft by local rules, add a step, edit, approve, prepare, dispatch |
| Excel integration | `integrations/excel_com.py` | an Excel process per action | recalculate, refresh, export, run macro |

How they interact. The intake page analyses files in a worker and fingerprints
them. `prepare_job` mints a job id and binds the plan to the fingerprints; the
plan page edits the plan; the preview worker runs it on the *live* sources. The
user approves; the results page creates a history record and queues an execution
worker, which verifies, backs up, copies and re-runs the plan on private
copies, compares the result with the preview, writes a stage, validates it,
verifies the sources again, publishes, leaves the workspace, and publishes an
audit report, withdrawing the output if it cannot. The worker's one last signal
is handled later by the event loop, which books the outcome.

What is hard:

- *Interleaving.* Source files and the output directory belong to other
  programs too. Every check (fingerprint, free name) is separated from its use.
  In the user interface, worker signals arrive while the user goes on clicking,
  and three pages drive one navigation flag.
- *Failure in the middle.* Each phase can raise, and where an exception goes
  depends on whether the workspace is open and whether the output is published.
  Clean-up operations can fail themselves.
- *Crashes.* Nothing is recovered at start-up; what is on the disk stays. The
  database may be half upgraded.
- *Approvals that go stale.* Between an approval and its use the user may change the
  instruction, the plan, the job or the sheet, and a provider its location.
- *Retries.* A failed job may be approved again under the same job id.

What makes each component correct is stated at its properties in the modules;
the hazards behind them, each at its line, are listed in `PROJECT.json`.

## 2. Modules

| module | role |
|---|---|
| `JobContract` | the abstract specification: what a job promises to the person who approved it |
| `JobExecution` | the transaction: preview, approval, `JobExecutor.execute`, `AtomicOutputWriter`, `publish_new_file`, workspace, backups as one step per source |
| `JobExecutionInvariant` | the inductive invariant, as named parts |
| `JobExecution_proofs` | theorems about `JobExecution` and their proofs |
| `JobOutcomes_proofs` | theorems about how executions end, with their proofs |
| `MCJobExecution` | names and contents for TLC |
| `DesktopSession` | main window, pages, workers and the job history |
| `DesktopSession_proofs` | theorems about `DesktopSession` and their proofs |
| `Tables` | the registered operations as functions on small tables |
| `Tables_proofs` | lemmas about the operations: which rows and columns a result has |
| `ReviewedRun` | the plan runner, the change log, the review and the rejections, the checks before publication, the reconciliation |
| `ReviewedRun_proofs` | theorems about `ReviewedRun` and their proofs |
| `MCReviewedRun` | workbooks, text rewrites, mappings and rules for TLC |
| `PlanReview` | the plan page, the local rules, the planner and its provider calls: drafts, approvals, disclosures |
| `PlanReview_proofs` | theorems about `PlanReview` and their proofs |
| `MCPlanReview` | jobs, instructions, edits and provider answers for TLC |
| `WorkflowLibrary` | the database with its migrations, workflow templates, the library and history pages, rebinding |
| `WorkflowLibrary_proofs` | theorems about the store and the library, with their proofs |
| `WorkflowRebinding_proofs` | the theorems about rebound plans and about types, with their proofs |
| `MCWorkflowLibrary` | plans, parameter values and old databases for TLC |

No variable is shared between modules that model different parts. `JobExecution` and
`DesktopSession` meet at the execution
worker: what `JobExecution` does to files between `begin` and a terminal `pc` is
`WorkerEnds` in `DesktopSession`, which keeps only how it ended. That an
execution whose preview or approval belongs to another plan cannot complete is
`Begin` in the one (digests compared, consent refused) and `sound` in the other.

### JobExecution

One record per concern, indexed by job: `pc` (the phase of `execute`, or the
step inside `write`), `at` (the binding the current loop has reached),
`analysed`, `previewed`, `copied`, `backup` (which contents were fingerprinted,
previewed, copied, backed up), `target` and `staged` (which file is being
written, and whether its `.partial` exists), `holder` (who made the file of each
name in the result directory), `retained` (the failed folder), `workspace`.

Abstractions. The plan is deterministic, so its tables are a function of the vector of
contents it ran on; `Digest` is `digest_tables` of them, or `NoResult` where the plan raises. The
function need not be injective: a trim or a filter makes the same tables of different
contents, and the executor, which compares digests of tables only, then accepts a re-run on
contents other than the previewed ones (`Reproduced`). What a job writes is therefore a
*final*, a pair: the contents copied, and the contents of the preview whose change list says what a
rejection puts back. Four sets of finals say what can stop a job after its approval
without any I/O error: `Applicable` (every rejected change finds its column, and the tables can be
judged), `Acceptable` (every quality rule holds), `Writable` (the output format holds the tables: one
table for a CSV file, no merged cells, no formula that would move) and `Reopenable`
(`validate_output_file` accepts the file). `WriterRefuses` leaves no partial file, since the
writers remove theirs; a result that failed validation meets the same writer, so it may not be
kept.

A fingerprint equals another exactly if the contents are equal (SHA-256 does not
collide). Each iteration of a loop over the
bindings is a step; reading, hashing and copying one file is a step (a mutation
during a read is noticed by `fingerprint_file`, or by the verification of the
copy: it shows as the failure of that step). `consent` says whether plan,
bindings and approval are the ones the preview was generated for, with every
destructive step confirmed. `fresh` is a history variable.

`faults` are the environment failures that can happen in a behaviour, one of the
sets in `FaultSets`, chosen at its start: `io` (any ordinary I/O or library error), `cleanup`,
`quarantine`, `undo` (the three operations that take things back), `crash`. A property
may so speak of the behaviours in which some of them do not happen.

The names satisfy what the code guarantees:
outputs end in csv or xlsx and audits in json, a rejected artifact lives in a
folder named after its job. Nothing forbids two jobs to have one output or audit
name: `safe_output_path` takes the stem of `"<name>.audit"` a second time, so an
audit is `<name>.json`, and `a.csv` and `a.xlsx` share theirs.

### DesktopSession

`shell`, `preview` and `results` are the fields of the three objects that decide
what a click does; `exec` follows each execution worker from the queue to its
*unhandled* last signal, so that the event loop may handle it at any later time.
`history`, `validated`, `linked`, `templates` are the database; a call of a
repository is one transaction which may fail when `StorageFails`. Expired records are removed at
the start (`Restart`) and, in a session, whenever the settings are saved (`SaveSettings`): both
call `Prune`, which takes some of the terminal records with their validation summaries and links. `outcome`
records what the executor really did, which no code reads. The job id of a plan
is not edited by hand in the JSON editor (the editor allows it).

### Tables and ReviewedRun

`Tables` has one operator for each registered operation (for each action of
`columns.transform`, each mode of `duplicates.handle`): a table is a set of
columns and a sequence of rows, a row its cells and the identity that the runner
keeps in the column `_sheetpilot_preview_row_id`. A column has a type, text or number (`texts`),
and so have values: `TextOf` is what polars casts a number to, `NumberIn` the number it
reads in a text, `BlankText` a text of spaces. What an operation does to columns and their types, rows,
their order and their identity is kept; what it does to a text is a rewriting function
(`Rewrites`), a mapping is a function (`Mappings`), `group_total` is a count, and the
order of columns is left out.

`ReviewedRun` follows one workbook through `PlanRunner.run`, one action per kind of
step: `RunStep` is a whole turn of the loop (`Keep`: identities taken over or
allocated, then repaired, the difference logged, tables made beside the result
allocated; `Raise`: the run fails). `tables`, `nextId`, `changes`, `total`, `gates` are the
local variables of the run (`gates` is `validation_reports`, with the table that
was checked, which only a property reads). Then `Approve` chooses the changes to
reject, as `validate_approval` admits them, and `Execute` undoes them in
reverse order (`apply_cell_rejections`; `PutBack` is one turn, with the common type that polars'
when/then/otherwise gives the column: text as soon as the column or the value is text, so that
one rejection may cast a whole column), evaluates the plan's own rules and the
reports of the steps, and reconciles. The second run of the plan is not a second
copy of the state: the executor fails unless its result equals the preview's,
which is `JobExecution`'s subject. `Execute` goes as far as the decision to
publish; from there `JobExecution` takes over, where the rejections that fail appear as finals
not `Applicable`, and the verdict as `Acceptable`.

A table that an action names is any table of the run, also one that an earlier
step made. `StepRaises` stands for every refusal of an operation: a missing column
or target, a conversion under the policy `reject`, a strict merge of unlike tables,
conflicting values in a merge of duplicates. It may happen at every step, so a
property never rests on a step having been accepted. Left out of the types: dates among other
values, the difference between integers and other numbers, and a rule `allowed_values` that raises on a column
of another type.

### PlanReview

Who may change what around an approval. The variables are the fields of `PlanPage`
(`editor`, `instruction`, `sheet`, `generatedFrom`, `canApprove`), the proposal with its
digest and the approval (`proposal`, `digest`, `approved`), and, for callers of `AIPlanner`,
the provider object as it is now, the prepared call and the decision on it. The
application has no provider, so a behaviour is either about the page (`client = "page"`)
or about a caller of the library. `shown` and `sent` are history.

A digest is the value it is the digest of. An instruction is a sequence of clauses, a clause the
set of trigger words the rules look for with the columns it names; each `_build_..._step`
is an operator that gives no draft, one, or `Refused` where the code raises. A step keeps
the columns that its target and parameters mention, whether it destroys data, its sheet and
its dependencies; `_validate_targets`, the plan's own graph validation, the validator and the source
binding of the page are the four checks in `Proposable` and `Valid`. Text that is not a plan is
`NotAPlan`. The redaction of what is disclosed is left out, its level is kept.

`ApprovalIsCurrent` makes a branch of `_request_preview` unreachable: whatever changes the
editor has ended the approval already, so "changed after approval" never shows. On the side of the
library an `ApprovedPlan` is a value its caller keeps: `Dispatch`, which yields a new proposal, leaves an
older one alone.
The approval of a provider request is bound to the request, not to the location of the provider;
`Dispatchable` compares the location with the prepared one, which is why
`NothingLeavesWithoutConsent` holds when the provider moves twice.

### WorkflowLibrary

`disk` is the committed database, `work` what the one connection of a start sees; a
statement that changes the schema is durable at once unless a row was written
before it, which is how Python's `sqlite3` opens transactions. Once the program runs,
every operation is one transaction and the two agree. `made` holds every template ever built, saved or
not, with the work it was built from (`reviewed`); `listed` is the page on screen, `ui` the
fields of main window and results page that say which template waits for files, which is
in use, and what the plan does.

A plan is its `Work`: the number of sources, the steps with sheet, columns and parameters, the rules.
A value keeps its JSON type and one of three contents. `DefaultParameters` visits the parameters in the
code's order and numbers those with one descriptor; `Instantiate` writes values back by binding.
The output name is left out: the intake form supplies it.

The two library pages are instances of one class; the one off screen is read again before it is
shown, so one list is modelled. A search matches all or nothing (`Readings`). Leaving the plan by the
sidebar forgets it, since no control leads back to it. Of the settings only the retention matters.
Preview, approval and the end of an execution are one step each: they are the subject of
`DesktopSession`, whose `templates` and `linked` are the abstraction of this module's `stored` and
`link`.

## 3. Runs

Deadlock is not checked anywhere: a job ends, a user may stop clicking, and the
bounds stop the environment.

| run | instance | what it shows |
|---|---|---|
| `exec_contention` | 2 jobs, 1 source, 2 contents, 2 edits, Windows publication, with and without I/O failures; two output names with *one* audit name; one plan makes the same tables of both contents and breaks a rule on one, the other plan's format does not hold one of its results | nothing unapproved or not backed up is published, no foreign file is touched, a job fails only because of the user, an editor of the source, another holder of its name, or a result that cannot be delivered; refinement of `JobContract` (390,061 states) |
| `exec_faults` | 1 job, 2 sources, 3 contents, 3 edits, POSIX publication; crashes only, with I/O errors, and all failures; a plan that raises, repeats itself, and makes results that are unacceptable, unwritable, or too large | the inductive invariant (which contains the safety properties of the other run), publication of fresh results only, a failed job whose clean-up worked shows nothing, leaves nothing and keeps its work, termination (304,666 states) |
| `exec_cleanup` | 1 job, only `cleanup` | *violated*: see findings |
| `session_flow` | 3 jobs, no restore, restart or database failure | history tells the truth, executions do not overlap, controls are locked, only successful plans are saved, every outcome is booked, every committed result is shown |
| `session_disturbed` | 2 jobs, 1 restore, 1 restart, failing transactions | success records are real, terminal records never change and expire with their summary and link (729,018 states) |
| `session_retry` | 1 job | *violated*: see findings |
| `session_overlap` | 2 jobs, 1 restore | *violated*: see findings |
| `reviewed_run` | two sheets of 2 and 1 rows, a column of numbers and one of texts, plans of up to 3 steps, at most 6 recorded changes and 2 rejections | identities are unique, the log explains the result, a rejection restores the first value or its text and touches nothing else but its column's type, rows balance, rejecting all gives back the source (1,390,124 states) |
| `reviewed_gate` | the same workbook, 2 steps, one rule | *violated*: see findings |
| `reviewed_two_gates` | the same workbook, 2 steps, one rule | *violated*: see findings |
| `plan_review` | 4 jobs (three consents, two sheets with a repeated header), 6 instructions, 3 edited plans, 2 form steps, 6 answers, 2 providers, 2 reviews | approvals are current, a step of the form fits any plan in the editor, proposals stay inside the analysis, the preview follows the instruction, nothing is sent without review and consent |
| `workflow_library` | a new database and one half upgraded, 3 plans, 2 templates, 2 jobs, 1 crash | the upgrade completes, links resolve, the library offers what exists, a rebound plan is the reviewed one but for the user's changes |

Why the bounds are enough. Two contents are all a verification can tell apart
(analysed or not), and edits back and forth are possible with two edits; with two sources a third
content is one the plan raises on. The finals of an instance are chosen so that each of the four
sets is missed by some final that a behaviour reaches. Two
sources show every position of a loop (first, last, both sides of an edit); a
third adds nothing the invariants mention. Two jobs suffice for a conflict over
a name since `FilesKept`, `Unstranded` and the contract relate a job to one name.
In the session three jobs give one job running, one repeated from it and one
more after that; two are enough when a restore or restart is added.

In `reviewed_run` the two sheets repeat a key within a sheet, leave a cell
blank, and can be merged in either order and with themselves, so that an
identity can occur twice; three steps are a change, a change of the same cell, and a
move of the row (or a split of what was merged). The texts are those of the numbers, a word and a blank one; a
rewriting takes the text of 1 to the word and the word to blank, a mapping takes it to the text of 2, so the
same cell can change twice and become text, number and text again.
Six records are fewer than three
steps can make, so the log is cut off in some runs, at every place in a step's
records, and complete in most. A run without cut-off is what `LogExplainsResult` and
`RejectingAllRestoresSource` need; `TypeOK` and the others hold in all.

In `plan_review` the instructions are understood, ambiguous in two ways, refused, and partly understood; the
edited plans are valid, aimed at a column that does not exist, and dependent on a disabled step; the answers
break each check once. Approval properties relate at most two instructions, two plans and two jobs,
and a request differs from another in provider, level or samples; two reviews are one request and another
one. In `workflow_library` two templates are one in use and one to be deleted or saved, two jobs
one linked and one about to be, and the crash may come between any two statements. The step of one plan
has two groupings and a column list with one value, so that a value bound by name
or descriptor alone would land elsewhere; the other plan uses its files in reverse.

The theorems need none of these bounds.

Fairness. `JobExecution`: weak fairness of `Execute(j)`: a worker thread that runs
an execution keeps running. Nothing is assumed of previews, approvals (a user
may never decide), editors or crashes. `DesktopSession`: weak fairness of
`Execution(j)`: the thread pool runs a queued worker and the event loop
handles an emitted signal. The user, the analysis, previews and restores owe
nothing. `EveryExecutionEnds`, `EveryOutcomeIsBooked` and `CommittedResultIsShown` rest on
these. `ReviewedRun`, `PlanReview` and `WorkflowLibrary` assume none and have only safety
properties: a run's phases are sequential calls, and what the plan and library pages do next is the
user's choice.

## 4. Findings

1. *A failed job can leave its output on display* (`exec_cleanup`). The output is
   published inside the `with IsolatedWorkspace` block. If the temporary directory
   cannot be removed, the exception leaves `execute` before the audit is built and
   outside the `try` that withdraws the output. `SPECIFICATION.md` lists cleaning up
   after the audit (13. Execution workflow, steps 12 to 14) and demands that failed
   jobs do not produce misleading output.
2. *A failed job cannot be retried* (`session_retry`). The page sends the user back
   to the preview, but the job's terminal record refuses a second start.
3. *A restore unlocks a running execution's controls* (`session_overlap`). One
   boolean signal serves restore and execution. Afterwards executions may overlap
   and a failure may be booked against another job.
4. *A gated sheet can be published with a value that breaks its rule*
   (`reviewed_gate`). The report of a `quality.validate` step is made while the plan
   runs; the reviewer's rejections are applied afterwards, and only the top-level
   rules of the primary table are evaluated again. The README recommends such a step
   for every additional sheet "that must gate publication". The run: a step
   cleans a column, a second step gates it, the reviewer rejects one of the first
   step's changes.
5. *Two sheets of a workbook cannot both be gated* (`reviewed_two_gates`). Each
   `quality.validate` step makes a table called `Validation Issues` for its workbook, and
   the runner refuses a name that exists. `Duplicates` and `Summary Statistics` have
   the same limit.

Three observations that no document contradicts: inside a plan step the rule
`blank_rows` can never fail, because the identity column is never blank
(`RowsBreaking`); a rejected change is undone in the sheet it was recorded for,
not in a sheet to which a later merge or split copied the value (`RejectionIsLocal`);
and the changes of a sheet's columns are logged row by row, so a sheet without rows
can gain or lose a column and the log says nothing of it. The attempt to prove
`RejectingAllRestoresSource` showed the last: a log without records does not mean an
unchanged workbook, and the property speaks of workbooks whose sheets have rows.

Two differences between comments in the code and what it does shaped properties of passing runs:

- *A preview can be of contents that are not the source's.* `PreviewEngine` is said to bind a preview to
  plan, source and output (`preview_engine.py:174`). It reads
  the live files (`:185`) between two looks at their fingerprints; a file changed and changed back in
  between passes both. The re-run is compared with the preview by the tables' digest alone
  (`executor.py:268`), so a plan that makes the same tables of both contents goes on, and a rejected change puts a
  value of the other contents into the output. `JobExecution` has these behaviours: with two edits a job whose
  plan makes the same tables of `a` and `b` publishes the final `<<a, b>>`. `OutputIsWhatWasApproved` therefore
  promises the analysed contents and the previewed digest, not the previewed contents.
- *A rejection need not restore the value.* A comment promises "the value that existed before the earliest
  rejected edit" (`preview_engine.py:259`). The column takes the common type of the value and the
  column (`:274`): after a step that made numbers text, a rejected cell gets its number back as text, and the
  reconciliation counts its row as changed; after a step that made texts numbers, the rejected cell gets its
  text back and all other numbers of the column become texts. `RejectionRestoresFirstValue`, `RejectionIsLocal`
  and `RejectingAllRestoresSource` say what does hold.

Two more from planning and reuse, without a run:

- `docs/planning-and-privacy.md:24` says that "an unknown or partially understood clause rejects the whole
  draft". A clause with one recognised request and words no rule knows is accepted (`Understood`
  asks for exactly one kind of step, `rule_based_parser.py:342`); the reviewer sees the plan
  before approving it. `PreviewFollowsTheInstruction` says what does hold.
- A plan with an explicitly empty `group_by` cannot become a workflow (`ValidTemplate`); saving
  reports it, but Repeat builds its template outside any `try` (`results_page.py:501`).
  If linking fails after the template was stored, the template stays, its name is taken, and the page offers to
  save again (`SaveWorkflow`).

## 5. Proofs

`JobExecution_proofs` proves, for any number of jobs, sources and contents, any
names that satisfy the assumptions, both platforms and any sets of failures:

- `TypeCorrect`, `InductiveInvariant`, `OnlyApprovedOutput`, `BackupsComeFirst`, `NoStaleSource`,
  `OthersFilesStay`;
- `FailuresShowNothing`, about every behaviour whose failures leave the operations that
  take files back working (`Recoverable`);
- and, if that is so in all behaviours (`AlwaysRecoverable`), `JobKeepsItsContract`.

Assumptions: the `ASSUME`s of `JobExecution` (at least one source; distinct sentinel
values; a digest for every vector of contents and sets of finals, nothing else being known of
the plan; the disjointness of names that the extensions and the per-job folder
give; the sets of platforms and failures). TLC evaluates them in every run.

The argument. None of the safety properties is inductive: that an output was
computed from the analysed contents is established by the copy loop, long
before the publication, and must survive every step between. `Inductive` adds
to the properties what each phase has established (`ConsentHolds`,
`BackupProgress`, `CopyProgress`, `ResultApproved` (the re-run had the preview's digest),
`PrecommitProgress`: "the
bindings the loop has passed"), that loops start at the first binding
(`LoopStarts`), which file is being written at which step (`TargetOfStep`), from
which step on an output can be visible (`VisibleSince`) and that a job undoes
only what is its own (`OwnsWhatItUndoes`). `JobInvStep` proves one step per
action; `Unstranded` strengthens it for the last two theorems; `ContractStep`
maps each action to a contract step or a stutter. `exec_faults` checks `Inductive`
as an invariant.

`PlanReview_proofs` proves, for any jobs, instructions, edited plans, form steps, answers and
providers, `ApprovalsStayCurrent`, `ProposalsStayInside`, `PreviewsFollowTheInstruction`,
`SendingNeedsReview`, `SendingNeedsConsent`, `FormStepsFit` and `TypeCorrect`, assuming `JobsAssumption` (a job has
at least one sheet, and instructions are sequences of clauses) and, for the last two, `PlansAssumption` (what is
typed, analysed or answered parses to typed values). The invariant adds to the properties that the digest, not the
mutable proposal, is what passed `TargetsAnalysed`, that a generated plan follows the instruction
it was drafted from even when another one stands in the field now, that what is handed to the preview
equals the editor and, if generated, the approval, and that a prepared call had the consents its level and
its recorded location need. What a clause's drafts can be is proved family by family.
`FormStepsFit` (`AddedStepsFit`) is about data: among the `Len + 1` numbers the form tries, one is
free (`SomeNumberIsFree`, a pigeonhole argument), there is a first one (`LeastNumber`, from the
well-foundedness of the numbers), and with it the plan stays well formed (`AddedStepFits`).
`TypeCorrect` (`TypeOK`) needs that last lemma for the form, and for the two planners that what
passes `Allowed` and `TargetsAnalysed` mentions registered operations and analysed columns only
(`DraftTyped`).

`WorkflowLibrary_proofs` proves `UpgradesAreCompleted`, `LinksAlwaysResolve` and
`LibraryOffersWhatExists` for any legacy databases, plans, names, bounds and number of crashes,
from `LegacyAssumption`. The invariant: a database whose version is past the second
migration has every column, one past the third no consent, on the disk and in the open transaction alike
(`Upgrade`); the saved template that waits for files while the intake page is shown, or is in use
while the plan or the results are, is stored (`Chosen`), which is so because no way leads from the library, where
workflows are deleted, back to a plan; and links resolve. None of the three properties is inductive alone: a record is
written long after its workflow was chosen.

`WorkflowRebinding_proofs` proves `ReboundPlansAreReviewed`
(`RebindingKeepsTheReviewedWork`) from the same invariant and two more parts.
About data: every reuse parameter of a template stands for one place of the work it was
made of (`ParametersBound`), no two for the same (`ParametersOnly`), so what `instantiate` writes
to a place is what the user sees changed there, or what was there (`GivenWhereAsked`,
`InstantiateRebinds`). Template validation matters for one thing: with unique keys the defaults a
repetition offers change nothing (`DefaultsChangeNothing`).
About the pages: a template is what was made of the plan reviewed (`Templates`), and from the choice of a workflow to its
files what the user typed stays with it (`Course`). A succeeded job never leads back
to its plan, which is why the property, stated for plans not yet carried out, is kept
by the end of an execution. `TypeCorrect` (`TypeOK` of `WorkflowLibrary`) comes last because
it needs both: what a page shows is a plan only if the template it came from is well formed
(`FromPlanTyped`) and the values typed for it are values (`EditsTyped`, kept from the page
where they are typed to the page that uses them), so that `instantiate` gives a plan again
(`InstantiateTyped`).

`JobOutcomes_proofs` is about how executions end: `EndedJobsAreTidy` (`NothingIsLeftBehind`),
`FailuresAreRetained` (`FailedWorkIsRetained`) and `FailuresHaveACause` (`FailsOnlyForCause`), from the same
assumptions. Each has an invariant of its own on top of `Inductive`. `Tidy`: a partial file exists
only at the steps that write, publish or remove it, a workspace only until the output is out or the job gives up.
`Careful => Retaining` says which of the two branches of the clean-up a job is in and what it has
kept so far; a result that failed validation is kept only if the writer takes it (`CanWrite`). `Uneventful => Untouched /\ Doomed`: as long as nothing but a crash can happen, what the job depends on is as
it was analysed, and a job on its way to failure has a cause that no later step takes away (`CauseStays`). With no edit the
re-run, the preview and the analysis are of the same contents, so a refused, unacceptable or
unwritable result is one the plan makes of what was analysed (`Deliverable`). The
difficult case is the name taken by somebody who gives it back, which only a job with the same
output name does (`TakenBack`).

`DesktopSession_proofs` proves, for any number of jobs, restores and restarts and whether or not the
database fails, `TypeCorrect`, `TerminalRecordsStay` (`TerminalIsForever`: it says as well what goes when a record
expires) and `SuccessesAreReal` (`SuccessIsReal`: a job recorded as succeeded, or with a summary,
has the outcome the executor gave it, in the database and on the way to it).
`HistoryTellsTheTruth`, `OneExecutionAtATime`, `ConflictingControlsDisabled` and `SavedPlansSucceeded` fail once a
restore from the history page has run during an execution, which is the finding
`session_overlap`. They are proved of every state before the first restore (`restores = 0 => ...`), in the
behaviours that the code's guards are meant for. The invariant (`Undisturbed`): while a worker runs, the controls are locked
in exactly the way its kind requires (`Locked`), so the job on the page is the one
that executes (`CurrentIsOpen`), the record of an execution under way is still open (`ExecutionIsOpen`), and
the buttons of a finished job are offered only for one that succeeded (`ExtrasAreEarned`). None of the four is
inductive: each depends on which page another worker's end leads to.

`ReviewedRun_proofs` proves all seven properties of the run `reviewed_run`, for any workbooks,
rewrites, mappings and rules, plans and logs of any length and any number of rejections: `TypeCorrect`,
`IdentitiesStayUnique` (`RowIdsUnique`), `RejectionsStayLocal` (`RejectionIsLocal`), `FirstValuesComeBack`
(`RejectionRestoresFirstValue`), `CountsBalance` (`RowCountsBalance`), `LogTellsTheWholeRun`
(`LogExplainsResult`) and `RejectingAllGivesTheSourceBack` (`RejectingAllRestoresSource`). The assumptions: columns are
finitely many (`BoundsAssumption`), a workbook has a worksheet and its worksheets are tables without
identities (`InputsAssumption`), a rewrite or mapping takes values to values (`ValuesAssumption`), and
texts and numbers are apart (`TypesAssumption`).

- `Tables_proofs` shows of each operation that its result is a table whose rows come from its
  input's rows (`From`): it invents no identity. That is all the runner relies on.
- The invariant `Inv` has three parts. `Identities`: in the source, the tables of the run and the result, rows have
  distinct identities below `nextId`. `Recorded`: a change is about a table of the run and an identity handed
  out, and the log keeps its limit. `Reviewed`: the result is what undoing the rejections makes of the tables, the report
  what the reconciliation makes of the result. `Grows` is what one kept turn of the loop does, so that each
  of the seventeen kinds of step is one case of one lemma.
- `LogExplainsResult` needs `Explained`: at every step of the run, a log that was not cut off leads from the source to the
  tables as they are. Its step says that the differences of one turn tell each cell (`Tells`): of the records of
  one turn about one cell, the last one gives the new value, and a cell without one has kept its value.
- `RejectingAllRestoresSource` needs `Traced`: as long as only cells changed, every row stands where it stood
  (`Unmoved`), and the first record of a cell starts from the source's value (`FromSource`).
- Rejections are undone last to first; what that does to a cell (`Unwound`, `Settles`) is that the
  earliest rejected record decides, and that a cell nobody rejected keeps its value, either as it is or, when a
  rejection in its column made the column text, as its text. A cast after a cast changes nothing more.

The loops are recursive functions (`Repairs`, `Allocations`, `Undone`). What they return is shown by a least
counterexample among the turns (`CountingUp`), since the library's induction theorems are out of reach of
the installed provers. `Beside` stands where `@@` could, which the proof system does not expand.

Only model-checked: everything under fairness (the proof system does not reason
about `ENABLED`): `EveryExecutionEnds`, `EveryOutcomeIsBooked`, `CommittedResultIsShown`.
Every invariant and action property of a passing run is proved. The five violated properties are
false, as §4 says.

## 6. Plan

In this order, the most important first:

Done, in this order: the transaction with its contract and theorems; the desktop
session; the plan runner with the operations, the review and the reconciliation; the
planning of a job with its approvals and disclosures; the metadata database and the
reusable workflows. Each has its theorems.

Left, the most important first:

1. *`BackupStore`*, from `core/backup_service.py`: create, list and restore one file at
   a time, a manifest per receipt, crashes between the copy and its manifest,
   damaged or missing files, a destination that exists. It would refine the one-step
   backup of `JobExecution`.
2. *`ExcelSession`*, from `integrations/excel_com.py`: the process behind an action, its
   timeout, the order of restoring settings, closing and quitting when any of
   them fails; no process survives an action, no user's workbook is saved.
3. *Multi-workbook plans* in `ReviewedRun`: steps with dependencies, disabled steps,
   totals compared by the reconciliation, one gate with `blank_rows`; the union of
   rows in a fuzzy review.
4. *Upgrade of the installed source* (`scripts/`), if its steps turn out to have
   more than one order.

## 7. Not modelled, and why

- The bytes of spreadsheets and the format engines: sequential computations by
  polars, openpyxl and xlsxwriter. Of the operations, the parsing of dates and
  numbers, the text actions and the arithmetic: `Tables` keeps what they do to rows,
  columns and identity. Review of fuzzy duplicates, which only proposes groups.
- Plans over several workbooks, disabled steps and dependencies between steps.
  `PlanReview` has the static validation of a plan (`core/plan_validator.py`) for the
  steps the request parser writes, which name one workbook and depend on nothing.
- Hash collisions, path resolution and symbolic links, the sanitising of names.
- A published output removed by another program before its audit is written.
- Clock values: retention and the `updated_at` comparison appear as "may be
  expired" and "the transaction may fail".
- Input guards, configuration, logging, theme, self tests, packaging scripts.
