---------------------------- MODULE DesktopSession ----------------------------
(***************************************************************************)
(* One desktop session of SheetPilot: the main window and its pages        *)
(* (sheetpilot/ui), the workers they start on the thread pool, and the job *)
(* history the results page keeps in the metadata database                 *)
(* (sheetpilot/storage).                                                   *)
(*                                                                         *)
(* The user clicks whatever is enabled.  A worker runs beside the user     *)
(* interface and its last signal is handled by the event loop some time    *)
(* after it was emitted.  What an execution does to files is JobExecution; *)
(* here it completes, fails or is cancelled.                               *)
(***************************************************************************)
EXTENDS Naturals, FiniteSets

CONSTANTS
  MaxJobs,       \* bound on the jobs a user prepares
  MaxRestores,   \* bound on the backup restores a user starts
  MaxRestarts,   \* bound on the times the program dies and is started again
  StorageFails   \* whether a history or workflow transaction may fail

ASSUME BoundsAssumption ==
  MaxJobs \in Nat /\ MaxRestores \in Nat /\ MaxRestarts \in Nat /\ StorageFails \in BOOLEAN

NoJob == 0
Jobs == 1 .. MaxJobs
MaybeJob == Jobs \union {NoJob}

VARIABLES
  shell,      \* MainWindow: page, nav (sidebar enabled), current job, templates in use
  analysis,   \* the intake page's background analysis: none, running, ready
  preview,    \* PreviewPage: its plan, the preview it shows, its workers, busy flag
  results,    \* ResultsPage
  exec,       \* the execution worker of each job, up to its unhandled last signal
  stop,       \* its cancellation token is set
  sound,      \* its preview and its approval belong to its plan
  restoring,  \* running restore workers
  minted,     \* job ids given out
  history,    \* status of the job's record
  validated,  \* a validation summary is stored for it
  linked,     \* its record names a saved workflow
  templates,  \* jobs whose plan was saved as a workflow
  outcome,    \* history variable: what the executor really did
  restores, restarts  \* bounded by MaxRestores, MaxRestarts

workerVars == <<exec, stop, sound, outcome>>
storedVars == <<history, validated, linked, templates>>
bounds == <<restores, restarts>>
vars == <<shell, analysis, preview, results, workerVars, restoring, minted, storedVars, bounds>>

Pages == {"analysis", "plan", "preview", "results", "library", "settings"}
TemplateKinds == {"none", "adhoc", "saved"}
Pending == {"completed", "failed", "cancelled"}
Recorded == {"succeeded", "failed", "cancelled"}

TypeOK ==
  /\ shell \in [page : Pages, nav : BOOLEAN, current : MaybeJob,
                pending : TemplateKinds, active : TemplateKinds]
  /\ analysis \in {"none", "running", "ready"}
  /\ preview \in [plan : MaybeJob, shown : MaybeJob, workers : SUBSET Jobs, busy : BOOLEAN]
  /\ results \in [plan : MaybeJob, shown : MaybeJob, started : BOOLEAN, saved : BOOLEAN,
                  token : MaybeJob, cancel : BOOLEAN, back : BOOLEAN, extras : BOOLEAN,
                  restorable : BOOLEAN, restore : BOOLEAN]
  /\ exec \in [Jobs -> {"idle", "queued", "running"} \union Pending]
  /\ stop \in [Jobs -> BOOLEAN]
  /\ sound \in [Jobs -> BOOLEAN]
  /\ restoring \in 0 .. MaxRestores
  /\ minted \in 0 .. MaxJobs
  /\ history \in [Jobs -> {"none", "running"} \union Recorded]
  /\ validated \in [Jobs -> BOOLEAN]
  /\ linked \in [Jobs -> BOOLEAN]
  /\ templates \subseteq Jobs
  /\ outcome \in [Jobs -> {"none", "lost"} \union Pending]
  /\ restores \in 0 .. MaxRestores
  /\ restarts \in 0 .. MaxRestarts

FreshShell ==
  [page |-> "analysis", nav |-> TRUE, current |-> NoJob, pending |-> "none", active |-> "none"]
FreshPreview == [plan |-> NoJob, shown |-> NoJob, workers |-> {}, busy |-> FALSE]
FreshResults ==
  [plan |-> NoJob, shown |-> NoJob, started |-> FALSE, saved |-> FALSE, token |-> NoJob,
   cancel |-> FALSE, back |-> TRUE, extras |-> FALSE, restorable |-> FALSE, restore |-> TRUE]

Init ==
  /\ shell = FreshShell
  /\ analysis = "none"
  /\ preview = FreshPreview
  /\ results = FreshResults
  /\ exec = [j \in Jobs |-> "idle"]
  /\ stop = [j \in Jobs |-> FALSE]
  /\ sound = [j \in Jobs |-> FALSE]
  /\ restoring = 0
  /\ minted = 0
  /\ history = [j \in Jobs |-> "none"]
  /\ validated = [j \in Jobs |-> FALSE]
  /\ linked = [j \in Jobs |-> FALSE]
  /\ templates = {}
  /\ outcome = [j \in Jobs |-> "none"]
  /\ restores = 0
  /\ restarts = 0

\* Whether a database transaction commits.
Commits == IF StorageFails THEN BOOLEAN ELSE {TRUE}

-----------------------------------------------------------------------------
(* Intake and plan. *)

\* AnalysisPage.reset_job keeps a running analysis.
ResetAnalysis == analysis' = IF analysis = "running" THEN analysis ELSE "none"

NewJob ==
  /\ shell.nav
  /\ shell' = FreshShell
  /\ ResetAnalysis
  /\ UNCHANGED <<preview, results, workerVars, restoring, minted, storedVars, bounds>>

OpenLibrary ==
  /\ shell.nav
  /\ shell' = [shell EXCEPT !.page = "library"]
  /\ UNCHANGED <<analysis, preview, results, workerVars, restoring, minted, storedVars, bounds>>

OpenSettings ==
  /\ shell.nav
  /\ shell' = [shell EXCEPT !.page = "settings"]
  /\ UNCHANGED <<analysis, preview, results, workerVars, restoring, minted, storedVars, bounds>>

\* _begin_workflow: the next analysed files are bound to a template.
BeginWorkflow(kind) ==
  /\ shell' = [shell EXCEPT !.current = NoJob, !.pending = kind, !.page = "analysis"]
  /\ ResetAnalysis
  /\ UNCHANGED <<preview, results, workerVars, restoring, minted, storedVars, bounds>>

\* From the workflow library, the template page or a job's history record.
RunSavedWorkflow ==
  /\ shell.page = "library"
  /\ templates # {}
  /\ BeginWorkflow("saved")

StartAnalysis ==
  /\ shell.page = "analysis"
  /\ analysis # "running"
  /\ analysis' = "running"
  /\ shell' = [shell EXCEPT !.nav = FALSE]
  /\ UNCHANGED <<preview, results, workerVars, restoring, minted, storedVars, bounds>>

AnalysisEnds ==
  /\ analysis = "running"
  /\ analysis' \in {"ready", "none"}
  /\ shell' = [shell EXCEPT !.nav = TRUE]
  /\ UNCHANGED <<preview, results, workerVars, restoring, minted, storedVars, bounds>>

\* prepare_job gives the job its id; a pending template becomes the active one.
ContinueToPlan ==
  /\ shell.page = "analysis"
  /\ analysis = "ready"
  /\ minted < MaxJobs
  /\ minted' = minted + 1
  /\ shell' = [shell EXCEPT !.page = "plan", !.current = minted + 1,
                            !.active = shell.pending, !.pending = "none"]
  /\ UNCHANGED <<analysis, preview, results, workerVars, restoring, storedVars, bounds>>

GoBack ==
  /\ \E to \in Pages :
       /\ \/ shell.page = "plan" /\ to = "analysis"
          \/ shell.page = "preview" /\ to = "plan" /\ ~preview.busy
          \/ shell.page = "results" /\ to = "preview" /\ results.back
       /\ shell' = [shell EXCEPT !.page = to]
  /\ UNCHANGED <<analysis, preview, results, workerVars, restoring, minted, storedVars, bounds>>

-----------------------------------------------------------------------------
(* Preview. *)

\* PreviewPage.load_plan discards the preview it showed; busy_changed is emitted
\* only when the flag changes.
RequestPreview ==
  /\ shell.page = "plan"
  /\ shell.current # NoJob
  /\ preview' = [plan |-> shell.current, shown |-> NoJob,
                 workers |-> preview.workers \union {shell.current}, busy |-> TRUE]
  /\ shell' = [shell EXCEPT !.page = "preview", !.nav = IF preview.busy THEN @ ELSE FALSE]
  /\ UNCHANGED <<analysis, results, workerVars, restoring, minted, storedVars, bounds>>

\* Completed, failed or cancelled: the page does not ask whose preview it is.
PreviewEnds(j) ==
  /\ j \in preview.workers
  /\ \E shown \in {j, preview.shown} :
       preview' = [preview EXCEPT !.shown = shown, !.workers = @ \ {j}, !.busy = FALSE]
  /\ shell' = [shell EXCEPT !.nav = IF preview.busy THEN TRUE ELSE @]
  /\ UNCHANGED <<analysis, results, workerVars, restoring, minted, storedVars, bounds>>

-----------------------------------------------------------------------------
(* Execution and its history record. *)

Requested(j) ==
  /\ shell.page = "preview"
  /\ preview.shown # NoJob
  /\ shell.current = j /\ j # NoJob

StartedResultsKept(j, started) ==
  [results EXCEPT !.plan = j, !.started = started,
                  !.saved = (shell.active = "saved"), !.token = IF started THEN j ELSE @,
                  !.cancel = started, !.back = ~started, !.restore = TRUE]

\* What ResultsPage.start_execution forgets of the previous execution.
StartedResults(j, started) ==
  [results EXCEPT !.plan = j, !.shown = NoJob, !.started = started,
                  !.saved = (shell.active = "saved"), !.token = IF started THEN j ELSE @,
                  !.cancel = started, !.back = ~started, !.extras = FALSE,
                  !.restorable = FALSE, !.restore = TRUE]

StartOverwriting(j) ==
  /\ Requested(j)
  /\ history' = [history EXCEPT ![j] = "running"]
  /\ linked' = [linked EXCEPT ![j] = (shell.active = "saved")]
  /\ results' = StartedResults(j, TRUE)
  /\ shell' = [shell EXCEPT !.page = "results", !.nav = FALSE]
  /\ exec' = [exec EXCEPT ![j] = "queued"]
  /\ stop' = [stop EXCEPT ![j] = FALSE]
  /\ sound' = [sound EXCEPT ![j] = (preview.shown = j /\ preview.plan = j)]
  /\ UNCHANGED <<analysis, preview, outcome, restoring, minted, validated, templates, bounds>>

StartUnlocked(j) ==
  /\ history[j] \in {"none", "running"}
  /\ Requested(j)
  /\ history' = [history EXCEPT ![j] = "running"]
  /\ linked' = [linked EXCEPT ![j] = (shell.active = "saved")]
  /\ results' = StartedResults(j, TRUE)
  /\ shell' = [shell EXCEPT !.page = "results", !.nav = TRUE]
  /\ exec' = [exec EXCEPT ![j] = "queued"]
  /\ stop' = [stop EXCEPT ![j] = FALSE]
  /\ sound' = [sound EXCEPT ![j] = (preview.shown = j /\ preview.plan = j)]
  /\ UNCHANGED <<analysis, preview, outcome, restoring, minted, validated, templates, bounds>>

\* record_started refuses a terminal record, and a running one whose workflow
\* would change; then the worker is queued.
StartExecution(j) ==
  /\ history[j] \in {"none", "running"}
  /\ history[j] = "running" => linked[j] = (shell.active = "saved")
  /\ StartOverwriting(j)

\* The history record cannot be created: nothing is executed.
ExecutionRefused(j) ==
  /\ Requested(j)
  /\ history[j] \in Recorded \/ StorageFails
  /\ results' = StartedResults(j, FALSE)
  /\ shell' = [shell EXCEPT !.page = "results", !.nav = TRUE]
  /\ UNCHANGED <<analysis, preview, workerVars, restoring, minted, storedVars, bounds>>

CancellationUnlocks ==
  /\ shell.page = "results"
  /\ results.cancel /\ results.token # NoJob
  /\ stop' = [stop EXCEPT ![results.token] = TRUE]
  /\ results' = [results EXCEPT !.cancel = FALSE]
  /\ shell' = [shell EXCEPT !.nav = TRUE]
  /\ UNCHANGED <<analysis, preview, exec, sound, outcome, restoring, minted, storedVars, bounds>>

\* The button acts on the token of the latest worker.
RequestCancellation ==
  /\ shell.page = "results"
  /\ results.cancel /\ results.token # NoJob
  /\ stop' = [stop EXCEPT ![results.token] = TRUE]
  /\ results' = [results EXCEPT !.cancel = FALSE]
  /\ UNCHANGED <<shell, analysis, preview, exec, sound, outcome, restoring, minted,
                 storedVars, bounds>>

\* ExecutionWorker.run looks at the token once, before the transaction.
WorkerBegins(j) ==
  /\ exec[j] = "queued"
  /\ exec' = [exec EXCEPT ![j] = IF stop[j] THEN "cancelled" ELSE "running"]
  /\ outcome' = [outcome EXCEPT ![j] = IF stop[j] THEN "cancelled" ELSE "none"]
  /\ UNCHANGED <<shell, analysis, preview, results, stop, sound, restoring, minted,
                 storedVars, bounds>>

WorkerEndsCancelled(j) ==
  /\ exec[j] = "running"
  /\ \E end \in (IF sound[j] THEN {"completed", "failed"} ELSE {"failed"}) :
       /\ exec' = [exec EXCEPT ![j] = IF stop[j] THEN "cancelled" ELSE end]
       /\ outcome' = [outcome EXCEPT ![j] = end]
  /\ UNCHANGED <<shell, analysis, preview, results, stop, sound, restoring, minted,
                 storedVars, bounds>>

\* The executor refuses a preview or an approval of another plan.
WorkerEnds(j) ==
  /\ exec[j] = "running"
  /\ \E end \in (IF sound[j] THEN {"completed", "failed"} ELSE {"failed"}) :
       /\ exec' = [exec EXCEPT ![j] = end]
       /\ outcome' = [outcome EXCEPT ![j] = end]
  /\ UNCHANGED <<shell, analysis, preview, results, stop, sound, restoring, minted,
                 storedVars, bounds>>

\* The record only changes while it is running; an error is swallowed.
Book(j, status) ==
  IF results.started /\ j # NoJob
  THEN \E ok \in Commits :
         history' = [history EXCEPT ![j] = IF ok /\ @ = "running" THEN status ELSE @]
  ELSE UNCHANGED history

OnCompletedBookingPage(j) ==
  /\ exec[j] = "completed"
  /\ exec' = [exec EXCEPT ![j] = "idle"]
  /\ Book(results.plan, "succeeded")
  /\ results' = [results EXCEPT !.shown = j, !.started = FALSE, !.cancel = FALSE,
                                !.back = FALSE, !.extras = TRUE, !.restorable = TRUE]
  /\ shell' = [shell EXCEPT !.nav = TRUE]
  /\ UNCHANGED <<analysis, preview, stop, sound, outcome, restoring, minted, validated, linked,
                 templates, bounds>>

\* _on_completed books the success of the job the worker ran, its validation
\* summary in a second transaction.
OnCompleted(j) ==
  /\ exec[j] = "completed"
  /\ exec' = [exec EXCEPT ![j] = "idle"]
  /\ Book(j, "succeeded")
  /\ \E ok \in Commits :
       validated' = [validated EXCEPT ![j] =
                       @ \/ (ok /\ history[j] = "running" /\ history'[j] = "succeeded")]
  /\ results' = [results EXCEPT !.shown = j, !.started = FALSE, !.cancel = FALSE,
                                !.back = FALSE, !.extras = TRUE, !.restorable = TRUE]
  /\ shell' = [shell EXCEPT !.nav = TRUE]
  /\ UNCHANGED <<analysis, preview, stop, sound, outcome, restoring, minted, linked,
                 templates, bounds>>

\* _on_failed_with_backups and _on_cancelled book whatever job the page shows.
OnFailed(j) ==
  /\ exec[j] = "failed"
  /\ exec' = [exec EXCEPT ![j] = "idle"]
  /\ Book(results.plan, "failed")
  /\ \E backups \in BOOLEAN :
       results' = [results EXCEPT !.started = FALSE, !.cancel = FALSE, !.back = TRUE,
                                  !.restorable = backups]
  /\ shell' = [shell EXCEPT !.nav = TRUE]
  /\ UNCHANGED <<analysis, preview, stop, sound, outcome, restoring, minted, validated,
                 linked, templates, bounds>>

OnCancelledForgetting(j) ==
  /\ exec[j] = "cancelled"
  /\ exec' = [exec EXCEPT ![j] = "idle"]
  /\ results' = [results EXCEPT !.started = FALSE, !.cancel = FALSE, !.back = TRUE]
  /\ shell' = [shell EXCEPT !.nav = TRUE]
  /\ UNCHANGED <<analysis, preview, stop, sound, outcome, restoring, minted, storedVars, bounds>>

OnCancelled(j) ==
  /\ exec[j] = "cancelled"
  /\ exec' = [exec EXCEPT ![j] = "idle"]
  /\ Book(results.plan, "cancelled")
  /\ results' = [results EXCEPT !.started = FALSE, !.cancel = FALSE, !.back = TRUE]
  /\ shell' = [shell EXCEPT !.nav = TRUE]
  /\ UNCHANGED <<analysis, preview, stop, sound, outcome, restoring, minted, validated,
                 linked, templates, bounds>>

-----------------------------------------------------------------------------
(* What the results page offers afterwards. *)

RestoreBackup ==
  /\ shell.page = "results"
  /\ results.restorable /\ results.restore
  /\ restores < MaxRestores
  /\ restores' = restores + 1
  /\ restoring' = restoring + 1
  /\ results' = [results EXCEPT !.restore = FALSE]
  /\ shell' = [shell EXCEPT !.nav = FALSE]
  /\ UNCHANGED <<analysis, preview, workerVars, minted, storedVars, restarts>>

RestoreEndsAgain ==
  /\ restores > 0
  /\ restoring' = restoring - 1
  /\ results' = [results EXCEPT !.restore = TRUE]
  /\ shell' = [shell EXCEPT !.nav = TRUE]
  /\ UNCHANGED <<analysis, preview, workerVars, minted, storedVars, bounds>>

\* _on_restored and _on_restore_failed.
RestoreEnds ==
  /\ restoring > 0
  /\ restoring' = restoring - 1
  /\ results' = [results EXCEPT !.restore = TRUE]
  /\ shell' = [shell EXCEPT !.nav = TRUE]
  /\ UNCHANGED <<analysis, preview, workerVars, minted, storedVars, bounds>>

\* JobHistoryRepository.link_workflow: a succeeded job, not linked before.
MayLink(j) == history[j] = "succeeded" /\ ~linked[j]

\* The template is saved in one transaction and linked in another.
SaveWorkflow ==
  /\ shell.page = "results"
  /\ results.extras /\ results.shown # NoJob /\ results.plan # NoJob /\ ~results.saved
  /\ templates' = templates \union {results.plan}
  /\ \E ok \in Commits :
       LET done == ok /\ MayLink(results.plan)
       IN /\ linked' = [linked EXCEPT ![results.plan] = @ \/ done]
          /\ results' = [results EXCEPT !.saved = done]
          /\ shell' = [shell EXCEPT !.active = IF done THEN "saved" ELSE @]
  /\ UNCHANGED <<analysis, preview, workerVars, restoring, minted, history, validated, bounds>>

RepeatWorkflow ==
  /\ shell.page = "results"
  /\ results.extras /\ results.shown # NoJob /\ results.plan # NoJob
  /\ BeginWorkflow(IF shell.active = "saved" /\ results.saved THEN "saved" ELSE "adhoc")

-----------------------------------------------------------------------------
(* History expires, when the settings are saved and when the program starts. *)

\* prune_completed_before: expired terminal records go, with their validation
\* summaries and the names of their workflows; running ones never.
Prune ==
  \E expired \in SUBSET {j \in Jobs : history[j] \in Recorded} :
    /\ history' = [j \in Jobs |-> IF j \in expired THEN "none" ELSE history[j]]
    /\ validated' = [j \in Jobs |-> validated[j] /\ j \notin expired]
    /\ linked' = [j \in Jobs |-> linked[j] /\ j \notin expired]

\* SettingsPage.save; nothing expires when a transaction fails.
SaveSettings ==
  /\ shell.page = "settings"
  /\ Prune
  /\ UNCHANGED <<shell, analysis, preview, results, workerVars, restoring, minted, templates,
                 bounds>>

\* Workers and pages are gone, the database is not; it is pruned at the start.
Restart ==
  /\ restarts < MaxRestarts
  /\ restarts' = restarts + 1
  /\ shell' = FreshShell /\ analysis' = "none"
  /\ preview' = FreshPreview /\ results' = FreshResults
  /\ outcome' = [j \in Jobs |-> IF exec[j] = "running" THEN "lost" ELSE outcome[j]]
  /\ exec' = [j \in Jobs |-> "idle"]
  /\ restoring' = 0
  /\ Prune
  /\ UNCHANGED <<stop, sound, minted, templates, restores>>

-----------------------------------------------------------------------------
(* Specification. *)

User ==
  \/ NewJob
  \/ OpenLibrary
  \/ OpenSettings
  \/ SaveSettings
  \/ RunSavedWorkflow
  \/ StartAnalysis
  \/ ContinueToPlan
  \/ GoBack
  \/ RequestPreview
  \/ \E j \in Jobs : StartExecution(j) \/ ExecutionRefused(j)
  \/ RequestCancellation
  \/ RestoreBackup
  \/ SaveWorkflow
  \/ RepeatWorkflow

Execution(j) ==
  \/ WorkerBegins(j)
  \/ WorkerEnds(j)
  \/ OnCompleted(j)
  \/ OnFailed(j)
  \/ OnCancelled(j)

Next ==
  \/ User
  \/ AnalysisEnds
  \/ \E j \in Jobs : PreviewEnds(j) \/ Execution(j)
  \/ RestoreEnds
  \/ Restart

Spec == Init /\ [][Next]_vars

\* The thread pool runs what is queued and the event loop handles what was
\* emitted; the user owes nothing.
Fairness == \A j \in Jobs : WF_vars(Execution(j))

FairSpec == Spec /\ Fairness

-----------------------------------------------------------------------------
(* Properties. *)

\* A terminal record says what the executor did with that job.
HistoryTellsTheTruth ==
  \A j \in Jobs : history[j] \in Recorded =>
    outcome[j] = (IF history[j] = "succeeded" THEN "completed" ELSE history[j])

\* A job recorded as succeeded was completed by the executor, and only such a job
\* has a validation summary -- even when executions overlap, the database fails
\* or the program restarts.
SuccessIsReal ==
  \A j \in Jobs :
    /\ history[j] = "succeeded" => outcome[j] = "completed"
    /\ validated[j] => history[j] = "succeeded"

\* A terminal record never changes: another attempt or a late signal leaves it as
\* it is, and when it expires, in a session or at a start, nothing of it stays
\* behind -- neither a validation summary nor the name of a workflow.
TerminalIsForever ==
  [][\A j \in Jobs : history[j] \in Recorded /\ history'[j] # history[j] =>
       history'[j] = "none" /\ ~validated'[j] /\ ~linked'[j]]_vars

Executing == {j \in Jobs : exec[j] # "idle"}

\* A second execution never starts before the first one's result is handled.
OneExecutionAtATime == Cardinality(Executing) <= 1

\* README.md, phase 5: "Long-running actions disable conflicting controls": while
\* an execution is under way the user cannot navigate to another job.
ConflictingControlsDisabled ==
  (\E j \in Jobs : exec[j] \in {"queued", "running"}) => ~shell.nav

\* A workflow is saved only from a plan that was executed successfully
\* (README.md, phase 6: "Successful plans can be saved").
SavedPlansSucceeded == \A j \in templates : outcome[j] = "completed"

\* As long as the database works every execution that was recorded as started is
\* recorded as succeeded, failed or cancelled.
EveryOutcomeIsBooked == \A j \in Jobs : history[j] = "running" ~> history[j] \in Recorded

\* README.md, phase 5: "a committed result is never hidden from the user",
\* cancellation requested or not.
CommittedResultIsShown ==
  \A j \in Jobs : outcome[j] = "completed" /\ exec[j] # "idle" ~> results.shown = j

\* ResultsPage._on_failed_with_backups tells the user to "return to the preview":
\* an execution requested again after a failure starts.
RetryStarts ==
  [][\A j \in Jobs :
       outcome[j] = "failed" /\ shell.page = "preview"
         /\ shell'.page = "results" /\ results'.plan = j
       => results'.started]_vars
=============================================================================
