------------------------ MODULE DesktopSession_proofs ------------------------
(***************************************************************************)
(* Proofs about DesktopSession, for any number of jobs, restores and       *)
(* restarts and whether or not the database fails.                         *)
(***************************************************************************)
EXTENDS DesktopSession, FiniteSetTheorems, TLAPS

-----------------------------------------------------------------------------
(* Types. *)

\* The records of the shell and of the results page.
ShellRecord ==
  [page : Pages, nav : BOOLEAN, current : MaybeJob,
   pending : TemplateKinds, active : TemplateKinds]

ResultsRecord ==
  [plan : MaybeJob, shown : MaybeJob, started : BOOLEAN, saved : BOOLEAN,
   token : MaybeJob, cancel : BOOLEAN, back : BOOLEAN, extras : BOOLEAN,
   restorable : BOOLEAN, restore : BOOLEAN]

LEMMA FreshTyped ==
  FreshShell \in ShellRecord /\ FreshResults \in ResultsRecord
BY DEF FreshShell, FreshResults, ShellRecord, ResultsRecord, Pages, TemplateKinds, MaybeJob

LEMMA StartedResultsTyped ==
  ASSUME results \in ResultsRecord, NEW j \in MaybeJob, NEW started \in BOOLEAN
  PROVE  StartedResults(j, started) \in ResultsRecord
<1>1. ASSUME NEW saved \in BOOLEAN, NEW token \in MaybeJob, NEW back \in BOOLEAN
      PROVE  [results EXCEPT !.plan = j, !.shown = NoJob, !.started = started,
                             !.saved = saved, !.token = token, !.cancel = started,
                             !.back = back, !.extras = FALSE, !.restorable = FALSE,
                             !.restore = TRUE] \in ResultsRecord
  BY DEF ResultsRecord, MaybeJob
<1>2. results.token \in MaybeJob
  BY DEF ResultsRecord
<1>3. /\ (shell.active = "saved") \in BOOLEAN
      /\ (~started) \in BOOLEAN
      /\ (IF started THEN j ELSE results.token) \in MaybeJob
  BY <1>2
<1> QED
  BY <1>1, <1>3 DEF StartedResults

\* Every running restore was started.
Typed == TypeOK /\ restoring <= restores

LEMMA TypedInit == Init => Typed
BY BoundsAssumption
   DEF Init, Typed, TypeOK, FreshShell, FreshPreview, FreshResults, Pages, TemplateKinds,
       MaybeJob, NoJob

LEMMA CommitsBoolean == Commits \subseteq BOOLEAN
BY DEF Commits

LEMMA TypedStep == Typed /\ [Next]_vars => Typed'
<1> SUFFICES ASSUME Typed, [Next]_vars PROVE Typed'
  OBVIOUS
<1>0. shell \in ShellRecord /\ results \in ResultsRecord
  BY DEF Typed, TypeOK, ShellRecord, ResultsRecord
<1> USE DEF Typed, TypeOK, workerVars, storedVars, bounds, vars
<1>1. CASE NewJob
  BY <1>1 DEF NewJob, ResetAnalysis, FreshShell, Pages, TemplateKinds, MaybeJob, NoJob
<1>2. CASE OpenLibrary
  BY <1>2 DEF OpenLibrary, Pages
<1>3. CASE RunSavedWorkflow
  <2>1. shell' \in ShellRecord
    BY <1>0, <1>3
    DEF RunSavedWorkflow, BeginWorkflow, ShellRecord, Pages, TemplateKinds, MaybeJob
  <2> QED
    BY <1>3, <2>1 DEF RunSavedWorkflow, BeginWorkflow, ResetAnalysis, ShellRecord
<1>4. CASE StartAnalysis
  BY <1>4 DEF StartAnalysis
<1>5. CASE ContinueToPlan
  <2>1. minted + 1 \in Jobs /\ minted + 1 \in 0 .. MaxJobs
    BY <1>5, BoundsAssumption DEF ContinueToPlan, Jobs
  <2>2. shell' \in ShellRecord
    BY <1>0, <1>5, <2>1 DEF ContinueToPlan, ShellRecord, Pages, TemplateKinds, MaybeJob
  <2> QED
    BY <1>5, <2>1, <2>2 DEF ContinueToPlan, ShellRecord
<1>6. CASE GoBack
  BY <1>6 DEF GoBack, Pages
<1>7. CASE RequestPreview
  <2>1. shell' \in ShellRecord
    BY <1>0, <1>7 DEF RequestPreview, ShellRecord, Pages
  <2>2. preview' \in [plan : MaybeJob, shown : MaybeJob, workers : SUBSET Jobs, busy : BOOLEAN]
    BY <1>7 DEF RequestPreview, MaybeJob
  <2> QED
    BY <1>7, <2>1, <2>2 DEF RequestPreview, ShellRecord
<1>8. ASSUME NEW j \in Jobs, StartExecution(j) PROVE Typed'
  <2>1. shell' \in ShellRecord
    BY <1>0, <1>8 DEF StartExecution, StartOverwriting, ShellRecord, Pages
  <2>2. results' \in ResultsRecord
    BY <1>0, <1>8, StartedResultsTyped DEF StartExecution, StartOverwriting, MaybeJob
  <2> QED
    BY <1>8, <2>1, <2>2 DEF StartExecution, StartOverwriting, ShellRecord, ResultsRecord
<1>9. ASSUME NEW j \in Jobs, ExecutionRefused(j) PROVE Typed'
  <2>1. shell' \in ShellRecord
    BY <1>0, <1>9 DEF ExecutionRefused, ShellRecord, Pages
  <2>2. results' \in ResultsRecord
    BY <1>0, <1>9, StartedResultsTyped DEF ExecutionRefused, MaybeJob
  <2> QED
    BY <1>9, <2>1, <2>2 DEF ExecutionRefused, ShellRecord, ResultsRecord
<1>10. CASE RequestCancellation
  <2>1. results' \in ResultsRecord
    BY <1>0, <1>10 DEF RequestCancellation, ResultsRecord
  <2>2. stop' \in [Jobs -> BOOLEAN]
    BY <1>10 DEF RequestCancellation, MaybeJob
  <2> QED
    BY <1>10, <2>1, <2>2 DEF RequestCancellation, ResultsRecord
<1>11. CASE RestoreBackup
  <2>1. shell' \in ShellRecord /\ results' \in ResultsRecord
    BY <1>0, <1>11 DEF RestoreBackup, ShellRecord, ResultsRecord
  <2>2. restoring' \in 0 .. MaxRestores /\ restores' \in 0 .. MaxRestores /\ restoring' <= restores'
    BY <1>11, BoundsAssumption DEF RestoreBackup
  <2> QED
    BY <1>11, <2>1, <2>2 DEF RestoreBackup, ShellRecord, ResultsRecord
<1>12. CASE SaveWorkflow
  <2>1. results.plan \in Jobs
    BY <1>12 DEF SaveWorkflow, MaybeJob
  <2>2. PICK ok \in Commits :
          LET done == ok /\ MayLink(results.plan)
          IN /\ linked' = [linked EXCEPT ![results.plan] = @ \/ done]
             /\ results' = [results EXCEPT !.saved = done]
             /\ shell' = [shell EXCEPT !.active = IF done THEN "saved" ELSE @]
    BY <1>12 DEF SaveWorkflow
  <2>3. /\ linked' \in [Jobs -> BOOLEAN]
        /\ results'.saved \in BOOLEAN
        /\ results' = [results EXCEPT !.saved = results'.saved]
        /\ shell' \in {shell, [shell EXCEPT !.active = "saved"]}
    BY <2>1, <2>2, CommitsBoolean DEF MayLink
  <2> QED
    BY <1>12, <2>1, <2>3 DEF SaveWorkflow, TemplateKinds
<1>13. CASE RepeatWorkflow
  <2> DEFINE kind == IF shell.active = "saved" /\ results.saved THEN "saved" ELSE "adhoc"
  <2>1. BeginWorkflow(kind) /\ kind \in TemplateKinds
    BY <1>13 DEF RepeatWorkflow, TemplateKinds
  <2> HIDE DEF kind
  <2>2. shell' \in ShellRecord
    BY <1>0, <2>1 DEF BeginWorkflow, ShellRecord, Pages, MaybeJob
  <2> QED
    BY <2>1, <2>2 DEF BeginWorkflow, ResetAnalysis, ShellRecord
<1>14. CASE AnalysisEnds
  BY <1>14 DEF AnalysisEnds
<1>15. ASSUME NEW j \in Jobs, PreviewEnds(j) PROVE Typed'
  <2>1. shell' \in ShellRecord
    BY <1>0, <1>15 DEF PreviewEnds, ShellRecord
  <2>2. preview' \in [plan : MaybeJob, shown : MaybeJob, workers : SUBSET Jobs, busy : BOOLEAN]
    <3>1. PICK shown \in MaybeJob :
            preview' = [preview EXCEPT !.shown = shown, !.workers = @ \ {j}, !.busy = FALSE]
      BY <1>15 DEF PreviewEnds, MaybeJob
    <3> QED
      BY <3>1
  <2> QED
    BY <1>15, <2>1, <2>2 DEF PreviewEnds, ShellRecord
<1>16. ASSUME NEW j \in Jobs, WorkerBegins(j) PROVE Typed'
  BY <1>16 DEF WorkerBegins, Pending
<1>17. ASSUME NEW j \in Jobs, WorkerEnds(j) PROVE Typed'
  BY <1>17 DEF WorkerEnds, Pending
<1>18. ASSUME NEW j \in Jobs, OnCompleted(j) PROVE Typed'
  <2>1. shell' \in ShellRecord /\ results' \in ResultsRecord
    BY <1>0, <1>18 DEF OnCompleted, ShellRecord, ResultsRecord, MaybeJob
  <2>2. history' \in [Jobs -> {"none", "running"} \union Recorded]
    BY <1>18 DEF OnCompleted, Book, Recorded
  <2> QED
    BY <1>18, <2>1, <2>2, CommitsBoolean DEF OnCompleted, ShellRecord, ResultsRecord
<1>19. ASSUME NEW j \in Jobs, OnFailed(j) PROVE Typed'
  <2>1. shell' \in ShellRecord /\ results' \in ResultsRecord
    BY <1>0, <1>19 DEF OnFailed, ShellRecord, ResultsRecord, MaybeJob
  <2>2. history' \in [Jobs -> {"none", "running"} \union Recorded]
    BY <1>19 DEF OnFailed, Book, Recorded
  <2> QED
    BY <1>19, <2>1, <2>2, CommitsBoolean DEF OnFailed, ShellRecord, ResultsRecord
<1>20. ASSUME NEW j \in Jobs, OnCancelled(j) PROVE Typed'
  <2>1. shell' \in ShellRecord /\ results' \in ResultsRecord
    BY <1>0, <1>20 DEF OnCancelled, ShellRecord, ResultsRecord, MaybeJob
  <2>2. history' \in [Jobs -> {"none", "running"} \union Recorded]
    BY <1>20 DEF OnCancelled, Book, Recorded
  <2> QED
    BY <1>20, <2>1, <2>2, CommitsBoolean DEF OnCancelled, ShellRecord, ResultsRecord
<1>21. CASE RestoreEnds
  <2>1. shell' \in ShellRecord /\ results' \in ResultsRecord
    BY <1>0, <1>21 DEF RestoreEnds, ShellRecord, ResultsRecord
  <2>2. restoring' \in 0 .. MaxRestores /\ restoring' <= restores
    BY <1>21, BoundsAssumption DEF RestoreEnds
  <2> QED
    BY <1>21, <2>1, <2>2 DEF RestoreEnds, ShellRecord, ResultsRecord
<1>22. CASE Restart
  BY <1>22, BoundsAssumption, FreshTyped
  DEF Restart, Prune, FreshPreview, MaybeJob, NoJob, Recorded, ShellRecord, ResultsRecord
<1>23. CASE OpenSettings
  BY <1>23 DEF OpenSettings, Pages
<1>24. CASE SaveSettings
  BY <1>24 DEF SaveSettings, Prune
<1>25. CASE UNCHANGED vars
  BY <1>25
<1> QED
  BY <1>1, <1>2, <1>3, <1>4, <1>5, <1>6, <1>7, <1>8, <1>9, <1>10, <1>11, <1>12, <1>13, <1>14,
     <1>15, <1>16, <1>17, <1>18, <1>19, <1>20, <1>21, <1>22, <1>23, <1>24, <1>25
  DEF Next, User, Execution

\* Every state of a session is one the program's data structures can hold.
THEOREM TypeCorrect == Spec => []TypeOK
<1>1. Typed => TypeOK
  BY DEF Typed
<1> QED
  BY <1>1, TypedInit, TypedStep, PTL DEF Spec
-----------------------------------------------------------------------------
(* The history record. *)

\* A transaction of the history repository leaves the record alone or closes it.
LEMMA BookCloses ==
  ASSUME Typed, NEW b \in MaybeJob, NEW status \in Recorded, Book(b, status)
  PROVE  \A j \in Jobs :
           \/ history'[j] = history[j]
           \/ history[j] = "running" /\ history'[j] = status /\ j = b
<1> USE DEF Typed, TypeOK
<1>1. CASE results.started /\ b # NoJob
  <2>1. PICK ok \in Commits :
          history' = [history EXCEPT ![b] = IF ok /\ @ = "running" THEN status ELSE @]
    BY <1>1 DEF Book
  <2> QED
    BY <2>1
<1>2. CASE ~(results.started /\ b # NoJob)
  BY <1>2 DEF Book
<1> QED
  BY <1>1, <1>2

\* A pruning leaves a job alone or takes a closed record with all it names.
LEMMA PruneTakes ==
  ASSUME Typed, Prune, NEW j \in Jobs
  PROVE  \/ history'[j] = history[j] /\ (validated'[j] => validated[j])
         \/ history[j] \in Recorded /\ history'[j] = "none" /\ ~validated'[j] /\ ~linked'[j]
<1>1. PICK expired \in SUBSET {i \in Jobs : history[i] \in Recorded} :
        /\ history' = [i \in Jobs |-> IF i \in expired THEN "none" ELSE history[i]]
        /\ validated' = [i \in Jobs |-> validated[i] /\ i \notin expired]
        /\ linked' = [i \in Jobs |-> linked[i] /\ i \notin expired]
  BY DEF Prune
<1>2. CASE j \in expired
  <2>1. ~validated'[j] /\ ~linked'[j]
    BY <1>1, <1>2, Zenon
  <2> QED
    BY <1>1, <1>2, <2>1
<1>3. CASE j \notin expired
  <2>1. validated'[j] => validated[j]
    BY <1>1, <1>3, Zenon
  <2> QED
    BY <1>1, <1>3, <2>1
<1> QED
  BY <1>2, <1>3

\* What one step may do to the record of a job: an execution opens it or finds it
\* open, a last signal closes it, and a closed one is pruned with all it names.
RecordStep(j) ==
  \/ history'[j] = history[j]
  \/ history[j] \in {"none", "running"} /\ history'[j] = "running"
  \/ history[j] = "running" /\ history'[j] \in Recorded
  \/ history[j] \in Recorded /\ history'[j] = "none" /\ ~validated'[j] /\ ~linked'[j]

LEMMA RecordSteps ==
  ASSUME Typed, [Next]_vars, NEW j \in Jobs
  PROVE  RecordStep(j)
<1> USE DEF RecordStep
<1>1. ASSUME NEW i \in Jobs, StartExecution(i) PROVE RecordStep(j)
  BY <1>1 DEF StartExecution, StartOverwriting, Typed, TypeOK
<1>2. ASSUME NEW i \in Jobs, OnCompleted(i) PROVE RecordStep(j)
  BY <1>2, BookCloses DEF OnCompleted, Recorded, MaybeJob
<1>3. ASSUME NEW i \in Jobs, OnFailed(i) PROVE RecordStep(j)
  BY <1>3, BookCloses DEF OnFailed, Recorded, Typed, TypeOK
<1>4. ASSUME NEW i \in Jobs, OnCancelled(i) PROVE RecordStep(j)
  BY <1>4, BookCloses DEF OnCancelled, Recorded, Typed, TypeOK
<1>5. CASE Restart \/ SaveSettings
  BY <1>5, PruneTakes DEF Restart, SaveSettings
<1>6. CASE UNCHANGED history
  BY <1>6
<1> QED
  BY <1>1, <1>2, <1>3, <1>4, <1>5, <1>6
  DEF Next, User, Execution, NewJob, OpenLibrary, OpenSettings, RunSavedWorkflow, BeginWorkflow,
      StartAnalysis, ContinueToPlan, GoBack, RequestPreview, ExecutionRefused,
      RequestCancellation,
      RestoreBackup, SaveWorkflow, RepeatWorkflow, AnalysisEnds, PreviewEnds, WorkerBegins,
      WorkerEnds, RestoreEnds, vars, workerVars, storedVars

\* JobHistoryRepository never rewrites a terminal record, whichever executions
\* overlap, whichever signal comes late and however often the program restarts.
THEOREM TerminalRecordsStay == Spec => TerminalIsForever
<1>1. Typed /\ [Next]_vars =>
        \A j \in Jobs : history[j] \in Recorded /\ history'[j] # history[j] =>
          history'[j] = "none" /\ ~validated'[j] /\ ~linked'[j]
  <2> SUFFICES ASSUME Typed, [Next]_vars, NEW j \in Jobs,
                      history[j] \in Recorded, history'[j] # history[j]
               PROVE  history'[j] = "none" /\ ~validated'[j] /\ ~linked'[j]
    OBVIOUS
  <2>1. RecordStep(j)
    BY RecordSteps
  <2> QED
    BY <2>1 DEF RecordStep, Recorded
<1> QED
  BY <1>1, TypedInit, TypedStep, PTL DEF Spec, TerminalIsForever

\* What is true of a job in every session: only the result of a completed
\* execution is booked as a success, and nothing runs under a terminal record.
Truthful(j) ==
  /\ history[j] = "succeeded" => outcome[j] = "completed" /\ exec[j] = "idle"
  /\ exec[j] = "completed" => outcome[j] = "completed"
  /\ validated[j] => history[j] = "succeeded"

AllTruthful == \A j \in Jobs : Truthful(j)

LEMMA TruthfulStep ==
  ASSUME Typed, AllTruthful, [Next]_vars, NEW j \in Jobs
  PROVE  Truthful(j)'
<1>0. Truthful(j)
  BY DEF AllTruthful
<1> USE DEF Truthful
<1>1. ASSUME NEW i \in Jobs, StartExecution(i) PROVE Truthful(j)'
  BY <1>0, <1>1 DEF StartExecution, StartOverwriting, Typed, TypeOK
<1>2. ASSUME NEW i \in Jobs, WorkerBegins(i) PROVE Truthful(j)'
  BY <1>0, <1>2 DEF WorkerBegins, storedVars, Typed, TypeOK
<1>3. ASSUME NEW i \in Jobs, WorkerEnds(i) PROVE Truthful(j)'
  BY <1>0, <1>3 DEF WorkerEnds, storedVars, Typed, TypeOK
<1>4. ASSUME NEW i \in Jobs, OnCompleted(i) PROVE Truthful(j)'
  <2>1. \/ history'[j] = history[j]
        \/ history[j] = "running" /\ history'[j] = "succeeded" /\ j = i
    BY <1>4, BookCloses DEF OnCompleted, Recorded, MaybeJob
  <2>2. exec[i] = "completed" /\ exec' = [exec EXCEPT ![i] = "idle"] /\ outcome' = outcome
    BY <1>4 DEF OnCompleted
  <2>3. validated'[j] => validated[j] \/ history'[j] = "succeeded"
    BY <1>4 DEF OnCompleted, Typed, TypeOK
  <2> QED
    BY <1>0, <2>1, <2>2, <2>3 DEF Typed, TypeOK
<1>5. ASSUME NEW i \in Jobs, OnFailed(i) \/ OnCancelled(i) PROVE Truthful(j)'
  <2>1. \/ history'[j] = history[j]
        \/ history[j] = "running" /\ history'[j] # "succeeded"
    BY <1>5, BookCloses DEF OnFailed, OnCancelled, Recorded, Typed, TypeOK
  <2> QED
    BY <1>0, <1>5, <2>1 DEF OnFailed, OnCancelled, Typed, TypeOK
<1>6. CASE Restart \/ SaveSettings
  <2>1. \/ history'[j] = history[j] /\ (validated'[j] => validated[j])
        \/ history'[j] = "none" /\ ~validated'[j]
    BY <1>6, PruneTakes DEF Restart, SaveSettings
  <2>2. \/ outcome'[j] = outcome[j] /\ exec'[j] \in {"idle", exec[j]}
        \/ exec[j] = "running" /\ exec'[j] = "idle"
    BY <1>6 DEF Restart, SaveSettings, workerVars, Typed, TypeOK
  <2> QED
    BY <1>0, <2>1, <2>2
<1>7. CASE UNCHANGED <<exec, outcome, history, validated>>
  BY <1>0, <1>7
<1> QED
  BY <1>1, <1>2, <1>3, <1>4, <1>5, <1>6, <1>7
  DEF Next, User, Execution, NewJob, OpenLibrary, OpenSettings, RunSavedWorkflow, BeginWorkflow,
      StartAnalysis, ContinueToPlan, GoBack, RequestPreview, ExecutionRefused,
      RequestCancellation,
      RestoreBackup, SaveWorkflow, RepeatWorkflow, AnalysisEnds, PreviewEnds,
      RestoreEnds, vars, workerVars, storedVars

\* A job the history calls succeeded was completed by the executor, and only such
\* a job has a validation summary.
THEOREM SuccessesAreReal == Spec => []SuccessIsReal
<1>1. Init => AllTruthful
  BY DEF Init, AllTruthful, Truthful
<1>2. Typed /\ AllTruthful /\ [Next]_vars => AllTruthful'
  BY TruthfulStep DEF AllTruthful
<1>3. AllTruthful => SuccessIsReal
  BY DEF AllTruthful, Truthful, SuccessIsReal
<1> QED
  BY <1>1, <1>2, <1>3, TypedInit, TypedStep, PTL DEF Spec

-----------------------------------------------------------------------------
(* A session in which no backup restore was started.  The end of a restore   *)
(* unlocks the sidebar whatever else is running, so what follows needs it.   *)

\* The analysis and the preview lock the page they were started from.
AnalysisLocks ==
  analysis = "running" => shell.page = "analysis" /\ ~shell.nav /\ ~preview.busy

PreviewLocks ==
  IF preview.busy
  THEN /\ shell.page = "preview" /\ ~shell.nav
       /\ preview.shown = NoJob
       /\ preview.workers = {shell.current}
  ELSE preview.workers = {}

\* An execution locks the results page, which shows that very job, until its last
\* signal is handled.
ExecutionLocks(j) ==
  exec[j] # "idle" =>
    /\ shell.page = "results" /\ ~shell.nav
    /\ shell.current = j
    /\ results.plan = j
    /\ results.started /\ ~results.back /\ ~results.extras

\* A job under execution has an open record, and its worker has not yet reported,
\* or reports, what the executor did.
ExecutionIsOpen(j) ==
  /\ exec[j] # "idle" => history[j] = "running"
  /\ exec[j] \in {"queued", "running"} => outcome[j] # "completed"
  /\ exec[j] \in Pending => outcome[j] = exec[j]

\* The job that can still be executed was minted and has not been completed.
CurrentIsOpen ==
  /\ shell.current <= minted
  /\ \A j \in Jobs : j > minted => outcome[j] = "none"
  /\ \/ shell.page \in {"plan", "preview"}
     \/ shell.page = "results" /\ results.back
     => shell.current # NoJob /\ outcome[shell.current] # "completed"

\* What the results page offers after a success belongs to that success.
ExtrasAreEarned ==
  results.extras => results.plan \in Jobs /\ outcome[results.plan] = "completed"

\* What is true as long as nothing is restored: one lock at a time, the record of
\* what runs is open, and only what succeeded is offered as a success.
Locked == AnalysisLocks /\ PreviewLocks /\ \A j \in Jobs : ExecutionLocks(j)

Undisturbed ==
  /\ Locked
  /\ \A j \in Jobs : ExecutionIsOpen(j)
  /\ CurrentIsOpen
  /\ ExtrasAreEarned
  /\ HistoryTellsTheTruth
  /\ SavedPlansSucceeded

LEMMA UndisturbedInit == Init => Undisturbed
BY BoundsAssumption
   DEF Init, Undisturbed, Locked, AnalysisLocks, PreviewLocks, ExecutionLocks, ExecutionIsOpen,
       CurrentIsOpen, ExtrasAreEarned, HistoryTellsTheTruth, SavedPlansSucceeded, FreshShell,
       FreshPreview, FreshResults, Pending, Recorded, Jobs, NoJob

LEMMA StartedResultsFields ==
  ASSUME results \in ResultsRecord, NEW j \in Jobs, NEW started \in BOOLEAN
  PROVE  /\ StartedResults(j, started).plan = j
         /\ StartedResults(j, started).started = started
         /\ StartedResults(j, started).back = ~started
         /\ StartedResults(j, started).extras = FALSE
BY DEF StartedResults, ResultsRecord

\* An execution starts from the preview page, where nothing else is under way.
LEMMA StartedAlone ==
  ASSUME Typed, Locked, NEW i \in Jobs, Requested(i)
  PROVE  /\ analysis # "running"
         /\ ~preview.busy /\ preview.workers = {}
         /\ \A j \in Jobs : exec[j] = "idle"
BY DEF Locked, AnalysisLocks, PreviewLocks, ExecutionLocks, Requested, Typed, TypeOK

LEMMA RestoresGrow ==
  ASSUME Typed, [Next]_vars, restores' = 0
  PROVE  restores = 0 /\ restoring = 0
<1>1. restores' = restores \/ RestoreBackup
  BY DEF Next, User, Execution, NewJob, OpenLibrary, OpenSettings, SaveSettings,
         RunSavedWorkflow, BeginWorkflow, StartAnalysis, ContinueToPlan, GoBack, RequestPreview,
         StartExecution, StartOverwriting,
         ExecutionRefused, RequestCancellation, SaveWorkflow, RepeatWorkflow, AnalysisEnds,
         PreviewEnds, WorkerBegins, WorkerEnds, OnCompleted, OnFailed, OnCancelled, RestoreEnds,
         Restart, vars, bounds
<1>2. ~RestoreBackup
  BY BoundsAssumption DEF RestoreBackup, Typed, TypeOK
<1> QED
  BY <1>1, <1>2, BoundsAssumption DEF Typed, TypeOK

LEMMA LockedStep ==
  ASSUME Typed, Locked, [Next]_vars, restores' = 0
  PROVE  Locked'
<1>0. restores = 0 /\ restoring = 0
  BY RestoresGrow
<1>r. results \in ResultsRecord
  BY DEF Typed, TypeOK, ResultsRecord
<1> USE DEF Locked, AnalysisLocks, PreviewLocks, ExecutionLocks, Typed, TypeOK, workerVars
<1>1. CASE NewJob
  BY <1>1 DEF NewJob, ResetAnalysis, FreshShell
<1>2. CASE OpenLibrary
  BY <1>2 DEF OpenLibrary
<1>3. CASE RunSavedWorkflow
  BY <1>3 DEF RunSavedWorkflow, BeginWorkflow, ResetAnalysis
<1>4. CASE StartAnalysis
  BY <1>4 DEF StartAnalysis
<1>5. CASE ContinueToPlan
  BY <1>5 DEF ContinueToPlan
<1>6. CASE GoBack
  BY <1>6 DEF GoBack
<1>7. CASE RequestPreview
  BY <1>7 DEF RequestPreview
<1>8. ASSUME NEW i \in Jobs, StartExecution(i) PROVE Locked'
  <2>1. \A j \in Jobs : exec'[j] # "idle" => j = i
    BY <1>8, StartedAlone DEF StartExecution, StartOverwriting
  <2>2. /\ results'.plan = i /\ results'.started
        /\ ~results'.back /\ ~results'.extras
    BY <1>8, <1>r, StartedResultsFields DEF StartExecution, StartOverwriting
  <2>3. /\ shell'.page = "results" /\ ~shell'.nav /\ shell'.current = i
        /\ UNCHANGED <<analysis, preview>>
    BY <1>8 DEF StartExecution, StartOverwriting, Requested
  <2>4. \A j \in Jobs : ExecutionLocks(j)'
    BY <2>1, <2>2, <2>3
  <2>5. analysis # "running" /\ ~preview.busy /\ preview.workers = {}
    BY <1>8, StartedAlone DEF StartExecution, StartOverwriting
  <2> QED
    BY <2>3, <2>4, <2>5
<1>9. ASSUME NEW i \in Jobs, ExecutionRefused(i) PROVE Locked'
  BY <1>9, StartedAlone DEF ExecutionRefused
<1>10. CASE RequestCancellation
  BY <1>10 DEF RequestCancellation
<1>11. CASE SaveWorkflow
  BY <1>11 DEF SaveWorkflow
<1>12. CASE RepeatWorkflow
  BY <1>12 DEF RepeatWorkflow, BeginWorkflow, ResetAnalysis
<1>13. CASE AnalysisEnds
  BY <1>13 DEF AnalysisEnds
<1>14. ASSUME NEW i \in Jobs, PreviewEnds(i) PROVE Locked'
  BY <1>14 DEF PreviewEnds
<1>15. ASSUME NEW i \in Jobs, WorkerBegins(i) PROVE Locked'
  BY <1>15 DEF WorkerBegins
<1>16. ASSUME NEW i \in Jobs, WorkerEnds(i) PROVE Locked'
  BY <1>16 DEF WorkerEnds
<1>17. ASSUME NEW i \in Jobs, OnCompleted(i) PROVE Locked'
  BY <1>17 DEF OnCompleted
<1>18. ASSUME NEW i \in Jobs, OnFailed(i) PROVE Locked'
  BY <1>18 DEF OnFailed
<1>19. ASSUME NEW i \in Jobs, OnCancelled(i) PROVE Locked'
  BY <1>19 DEF OnCancelled
<1>20. CASE Restart
  BY <1>20 DEF Restart, FreshPreview
<1>21. CASE OpenSettings
  BY <1>21 DEF OpenSettings
<1>22. CASE SaveSettings
  BY <1>22 DEF SaveSettings
<1>23. CASE UNCHANGED vars
  BY <1>23 DEF vars
<1> QED
  BY <1>0, <1>1, <1>2, <1>3, <1>4, <1>5, <1>6, <1>7, <1>8, <1>9, <1>10, <1>11, <1>12, <1>13,
     <1>14, <1>15, <1>16, <1>17, <1>18, <1>19, <1>20, <1>21, <1>22, <1>23
  DEF Next, User, Execution, RestoreBackup, RestoreEnds

\* Which job an execution's step is about: the current one, on the results page.
LEMMA ExecutingIsCurrent ==
  ASSUME Typed, Locked, CurrentIsOpen, NEW i \in Jobs, exec[i] # "idle"
  PROVE  /\ shell.page = "results" /\ ~results.back /\ ~results.extras
         /\ results.plan = i /\ i <= minted
         /\ \A j \in Jobs \ {i} : exec[j] = "idle"
BY DEF Locked, ExecutionLocks, CurrentIsOpen, Typed, TypeOK

\* The steps of an execution, and what each does to its job.
Runs(i) == exec[i] \in {"queued", "running"} /\ (WorkerBegins(i) \/ WorkerEnds(i))
Ends(i) == exec[i] \in Pending /\ (OnCompleted(i) \/ OnFailed(i) \/ OnCancelled(i))

Quiet == UNCHANGED <<exec, outcome, history>>

LEMMA NextCases ==
  ASSUME [Next]_vars
  PROVE  \/ Quiet
         \/ Restart \/ SaveSettings
         \/ \E i \in Jobs : StartExecution(i) \/ Runs(i) \/ Ends(i)
BY DEF Quiet, Runs, Ends, Next, User, Execution, NewJob, OpenLibrary, OpenSettings,
       RunSavedWorkflow, BeginWorkflow, StartAnalysis, ContinueToPlan, GoBack, RequestPreview,
       ExecutionRefused,
       RequestCancellation, RestoreBackup, SaveWorkflow, RepeatWorkflow, AnalysisEnds,
       PreviewEnds, WorkerBegins, WorkerEnds, OnCompleted, OnFailed, OnCancelled, RestoreEnds,
       Pending, vars, workerVars, storedVars

\* A last signal closes the record of the job it is about, truthfully.
LEMMA EndsCloses ==
  ASSUME Typed, Undisturbed, NEW i \in Jobs, Ends(i)
  PROVE  /\ exec' = [exec EXCEPT ![i] = "idle"] /\ outcome' = outcome
         /\ \A j \in Jobs :
              \/ history'[j] = history[j]
              \/ j = i /\ history'[i] = IF outcome[i] = "completed" THEN "succeeded" ELSE outcome[i]
<1>1. outcome[i] = exec[i] /\ results.plan = i
  BY ExecutingIsCurrent DEF Ends, Undisturbed, ExecutionIsOpen, Pending
<1>2. CASE OnCompleted(i)
  BY <1>1, <1>2, BookCloses DEF OnCompleted, Recorded, MaybeJob
<1>3. CASE OnFailed(i)
  BY <1>1, <1>3, BookCloses DEF OnFailed, Recorded, MaybeJob
<1>4. CASE OnCancelled(i)
  BY <1>1, <1>4, BookCloses DEF OnCancelled, Recorded, MaybeJob
<1> QED
  BY <1>2, <1>3, <1>4 DEF Ends

LEMMA OpenStep ==
  ASSUME Typed, Undisturbed, [Next]_vars, NEW j \in Jobs
  PROVE  ExecutionIsOpen(j)'
<1>0. ExecutionIsOpen(j)
  BY DEF Undisturbed
<1> USE DEF ExecutionIsOpen, Typed, TypeOK
<1>1. ASSUME NEW i \in Jobs, StartExecution(i) PROVE ExecutionIsOpen(j)'
  <2>1. outcome[i] # "completed"
    BY <1>1 DEF StartExecution, StartOverwriting, Requested, Undisturbed, CurrentIsOpen
  <2> QED
    BY <1>0, <1>1, <2>1 DEF StartExecution, StartOverwriting, Pending
<1>2. ASSUME NEW i \in Jobs, Runs(i) PROVE ExecutionIsOpen(j)'
  BY <1>0, <1>2 DEF Runs, WorkerBegins, WorkerEnds, storedVars, Pending
<1>3. ASSUME NEW i \in Jobs, Ends(i) PROVE ExecutionIsOpen(j)'
  BY <1>0, <1>3, EndsCloses DEF Pending
<1>4. CASE Restart \/ SaveSettings
  BY <1>0, <1>4 DEF Restart, SaveSettings, Prune, Pending, Recorded, workerVars
<1>5. CASE Quiet
  BY <1>0, <1>5 DEF Quiet
<1> QED
  BY <1>1, <1>2, <1>3, <1>4, <1>5, NextCases

\* An outcome changes only while its job runs, so a closed job keeps its own.
LEMMA OutcomeStep ==
  ASSUME Typed, Undisturbed, [Next]_vars, NEW j \in Jobs, outcome'[j] # outcome[j]
  PROVE  exec[j] \in {"queued", "running"}
<1> USE DEF Typed, TypeOK
<1>1. ASSUME NEW i \in Jobs, StartExecution(i) PROVE outcome' = outcome
  BY <1>1 DEF StartExecution, StartOverwriting
<1>2. ASSUME NEW i \in Jobs, Runs(i) PROVE exec[j] \in {"queued", "running"}
  BY <1>2 DEF Runs, WorkerBegins, WorkerEnds
<1>3. ASSUME NEW i \in Jobs, Ends(i) PROVE outcome' = outcome
  BY <1>3, EndsCloses
<1>4. CASE Restart \/ SaveSettings
  BY <1>4 DEF Restart, SaveSettings, workerVars
<1> QED
  BY <1>1, <1>2, <1>3, <1>4, NextCases DEF Quiet

LEMMA HistoryStep ==
  ASSUME Typed, Undisturbed, [Next]_vars
  PROVE  HistoryTellsTheTruth'
<1> SUFFICES ASSUME NEW j \in Jobs, history'[j] \in Recorded
             PROVE  outcome'[j] = IF history'[j] = "succeeded" THEN "completed" ELSE history'[j]
  BY DEF HistoryTellsTheTruth
<1> USE DEF Typed, TypeOK
<1>1. CASE history'[j] = history[j]
  <2>1. exec[j] = "idle"
    BY <1>1 DEF Undisturbed, ExecutionIsOpen, Recorded
  <2>2. outcome'[j] = outcome[j]
    BY <2>1, OutcomeStep
  <2> QED
    BY <1>1, <2>2 DEF Undisturbed, HistoryTellsTheTruth
<1>2. ASSUME NEW i \in Jobs, StartExecution(i) PROVE history'[j] = history[j]
  BY <1>2 DEF StartExecution, StartOverwriting, Recorded
<1>3. ASSUME NEW i \in Jobs, Runs(i) PROVE history' = history
  BY <1>3 DEF Runs, WorkerBegins, WorkerEnds, storedVars
<1>4. ASSUME NEW i \in Jobs, Ends(i), history'[j] # history[j]
      PROVE  outcome'[j] = IF history'[j] = "succeeded" THEN "completed" ELSE history'[j]
  <2>1. j = i /\ outcome[i] \in Pending
    BY <1>4, EndsCloses DEF Ends, Undisturbed, ExecutionIsOpen
  <2> QED
    BY <1>4, <2>1, EndsCloses DEF Pending
<1>5. CASE Restart \/ SaveSettings
  BY <1>1, <1>5 DEF Restart, SaveSettings, Prune, Recorded
<1> QED
  BY <1>1, <1>2, <1>3, <1>4, <1>5, NextCases DEF Quiet

LEMMA SavedStep ==
  ASSUME Typed, Undisturbed, [Next]_vars
  PROVE  SavedPlansSucceeded'
<1> SUFFICES ASSUME NEW j \in templates' PROVE outcome'[j] = "completed"
  BY DEF SavedPlansSucceeded
<1>1. j \in Jobs /\ outcome[j] = "completed"
  <2>1. CASE SaveWorkflow
    BY <2>1 DEF SaveWorkflow, Undisturbed, SavedPlansSucceeded, ExtrasAreEarned, Typed, TypeOK
  <2>2. templates' = templates \/ SaveWorkflow
    BY DEF Next, User, Execution, NewJob, OpenLibrary, OpenSettings, SaveSettings,
           RunSavedWorkflow, BeginWorkflow, StartAnalysis, ContinueToPlan, GoBack,
           RequestPreview, StartExecution, StartOverwriting,
           ExecutionRefused, RequestCancellation, RestoreBackup, RepeatWorkflow, AnalysisEnds,
           PreviewEnds, WorkerBegins, WorkerEnds, OnCompleted, OnFailed, OnCancelled, RestoreEnds,
           Restart, vars, storedVars
  <2> QED
    BY <2>1, <2>2 DEF Undisturbed, SavedPlansSucceeded, Typed, TypeOK
<1> QED
  BY <1>1, OutcomeStep DEF Undisturbed, ExecutionIsOpen

\* The plan, the preview and a results page with its back button lead to an
\* execution of the current job.
Offered ==
  \/ shell.page \in {"plan", "preview"}
  \/ shell.page = "results" /\ results.back

\* A new job is prepared, the current one forgotten, or the user stays with it.
LEMMA CurrentMoves ==
  ASSUME Typed, [Next]_vars
  PROVE  \/ ContinueToPlan
         \/ minted' = minted /\ shell'.current = NoJob /\ shell'.page = "analysis"
         \/ minted' = minted /\ shell'.current = shell.current
<1> DEFINE Goal == \/ ContinueToPlan
                   \/ minted' = minted /\ shell'.current = NoJob /\ shell'.page = "analysis"
                   \/ minted' = minted /\ shell'.current = shell.current
<1>0. shell \in ShellRecord
  BY DEF Typed, TypeOK, ShellRecord
<1>1. CASE NewJob \/ Restart
  BY <1>1 DEF NewJob, Restart, FreshShell
<1>2. ASSUME NEW kind, BeginWorkflow(kind) PROVE Goal
  BY <1>0, <1>2 DEF BeginWorkflow, ShellRecord
<1>3. CASE OpenLibrary \/ OpenSettings \/ StartAnalysis \/ AnalysisEnds
  BY <1>0, <1>3 DEF OpenLibrary, OpenSettings, StartAnalysis, AnalysisEnds, ShellRecord
<1>4. CASE GoBack
  BY <1>0, <1>4 DEF GoBack, ShellRecord
<1>5. CASE RequestPreview
  BY <1>0, <1>5 DEF RequestPreview, ShellRecord
<1>6. ASSUME NEW i \in Jobs, PreviewEnds(i) PROVE Goal
  BY <1>0, <1>6 DEF PreviewEnds, ShellRecord
<1>7. ASSUME NEW i \in Jobs, StartExecution(i) PROVE Goal
  BY <1>0, <1>7 DEF StartExecution, StartOverwriting, ShellRecord
<1>8. ASSUME NEW i \in Jobs, ExecutionRefused(i) PROVE Goal
  BY <1>0, <1>8 DEF ExecutionRefused, ShellRecord
<1>9. ASSUME NEW i \in Jobs, Ends(i) PROVE Goal
  <2>1. shell' = [shell EXCEPT !.nav = TRUE] /\ minted' = minted
    BY <1>9 DEF Ends, OnCompleted, OnFailed, OnCancelled
  <2> QED
    BY <1>0, <2>1 DEF ShellRecord
<1>10. CASE RestoreBackup \/ RestoreEnds
  BY <1>0, <1>10 DEF RestoreBackup, RestoreEnds, ShellRecord
<1>11. CASE SaveWorkflow
  BY <1>0, <1>11 DEF SaveWorkflow, ShellRecord
<1>12. CASE UNCHANGED <<shell, minted>>
  BY <1>12
<1> QED
  BY <1>1, <1>2, <1>3, <1>4, <1>5, <1>6, <1>7, <1>8, <1>9, <1>10, <1>11, <1>12
  DEF Next, User, Execution, SaveSettings, RunSavedWorkflow, RepeatWorkflow, RequestCancellation,
      WorkerBegins, WorkerEnds, Ends, OnCompleted, OnFailed, OnCancelled, Pending, vars

LEMMA MintedStep ==
  ASSUME Typed, Undisturbed, [Next]_vars
  PROVE  /\ shell'.current <= minted'
         /\ \A j \in Jobs : j > minted' => outcome'[j] = "none"
<1>1. /\ shell'.current <= minted'
      /\ minted' \in {minted, minted + 1}
  <2>1. CASE ContinueToPlan
    BY <2>1 DEF ContinueToPlan, Typed, TypeOK
  <2> QED
    BY <2>1, CurrentMoves DEF Typed, TypeOK, Undisturbed, CurrentIsOpen, NoJob
<1>2. ASSUME NEW j \in Jobs, j > minted' PROVE outcome'[j] = "none"
  <2>1. j > minted /\ outcome[j] = "none"
    BY <1>1, <1>2 DEF Undisturbed, CurrentIsOpen, Typed, TypeOK, Jobs
  <2>2. exec[j] = "idle"
    BY <2>1, ExecutingIsCurrent DEF Undisturbed, Typed, TypeOK, Jobs
  <2> QED
    BY <2>1, <2>2, OutcomeStep
<1> QED
  BY <1>1, <1>2

LEMMA OfferedStep ==
  ASSUME Typed, Undisturbed, [Next]_vars, Offered'
  PROVE  shell'.current # NoJob /\ outcome'[shell'.current] # "completed"
<1>0. Offered => shell.current \in Jobs /\ outcome[shell.current] # "completed"
  BY DEF Offered, Undisturbed, CurrentIsOpen, Typed, TypeOK, MaybeJob
<1>r. results \in ResultsRecord
  BY DEF Typed, TypeOK, ResultsRecord
<1> DEFINE Goal == shell'.current # NoJob /\ outcome'[shell'.current] # "completed"
<1> USE DEF Offered, Typed, TypeOK, workerVars
<1>1. CASE ContinueToPlan
  <2>1. minted + 1 \in Jobs /\ minted + 1 > minted /\ minted + 1 # NoJob
    BY <1>1, BoundsAssumption DEF ContinueToPlan, Jobs, NoJob
  <2>2. outcome[minted + 1] = "none"
    BY <2>1 DEF Undisturbed, CurrentIsOpen
  <2> QED
    BY <1>1, <2>1, <2>2 DEF ContinueToPlan
<1>2. ASSUME NEW i \in Jobs, StartExecution(i) PROVE Goal
  BY <1>2, <1>r, StartedResultsFields DEF StartExecution, StartOverwriting
<1>3. ASSUME NEW i \in Jobs, ExecutionRefused(i) PROVE Goal
  BY <1>0, <1>3 DEF ExecutionRefused, Requested
<1>4. ASSUME NEW i \in Jobs, Runs(i) PROVE Goal
  <2>1. ~Offered
    BY <1>4, ExecutingIsCurrent DEF Runs, Undisturbed
  <2> QED
    BY <1>4, <2>1 DEF Runs, WorkerBegins, WorkerEnds
<1>5. ASSUME NEW i \in Jobs, Ends(i) PROVE Goal
  <2>1. shell.current = i /\ shell.page = "results" /\ outcome[i] = exec[i]
    BY <1>5 DEF Ends, Undisturbed, Locked, ExecutionLocks, ExecutionIsOpen, Pending
  <2>2. shell'.current = i /\ shell'.page = "results" /\ outcome' = outcome /\ i # NoJob
    <3>1. shell' = [shell EXCEPT !.nav = TRUE] /\ outcome' = outcome
      BY <1>5 DEF Ends, OnCompleted, OnFailed, OnCancelled
    <3> QED
      BY <2>1, <3>1 DEF Jobs, NoJob
  <2>3. ~OnCompleted(i)
    BY <2>2 DEF OnCompleted
  <2> QED
    BY <1>5, <2>1, <2>2, <2>3 DEF Ends, OnFailed, OnCancelled
<1>6. CASE Restart
  BY <1>6 DEF Restart, FreshShell
<1>7. CASE SaveSettings
  BY <1>0, <1>7 DEF SaveSettings
<1>8. ASSUME ~Restart, ~ContinueToPlan, ~SaveSettings, UNCHANGED outcome,
             ~\E i \in Jobs : StartExecution(i) \/ ExecutionRefused(i) \/ Ends(i)
      PROVE  Goal
  <2>1. Offered
    <3>1. CASE GoBack
      BY <3>1 DEF GoBack
    <3>2. CASE RequestPreview
      BY <3>2 DEF RequestPreview
    <3>3. CASE SaveWorkflow
      BY <3>3 DEF SaveWorkflow
    <3>4. ASSUME NEW i \in Jobs, PreviewEnds(i) PROVE Offered
      BY <3>4 DEF PreviewEnds
    <3>5. CASE RestoreBackup \/ RestoreEnds \/ RequestCancellation
      BY <3>5 DEF RestoreBackup, RestoreEnds, RequestCancellation
    <3>6. CASE StartAnalysis \/ AnalysisEnds \/ OpenLibrary \/ OpenSettings
      BY <3>6 DEF StartAnalysis, AnalysisEnds, OpenLibrary, OpenSettings
    <3>7. ~NewJob /\ ~RunSavedWorkflow /\ ~RepeatWorkflow
      <4>1. ASSUME NEW kind, BeginWorkflow(kind) PROVE FALSE
        BY <4>1 DEF BeginWorkflow
      <4> QED
        BY <4>1 DEF NewJob, FreshShell, RunSavedWorkflow, RepeatWorkflow
    <3> QED
      BY <1>8, <3>1, <3>2, <3>3, <3>4, <3>5, <3>6, <3>7
      DEF Next, User, Execution, WorkerBegins, WorkerEnds, Ends, OnCompleted, OnFailed,
          OnCancelled, Pending, vars
  <2>2. shell'.current = shell.current
    BY <1>8, CurrentMoves
  <2> QED
    BY <1>0, <1>8, <2>1, <2>2 DEF Jobs, NoJob
<1> QED
  BY <1>1, <1>2, <1>3, <1>4, <1>5, <1>6, <1>7, <1>8, NextCases DEF Quiet

LEMMA ExtrasStep ==
  ASSUME Typed, Undisturbed, [Next]_vars
  PROVE  ExtrasAreEarned'
<1>r. results \in ResultsRecord
  BY DEF Typed, TypeOK, ResultsRecord
<1> USE DEF Typed, TypeOK
<1>1. ASSUME NEW i \in Jobs, StartExecution(i) \/ ExecutionRefused(i) PROVE ExtrasAreEarned'
  <2>1. PICK started \in BOOLEAN : results' = StartedResults(i, started)
    BY <1>1 DEF StartExecution, StartOverwriting, ExecutionRefused
  <2>2. ~results'.extras
    BY <1>r, <2>1, StartedResultsFields
  <2> QED
    BY <2>2 DEF ExtrasAreEarned
<1>2. ASSUME NEW i \in Jobs, Ends(i) PROVE ExtrasAreEarned'
  <2>1. results.plan = i /\ ~results.extras /\ outcome[i] = exec[i]
    BY <1>2, ExecutingIsCurrent DEF Ends, Undisturbed, ExecutionIsOpen, Pending
  <2>2. results'.plan = i /\ outcome' = outcome
    BY <1>2, <2>1 DEF Ends, OnCompleted, OnFailed, OnCancelled
  <2>3. results'.extras => OnCompleted(i)
    BY <1>2, <2>1 DEF Ends, OnFailed, OnCancelled
  <2> QED
    BY <2>1, <2>2, <2>3 DEF OnCompleted, ExtrasAreEarned
<1>3. CASE Restart
  BY <1>3 DEF Restart, FreshResults, ExtrasAreEarned
<1>4. CASE results'.plan = results.plan /\ results'.extras = results.extras
  <2>1. ASSUME results.extras
        PROVE  results.plan \in Jobs /\ outcome'[results.plan] = "completed"
    <3>1. results.plan \in Jobs /\ outcome[results.plan] = "completed"
      BY <2>1 DEF Undisturbed, ExtrasAreEarned
    <3> QED
      BY <3>1, OutcomeStep DEF Undisturbed, ExecutionIsOpen
  <2> QED
    BY <1>4, <2>1 DEF ExtrasAreEarned
<1>5. SaveWorkflow => results'.plan = results.plan /\ results'.extras = results.extras
  BY DEF SaveWorkflow
<1> QED
  BY <1>1, <1>2, <1>3, <1>4, <1>5
  DEF Next, User, Execution, NewJob, OpenLibrary, OpenSettings, SaveSettings,
      RunSavedWorkflow, BeginWorkflow, StartAnalysis, ContinueToPlan, GoBack, RequestPreview,
      RequestCancellation, RestoreBackup, RepeatWorkflow, AnalysisEnds, PreviewEnds, RestoreEnds,
      WorkerBegins, WorkerEnds, Ends, OnCompleted,
      OnFailed, OnCancelled, Pending, vars, workerVars

\* The inductive invariant: as long as no restore was started, Undisturbed.
LEMMA UndisturbedStep ==
  Typed /\ (restores = 0 => Undisturbed) /\ [Next]_vars => (restores = 0 => Undisturbed)'
<1> SUFFICES ASSUME Typed, restores = 0 => Undisturbed, [Next]_vars, restores' = 0
             PROVE  Undisturbed'
  OBVIOUS
<1>1. Undisturbed
  BY RestoresGrow
<1>2. Locked'
  BY <1>1, LockedStep DEF Undisturbed
<1>3. CurrentIsOpen'
  BY <1>1, MintedStep, OfferedStep DEF CurrentIsOpen, Offered
<1> QED
  BY <1>1, <1>2, <1>3, OpenStep, ExtrasStep, HistoryStep, SavedStep DEF Undisturbed

LEMMA QuietSession == Spec => [](Typed /\ (restores = 0 => Undisturbed))
<1>1. Init => Typed /\ (restores = 0 => Undisturbed)
  BY TypedInit, UndisturbedInit
<1> QED
  BY <1>1, TypedStep, UndisturbedStep, PTL DEF Spec

\* While no restore was started, a terminal record says what the executor did with
\* that job, cancellation, storage failures and restarts included.
THEOREM QuietHistoryTellsTheTruth == Spec => [](restores = 0 => HistoryTellsTheTruth)
<1>1. Typed /\ (restores = 0 => Undisturbed) => (restores = 0 => HistoryTellsTheTruth)
  BY DEF Undisturbed
<1> QED
  BY <1>1, QuietSession, PTL

\* While no restore was started, a second execution never starts before the first
\* one's result is handled.
THEOREM QuietExecutionsAreAlone == Spec => [](restores = 0 => OneExecutionAtATime)
<1>1. ASSUME Typed, Undisturbed PROVE OneExecutionAtATime
  <2>1. CASE Executing = {}
    BY <2>1, FS_EmptySet DEF OneExecutionAtATime
  <2>2. ASSUME NEW i \in Executing PROVE OneExecutionAtATime
    <3>1. Executing = {i}
      BY <1>1, <2>2, ExecutingIsCurrent DEF Executing, Undisturbed
    <3> QED
      BY <3>1, FS_Singleton DEF OneExecutionAtATime
  <2> QED
    BY <2>1, <2>2
<1>2. Typed /\ (restores = 0 => Undisturbed) => (restores = 0 => OneExecutionAtATime)
  BY <1>1
<1> QED
  BY <1>2, QuietSession, PTL

\* While no restore was started, the sidebar stays disabled during an execution.
THEOREM QuietControlsAreDisabled == Spec => [](restores = 0 => ConflictingControlsDisabled)
<1>1. Typed /\ (restores = 0 => Undisturbed) => (restores = 0 => ConflictingControlsDisabled)
  BY DEF Undisturbed, Locked, ExecutionLocks, ConflictingControlsDisabled
<1> QED
  BY <1>1, QuietSession, PTL

\* While no restore was started, only plans of completed executions are saved.
THEOREM QuietSavedPlansSucceeded == Spec => [](restores = 0 => SavedPlansSucceeded)
<1>1. Typed /\ (restores = 0 => Undisturbed) => (restores = 0 => SavedPlansSucceeded)
  BY DEF Undisturbed
<1> QED
  BY <1>1, QuietSession, PTL
=============================================================================
