---------------------------- MODULE JobExecution ----------------------------
(***************************************************************************)
(* The file transaction at the heart of SheetPilot: a previewed and        *)
(* approved job runs through JobExecutor.execute                           *)
(* (sheetpilot/core/executor.py), several jobs at a time, while other      *)
(* programs edit the source workbooks and create files in the directory    *)
(* the results go to.                                                      *)
(*                                                                         *)
(* Data is abstracted to what the transaction tells apart.  A fingerprint  *)
(* of a source is named by the content it was taken of, and a file in the  *)
(* result directory by the job that put it there.  A job's plan is a       *)
(* deterministic function of the contents of its sources, not always an    *)
(* injective one: different contents may have one result.  What is written *)
(* depends on two vectors of contents: those the plan was re-run on, and   *)
(* those the reviewed change list, with the values that the rejections put *)
(* back, was computed from.                                                *)
(*                                                                         *)
(* Every read of a source, every check of a name and every publication is  *)
(* a step of its own: between any two of them the environment may act.     *)
(***************************************************************************)
EXTENDS Naturals, FiniteSets

CONSTANTS
  Jobs,        \* executions, in one process or in several
  NumSources,  \* source bindings of a job, processed in this order
  Contents,    \* what a source file may contain
  Digest,      \* digest_tables of each job's plan run on a vector of contents
  NoResult,    \* ... where the plan raises instead
  Applicable,  \* finals whose rejected changes can be put back, and judged
  Acceptable,  \* ... that pass every quality rule of the plan
  Writable,    \* ... that the output writer can write
  Reopenable,  \* ... whose written file passes validate_output_file
  Paths,       \* file names in the result directory
  OutputPath,  \* the name each job's output is published under
  AuditPath,   \* ... its audit report
  RejectPath,  \* ... its retained failed artifact
  Platform,    \* "nt" publishes by rename, "posix" by link and unlink
  FaultSets,   \* the sets of failure kinds an environment may be subject to
  MaxEdits,    \* bound on the edits other programs make to the sources
  Nobody,      \* no file has this name
  Others,      \* a file that no job made has this name
  Unread       \* no content has been copied yet

Sources == 1 .. NumSources
Vectors == [Sources -> Contents]

\* io: an ordinary I/O error; cleanup: the temporary workspace cannot be
\* removed; quarantine: a file cannot be moved to the failed folder; undo: the
\* published link cannot be taken back; crash: the process dies.
FaultKinds == {"io", "cleanup", "quarantine", "undo", "crash"}

ASSUME SourcesAssumption == NumSources \in Nat \ {0}
ASSUME NamesAssumption ==
  /\ OutputPath \in [Jobs -> Paths]
  /\ AuditPath \in [Jobs -> Paths]
  /\ RejectPath \in [Jobs -> Paths]
  /\ Nobody # Others /\ Nobody \notin Jobs /\ Others \notin Jobs
  /\ Unread \notin Contents
\* A final is what a job would write: re-run on the first vector, with the changes
\* rejected in the preview of the second.
ASSUME ResultsAssumption ==
  /\ \A j \in Jobs : DOMAIN Digest[j] = Vectors
  /\ \A finals \in {Applicable, Acceptable, Writable, Reopenable} :
       finals \in [Jobs -> SUBSET (Vectors \X Vectors)]
\* The extensions csv/xlsx and json keep a job's names apart, and the rejected
\* artifact lives in a folder named after the job.
ASSUME DistinctNamesAssumption ==
  \A i, j \in Jobs :
    /\ OutputPath[i] # AuditPath[j]
    /\ RejectPath[i] # OutputPath[j]
    /\ RejectPath[i] # AuditPath[j]
    /\ RejectPath[i] = RejectPath[j] => i = j
ASSUME FaultsAssumption == FaultSets \subseteq SUBSET FaultKinds
ASSUME PlatformAssumption == Platform \in {"nt", "posix"}

VARIABLES
  source,     \* content of every source file now
  edits,      \* edits made to them so far (bounded by MaxEdits)
  faults,     \* what may fail in this environment, chosen once
  holder,     \* who made the file of each name in the result directory
  pc,         \* where each job is
  at,         \* the binding its current loop has reached
  analysed,   \* fingerprint of every source when it was analysed
  previewed,  \* contents the preview that the user reviewed was computed from
  consent,    \* whether the approval handed over is the one the code demands
  backup,     \* contents kept in the backup folder
  copied,     \* contents of the private working copies
  target,     \* which file the job is writing
  staged,     \* a .partial file exists beside that file's final name
  fresh,      \* history: sources seen unchanged since the stage was validated
  retained,   \* what the job keeps in the failed folder
  workspace   \* its temporary workspace exists

envVars == <<source, edits, faults>>
inputVars == <<analysed, previewed, consent>>
keptVars == <<backup, copied>>
writeVars == <<target, staged, fresh, retained>>
vars == <<source, edits, faults, holder, pc, at, analysed, previewed, consent, backup,
          copied, target, staged, fresh, retained, workspace>>

Kinds == {"output", "rejected", "audit"}
Terminal == {"completed", "failed", "crashed"}
PreviewSteps == {"preview", "load", "recheck", "ask"}
BeforeWorkspace == {"begin", "verify", "backup", "resolve", "resolveAudit", "enter"}
WriterSteps == {"stage", "check", "precommit", "publish", "unlink", "undo",
                "quarantine"}
Steps == PreviewSteps \union BeforeWorkspace \union WriterSteps
           \union {"copy", "run", "leave", "unwind", "withdraw"} \union Terminal

TypeOK ==
  /\ source \in [Sources -> Contents]
  /\ edits \in Nat
  /\ faults \in FaultSets
  /\ holder \in [Paths -> Jobs \union {Nobody, Others}]
  /\ pc \in [Jobs -> Steps]
  /\ at \in [Jobs -> Sources]
  /\ analysed \in [Jobs -> [Sources -> Contents]]
  /\ previewed \in [Jobs -> [Sources -> Contents \union {Unread}]]
  /\ consent \in [Jobs -> BOOLEAN]
  /\ backup \in [Jobs -> [Sources -> Contents \union {Unread}]]
  /\ copied \in [Jobs -> [Sources -> Contents \union {Unread}]]
  /\ target \in [Jobs -> Kinds]
  /\ staged \in [Jobs -> BOOLEAN]
  /\ fresh \in [Jobs -> SUBSET Sources]
  /\ retained \in [Jobs -> SUBSET Kinds]
  /\ workspace \in [Jobs -> BOOLEAN]

NothingRead == [s \in Sources |-> Unread]

Init ==
  /\ source \in [Sources -> Contents]
  /\ edits = 0
  /\ faults \in FaultSets
  /\ holder \in {h \in [Paths -> {Nobody, Others}] :
                   \A j \in Jobs : h[RejectPath[j]] = Nobody}
  /\ pc = [j \in Jobs |-> "preview"]
  /\ at = [j \in Jobs |-> 1]
  /\ analysed \in [Jobs -> [Sources -> Contents]]
  /\ previewed = [j \in Jobs |-> NothingRead]
  /\ consent = [j \in Jobs |-> FALSE]
  /\ backup = [j \in Jobs |-> NothingRead]
  /\ copied = [j \in Jobs |-> NothingRead]
  /\ target = [j \in Jobs |-> "output"]
  /\ staged = [j \in Jobs |-> FALSE]
  /\ fresh = [j \in Jobs |-> {}]
  /\ retained = [j \in Jobs |-> {}]
  /\ workspace = [j \in Jobs |-> FALSE]

-----------------------------------------------------------------------------
(* Control flow. *)

Goto(j, here, there) ==
  /\ pc[j] = here
  /\ pc' = [pc EXCEPT ![j] = there]

EachBindingOverrun(j, here, there) ==
  /\ pc[j] = here
  /\ pc' = [pc EXCEPT ![j] = IF at[j] = NumSources THEN there ELSE here]
  /\ at' = [at EXCEPT ![j] = at[j] + 1]

\* One turn of a `for binding in bindings` loop at step `here`.
EachBinding(j, here, there) ==
  /\ pc[j] = here
  /\ pc' = [pc EXCEPT ![j] = IF at[j] = NumSources THEN there ELSE here]
  /\ at' = [at EXCEPT ![j] = IF at[j] = NumSources THEN 1 ELSE at[j] + 1]

BreakLoopRetrying(j, here, there) ==
  /\ pc[j] = here
  /\ at' = [at EXCEPT ![j] = 1]
  /\ UNCHANGED pc

\* The loop raises: its remaining turns do not happen.
BreakLoop(j, here, there) == Goto(j, here, there) /\ at' = [at EXCEPT ![j] = 1]

\* verify_fingerprint of the binding the loop is at.
Unchanged(j) == source[at[j]] = analysed[j][at[j]]

\* A failed verification: the content differs or cannot be read.
ChangedOrUnreadable(j) == ~Unchanged(j) \/ "io" \in faults

\* Where a job whose executor raised goes: through the exit of the workspace
\* when it is inside the `with` block.
Raised(j) == IF workspace[j] THEN "unwind" ELSE "failed"

-----------------------------------------------------------------------------
(* Preview and approval (preview_engine.py). *)

PreviewVerify(j) ==
  /\ Unchanged(j)
  /\ EachBinding(j, "preview", "load")
  /\ UNCHANGED <<envVars, holder, inputVars, keptVars, writeVars, workspace>>

\* The preview reads the live source, not a copy.
PreviewLoad(j) ==
  /\ previewed' = [previewed EXCEPT ![j][at[j]] = source[at[j]]]
  /\ EachBinding(j, "load", "recheck")
  /\ UNCHANGED <<envVars, holder, analysed, consent, keptVars, writeVars, workspace>>

\* The plan has a result on what was loaded.
PlanRuns(j) == Digest[j][previewed[j]] # NoResult

\* The plan has run before the sources are verified again.
PreviewRecheck(j) ==
  /\ Unchanged(j)
  /\ EachBinding(j, "recheck", "ask")
  /\ PlanRuns(j)
  /\ UNCHANGED <<envVars, holder, inputVars, keptVars, writeVars, workspace>>

\* The preview fails safely and may be generated again.
PreviewFails(j) ==
  /\ \E here \in {"preview", "load", "recheck"} : BreakLoop(j, here, "preview")
  /\ pc[j] = "preview" => ChangedOrUnreadable(j)
  /\ pc[j] = "load" => "io" \in faults
  /\ pc[j] = "recheck" => ChangedOrUnreadable(j) \/ ~PlanRuns(j)
  /\ UNCHANGED <<envVars, holder, inputVars, keptVars, writeVars, workspace>>

\* The user decides; ok says whether the plan, the bindings and the approval
\* handed to the executor are the ones the preview was generated for, with
\* every destructive step confirmed.
Approve(j) ==
  /\ Goto(j, "ask", "begin")
  /\ \E ok \in BOOLEAN : consent' = [consent EXCEPT ![j] = ok]
  /\ UNCHANGED <<envVars, holder, at, analysed, previewed, keptVars, writeVars, workspace>>

-----------------------------------------------------------------------------
(* JobExecutor.execute, up to the staged result. *)

\* PlanValidator.validate, validate_approval and the comparison of the plan and
\* source digests with the preview's.
Begin(j) ==
  /\ Goto(j, "begin", IF consent[j] THEN "verify" ELSE "failed")
  /\ UNCHANGED <<envVars, holder, at, inputVars, keptVars, writeVars, workspace>>

VerifySource(j) ==
  /\ Unchanged(j)
  /\ EachBinding(j, "verify", "backup")
  /\ UNCHANGED <<envVars, holder, inputVars, keptVars, writeVars, workspace>>

BackupUnverified(j) ==
  /\ backup' = [backup EXCEPT ![j][at[j]] = source[at[j]]]
  /\ EachBinding(j, "backup", "resolve")
  /\ UNCHANGED <<envVars, holder, inputVars, copied, writeVars, workspace>>

\* create_backup publishes the copy only if it has the analysed content.
BackupSource(j) ==
  /\ Unchanged(j)
  /\ backup' = [backup EXCEPT ![j][at[j]] = source[at[j]]]
  /\ EachBinding(j, "backup", "resolve")
  /\ UNCHANGED <<envVars, holder, inputVars, copied, writeVars, workspace>>

ResolveOutput(j) ==
  /\ Goto(j, "resolve", IF holder[OutputPath[j]] = Nobody THEN "resolveAudit" ELSE "failed")
  /\ UNCHANGED <<envVars, holder, at, inputVars, keptVars, writeVars, workspace>>

ResolveAudit(j) ==
  /\ Goto(j, "resolveAudit", IF holder[AuditPath[j]] = Nobody THEN "enter" ELSE "failed")
  /\ UNCHANGED <<envVars, holder, at, inputVars, keptVars, writeVars, workspace>>

EnterWorkspace(j) ==
  /\ Goto(j, "enter", "copy")
  /\ workspace' = [workspace EXCEPT ![j] = TRUE]
  /\ UNCHANGED <<envVars, holder, at, inputVars, keptVars, writeVars>>

\* copy_source verifies the source, its copy and the working copy.
CopySource(j) ==
  /\ Unchanged(j)
  /\ copied' = [copied EXCEPT ![j][at[j]] = source[at[j]]]
  /\ EachBinding(j, "copy", "run")
  /\ UNCHANGED <<envVars, holder, inputVars, backup, writeVars, workspace>>

\* A verification loop of the executor finds a source changed.
SourceCheckFails(j) ==
  /\ \E here \in {"verify", "backup", "copy"} : BreakLoop(j, here, Raised(j))
  /\ ChangedOrUnreadable(j)
  /\ UNCHANGED <<envVars, holder, inputVars, keptVars, writeVars, workspace>>

\* The re-run gave the tables whose digest the preview carries.
Reproduced(j) == Digest[j][copied[j]] = Digest[j][previewed[j]]

\* What the job would write, and whether nothing in it stops the job.
Final(j) == <<copied[j], previewed[j]>>
Deliverable(j, final) ==
  final \in Applicable[j] \intersect Acceptable[j] \intersect Writable[j] \intersect Reopenable[j]

\* The run, its digest and the rejections leave tables to be judged.
Judged(j) == Reproduced(j) /\ Final(j) \in Applicable[j]

\* Which file a re-executed plan deserves.
Verdict(j) == IF Judged(j) /\ Final(j) \notin Acceptable[j] THEN "rejected" ELSE "output"

RunPlanUnvalidated(j) ==
  /\ Goto(j, "run", IF Judged(j) THEN "stage" ELSE "unwind")
  /\ target' = [target EXCEPT ![j] = "output"]
  /\ UNCHANGED <<envVars, holder, at, inputVars, keptVars, staged, fresh, retained, workspace>>

\* Re-execution on the working copies: a result that differs from the approved
\* preview's, or from which the rejections cannot be taken, is refused; one that
\* fails validation is written only as a failed artifact.
RunPlan(j) ==
  /\ Goto(j, "run", IF Judged(j) THEN "stage" ELSE "unwind")
  /\ target' = [target EXCEPT ![j] = Verdict(j)]
  /\ UNCHANGED <<envVars, holder, at, inputVars, keptVars, staged, fresh, retained, workspace>>

-----------------------------------------------------------------------------
(* AtomicOutputWriter.write, used for the output, for the failed artifact   *)
(* and for the audit report.                                                *)

Dest(j) ==
  IF target[j] = "output" THEN OutputPath[j]
  ELSE IF target[j] = "audit" THEN AuditPath[j] ELSE RejectPath[j]

\* What the executor does when write returns, and when it raises.
Written(j) ==
  IF target[j] = "output" THEN "leave"
  ELSE IF target[j] = "audit" THEN "completed" ELSE "unwind"
WriteRaised(j) == IF target[j] = "audit" THEN "withdraw" ELSE "unwind"

\* The executor's writer accepts the tables; the audit report is always written.
CanWrite(j) == target[j] = "audit" \/ Final(j) \in Writable[j]

StageReservingName(j) ==
  /\ holder[Dest(j)] = Nobody => CanWrite(j)
  /\ IF holder[Dest(j)] = Nobody
     THEN Goto(j, "stage", "check") /\ staged' = [staged EXCEPT ![j] = TRUE]
     ELSE Goto(j, "stage", WriteRaised(j)) /\ UNCHANGED staged
  /\ holder' = [holder EXCEPT ![Dest(j)] = IF @ = Nobody THEN j ELSE @]
  /\ UNCHANGED <<envVars, at, inputVars, keptVars, target, fresh, retained, workspace>>

\* An existing destination is refused before anything is staged.
StageFile(j) ==
  /\ holder[Dest(j)] = Nobody => CanWrite(j)
  /\ IF holder[Dest(j)] = Nobody
     THEN Goto(j, "stage", "check") /\ staged' = [staged EXCEPT ![j] = TRUE]
     ELSE Goto(j, "stage", WriteRaised(j)) /\ UNCHANGED staged
  /\ UNCHANGED <<envVars, holder, at, inputVars, keptVars, target, fresh, retained, workspace>>

\* The writer refuses the tables: more than one for a CSV file, a sheet with merged
\* cells, a formula that would move.  It leaves no partial file.
WriterRefuses(j) ==
  /\ ~CanWrite(j)
  /\ holder[Dest(j)] = Nobody
  /\ Goto(j, "stage", "quarantine")
  /\ UNCHANGED <<envVars, holder, at, inputVars, keptVars, writeVars, workspace>>

\* The writer fails on the way, with or without a partial file left behind.
StageFails(j) ==
  /\ "io" \in faults
  /\ holder[Dest(j)] = Nobody
  /\ Goto(j, "stage", "quarantine")
  /\ \E left \in BOOLEAN : staged' = [staged EXCEPT ![j] = left]
  /\ UNCHANGED <<envVars, holder, at, inputVars, keptVars, target, fresh, retained, workspace>>

SeenFresh(j) == {s \in Sources : source[s] = analysed[j][s]}

\* The written file, re-opened, passes its validator.
Reopens(j) == target[j] = "audit" \/ Final(j) \in Reopenable[j]

CheckWithoutRecheck(j) ==
  /\ Reopens(j)
  /\ Goto(j, "check", "publish")
  /\ fresh' = [fresh EXCEPT ![j] = IF target[j] = "audit" THEN @ ELSE SeenFresh(j)]
  /\ UNCHANGED <<envVars, holder, at, inputVars, keptVars, target, staged, retained, workspace>>

\* The stage is re-opened, validated and fingerprinted.  The audit report has
\* no pre_commit callback; the other two verify the sources once more.
CheckStage(j) ==
  /\ Reopens(j)
  /\ Goto(j, "check", IF target[j] = "audit" THEN "publish" ELSE "precommit")
  /\ fresh' = [fresh EXCEPT ![j] = IF target[j] = "audit" THEN @ ELSE SeenFresh(j)]
  /\ UNCHANGED <<envVars, holder, at, inputVars, keptVars, target, staged, retained, workspace>>

\* validate_output_file raises: the file exceeds a limit or does not parse.
StageInvalid(j) ==
  /\ ~Reopens(j)
  /\ Goto(j, "check", "quarantine")
  /\ UNCHANGED <<envVars, holder, at, inputVars, keptVars, writeVars, workspace>>

\* The stage cannot be read, or the filesystem refuses to publish it.
StageRefused(j) ==
  /\ "io" \in faults
  /\ \E here \in {"check", "publish"} : Goto(j, here, "quarantine")
  /\ UNCHANGED <<envVars, holder, at, inputVars, keptVars, writeVars, workspace>>

PrecommitVerify(j) ==
  /\ Unchanged(j)
  /\ EachBinding(j, "precommit", "publish")
  /\ UNCHANGED <<envVars, holder, inputVars, keptVars, writeVars, workspace>>

PrecommitFails(j) ==
  /\ ChangedOrUnreadable(j)
  /\ BreakLoop(j, "precommit", "quarantine")
  /\ UNCHANGED <<envVars, holder, inputVars, keptVars, writeVars, workspace>>

RenameReplacing(j) ==
  /\ Platform = "nt"
  /\ Goto(j, "publish", Written(j))
  /\ holder' = [holder EXCEPT ![Dest(j)] = j]
  /\ staged' = [staged EXCEPT ![j] = FALSE]
  /\ UNCHANGED <<envVars, at, inputVars, keptVars, target, fresh, retained, workspace>>

\* publish_new_file on Windows: rename fails when the name is taken.
RenameStage(j) ==
  /\ Platform = "nt"
  /\ holder[Dest(j)] = Nobody
  /\ Goto(j, "publish", Written(j))
  /\ holder' = [holder EXCEPT ![Dest(j)] = j]
  /\ staged' = [staged EXCEPT ![j] = FALSE]
  /\ UNCHANGED <<envVars, at, inputVars, keptVars, target, fresh, retained, workspace>>

LinkReplacing(j) ==
  /\ Platform = "posix"
  /\ Goto(j, "publish", "unlink")
  /\ holder' = [holder EXCEPT ![Dest(j)] = j]
  /\ UNCHANGED <<envVars, at, inputVars, keptVars, writeVars, workspace>>

\* publish_new_file elsewhere: a hard link creates the name if it is absent ...
LinkStage(j) ==
  /\ Platform = "posix"
  /\ holder[Dest(j)] = Nobody
  /\ Goto(j, "publish", "unlink")
  /\ holder' = [holder EXCEPT ![Dest(j)] = j]
  /\ UNCHANGED <<envVars, at, inputVars, keptVars, writeVars, workspace>>

\* ... then the staging name goes ...
UnlinkStage(j) ==
  /\ Goto(j, "unlink", Written(j))
  /\ staged' = [staged EXCEPT ![j] = FALSE]
  /\ UNCHANGED <<envVars, holder, at, inputVars, keptVars, target, fresh, retained, workspace>>

UnlinkFails(j) ==
  /\ "io" \in faults
  /\ Goto(j, "unlink", "undo")
  /\ UNCHANGED <<envVars, holder, at, inputVars, keptVars, writeVars, workspace>>

UndoSkipped(j) ==
  /\ Goto(j, "undo", "quarantine")
  /\ UNCHANGED <<envVars, holder, at, inputVars, keptVars, writeVars, workspace>>

\* ... or, if it cannot, the published name is taken back.
UndoLink(j) ==
  /\ Goto(j, "undo", "quarantine")
  /\ holder' = [holder EXCEPT ![Dest(j)] = Nobody]
  /\ UNCHANGED <<envVars, at, inputVars, keptVars, writeVars, workspace>>

UndoFails(j) ==
  /\ "undo" \in faults
  /\ Goto(j, "undo", "quarantine")
  /\ UNCHANGED <<envVars, holder, at, inputVars, keptVars, writeVars, workspace>>

\* Another process created the destination since it was resolved.
PublishCollides(j) ==
  /\ holder[Dest(j)] # Nobody
  /\ Goto(j, "publish", "quarantine")
  /\ UNCHANGED <<envVars, holder, at, inputVars, keptVars, writeVars, workspace>>

QuarantineCopying(j) ==
  /\ Goto(j, "quarantine", WriteRaised(j))
  /\ retained' = [retained EXCEPT ![j] = IF staged[j] THEN @ \union {target[j]} ELSE @]
  /\ UNCHANGED <<envVars, holder, at, inputVars, keptVars, target, staged, fresh, workspace>>

\* _quarantine: an existing stage moves to the failed folder.
Quarantine(j) ==
  /\ Goto(j, "quarantine", WriteRaised(j))
  /\ retained' = [retained EXCEPT ![j] = IF staged[j] THEN @ \union {target[j]} ELSE @]
  /\ staged' = [staged EXCEPT ![j] = FALSE]
  /\ UNCHANGED <<envVars, holder, at, inputVars, keptVars, target, fresh, workspace>>

QuarantineFails(j) ==
  /\ "quarantine" \in faults
  /\ staged[j]
  /\ Goto(j, "quarantine", WriteRaised(j))
  /\ UNCHANGED <<envVars, holder, at, inputVars, keptVars, writeVars, workspace>>

-----------------------------------------------------------------------------
(* JobExecutor.execute, after the write. *)

\* IsolatedWorkspace.__exit__ with the output published; the audit is next.
LeaveWorkspace(j) ==
  /\ Goto(j, "leave", "stage")
  /\ workspace' = [workspace EXCEPT ![j] = FALSE]
  /\ target' = [target EXCEPT ![j] = "audit"]
  /\ UNCHANGED <<envVars, holder, at, inputVars, keptVars, staged, fresh, retained>>

\* IsolatedWorkspace.__exit__ while an exception passes through it.
Unwind(j) ==
  /\ Goto(j, "unwind", "failed")
  /\ workspace' = [workspace EXCEPT ![j] = FALSE]
  /\ UNCHANGED <<envVars, holder, at, inputVars, keptVars, writeVars>>

\* TemporaryDirectory.cleanup raises: nothing after the `with` block runs.
CleanupFails(j) ==
  /\ "cleanup" \in faults
  /\ \E here \in {"leave", "unwind"} : Goto(j, here, "failed")
  /\ UNCHANGED <<envVars, holder, at, inputVars, keptVars, writeVars, workspace>>

WithdrawSkipped(j) ==
  /\ Goto(j, "withdraw", "failed")
  /\ UNCHANGED <<envVars, holder, at, inputVars, keptVars, writeVars, workspace>>

WithdrawDeleting(j) ==
  /\ Goto(j, "withdraw", "failed")
  /\ holder' = [holder EXCEPT ![OutputPath[j]] = Nobody]
  /\ UNCHANGED <<envVars, at, inputVars, keptVars, writeVars, workspace>>

\* quarantine_committed: without its audit report the output is taken back.
WithdrawOutput(j) ==
  /\ Goto(j, "withdraw", "failed")
  /\ holder' = [holder EXCEPT ![OutputPath[j]] = Nobody]
  /\ retained' = [retained EXCEPT ![j] = @ \union {"output"}]
  /\ UNCHANGED <<envVars, at, inputVars, keptVars, target, staged, fresh, workspace>>

WithdrawFails(j) ==
  /\ "quarantine" \in faults
  /\ Goto(j, "withdraw", "failed")
  /\ UNCHANGED <<envVars, holder, at, inputVars, keptVars, writeVars, workspace>>

\* A directory cannot be resolved or created, a working copy cannot be read.
StepRaises(j) ==
  /\ "io" \in faults
  /\ \E here \in {"resolve", "resolveAudit", "enter", "run"} : Goto(j, here, Raised(j))
  /\ UNCHANGED <<envVars, holder, at, inputVars, keptVars, writeVars, workspace>>

\* The process dies; whatever is on the disk stays there, and nothing recovers it.
Crash(j) ==
  /\ "crash" \in faults
  /\ pc[j] \notin PreviewSteps \union Terminal
  /\ pc' = [pc EXCEPT ![j] = "crashed"]
  /\ UNCHANGED <<envVars, holder, at, inputVars, keptVars, writeVars, workspace>>

-----------------------------------------------------------------------------
(* The environment. *)

\* Somebody saves a source workbook.
EditSource(s, c) ==
  /\ edits < MaxEdits
  /\ source[s] # c
  /\ source' = [source EXCEPT ![s] = c]
  /\ edits' = edits + 1
  /\ fresh' = [j \in Jobs |-> IF c = analysed[j][s] THEN fresh[j] \union {s} ELSE fresh[j]]
  /\ UNCHANGED <<faults, holder, pc, at, inputVars, keptVars, target, staged, retained,
                 workspace>>

\* Another program creates a file in the result directory.
OthersCreate(p) ==
  /\ holder[p] = Nobody
  /\ \A j \in Jobs : RejectPath[j] # p
  /\ holder' = [holder EXCEPT ![p] = Others]
  /\ UNCHANGED <<envVars, pc, at, inputVars, keptVars, writeVars, workspace>>

-----------------------------------------------------------------------------
(* Specification. *)

Preview(j) ==
  \/ PreviewVerify(j)
  \/ PreviewLoad(j)
  \/ PreviewRecheck(j)
  \/ PreviewFails(j)
  \/ Approve(j)

Write(j) ==
  \/ StageFile(j)
  \/ WriterRefuses(j)
  \/ StageFails(j)
  \/ CheckStage(j)
  \/ StageInvalid(j)
  \/ StageRefused(j)
  \/ PrecommitVerify(j)
  \/ PrecommitFails(j)
  \/ RenameStage(j)
  \/ LinkStage(j)
  \/ UnlinkStage(j)
  \/ UnlinkFails(j)
  \/ UndoLink(j)
  \/ UndoFails(j)
  \/ PublishCollides(j)
  \/ Quarantine(j)
  \/ QuarantineFails(j)

Execute(j) ==
  \/ Begin(j)
  \/ VerifySource(j)
  \/ BackupSource(j)
  \/ ResolveOutput(j)
  \/ ResolveAudit(j)
  \/ EnterWorkspace(j)
  \/ CopySource(j)
  \/ SourceCheckFails(j)
  \/ RunPlan(j)
  \/ StepRaises(j)
  \/ Write(j)
  \/ LeaveWorkspace(j)
  \/ Unwind(j)
  \/ CleanupFails(j)
  \/ WithdrawOutput(j)
  \/ WithdrawFails(j)

Environment ==
  \/ \E s \in Sources, c \in Contents : EditSource(s, c)
  \/ \E p \in Paths : OthersCreate(p)

Next ==
  \/ \E j \in Jobs : Preview(j) \/ Execute(j) \/ Crash(j)
  \/ Environment

Spec == Init /\ [][Next]_vars

\* A worker thread that runs an execution keeps taking steps; nobody is obliged
\* to preview or approve a job, to edit a source or to create a file.
Fairness == \A j \in Jobs : WF_vars(Execute(j))

FairSpec == Spec /\ Fairness

-----------------------------------------------------------------------------
(* Properties. *)

OutputVisible(j) == holder[OutputPath[j]] = j
AuditVisible(j) == holder[AuditPath[j]] = j

\* Whatever is published as a job's output was consented to, was computed from
\* exactly the contents that were analysed, has the digest of the result that the
\* reviewed preview showed, and with the reviewer's rejections it passed validation
\* -- although the preview reads live files and every check happens some steps
\* before the publication.
OutputIsWhatWasApproved ==
  \A j \in Jobs : OutputVisible(j) =>
    /\ consent[j]
    /\ copied[j] = analysed[j]
    /\ Reproduced(j)
    /\ Deliverable(j, Final(j))

\* No output is visible before every source it was made from has a backup with
\* the analysed content: the user can always go back.
BackedUpBeforeOutput ==
  \A j \in Jobs : OutputVisible(j) => backup[j] = analysed[j]

\* An output is published only if every source had its analysed content at some
\* moment after the output was staged and validated: a source that changed
\* earlier and was not changed back stops the publication (pre_commit).
StaleSourceIsNeverPublished ==
  \A j \in Jobs : OutputVisible(j) => fresh[j] = Sources

FilesKept ==
  \A p \in Paths :
    holder[p] # Nobody /\ holder'[p] # holder[p] =>
      /\ holder'[p] = Nobody
      /\ holder[p] \in Jobs
      /\ pc[holder[p]] \in {"undo", "withdraw"}
      /\ pc'[holder[p]] # pc[holder[p]]

\* A file that somebody else made, a source file or another job's result among
\* them, is never replaced or removed; a job removes a published file only if it
\* is its own, and only to take back what will not be completed.
OthersFilesAreSafe == [][FilesKept]_vars

\* Without I/O failures, whichever process dies meanwhile, an execution fails only
\* because the approval does not match, a source was edited, somebody else has one
\* of its two file names, or the result it was approved for cannot be delivered: a
\* rejection has no column left to go to, a quality rule is broken, the output
\* format cannot hold the tables.  The steps of a job never get in each other's way.
FailsOnlyForCause ==
  faults \subseteq {"crash"} =>
    \A j \in Jobs : pc[j] = "failed" =>
      \/ ~consent[j]
      \/ edits > 0
      \/ ~Deliverable(j, <<analysed[j], analysed[j]>>)
      \/ \E p \in {OutputPath[j], AuditPath[j]} : holder[p] \notin {Nobody, j}
      \/ \E i \in Jobs \ {j} : OutputPath[i] = OutputPath[j]

\* A job that has ended leaves neither a partial file beside the results nor its
\* workspace, unless exactly the operation that removes it failed.
NothingIsLeftBehind ==
  \A j \in Jobs : pc[j] \in {"completed", "failed"} =>
    /\ "quarantine" \notin faults => ~staged[j]
    /\ "cleanup" \notin faults => ~workspace[j]

\* What a failed job had produced is kept for inspection: a result that failed
\* validation, if the output format can hold it at all, and an output whose audit
\* report could not be published.
FailedWorkIsRetained ==
  faults \intersect {"io", "quarantine", "cleanup"} = {} =>
    \A j \in Jobs : pc[j] = "failed" =>
      /\ target[j] = "rejected" /\ CanWrite(j) =>
           holder[RejectPath[j]] = j \/ "rejected" \in retained[j]
      /\ target[j] = "audit" => "output" \in retained[j]

\* A failed job shows nothing in the result directory (SPECIFICATION.md, 22:
\* "Failed jobs do not produce misleading output").
FailedJobsShowNothing ==
  \A j \in Jobs : pc[j] = "failed" => ~OutputVisible(j) /\ ~AuditVisible(j)

\* ... at least as long as no clean-up step fails itself: whichever step of the
\* transaction raises, what was published is taken back.
RecoverableFailuresShowNothing ==
  faults \intersect {"cleanup", "quarantine", "undo"} = {} => FailedJobsShowNothing

\* Every execution that begins is reported completed or failed, unless the
\* process dies.
EveryExecutionEnds ==
  \A j \in Jobs : pc[j] = "begin" ~> pc[j] \in Terminal

OutcomeOf(j) ==
  CASE pc[j] = "completed" -> "completed"
    [] pc[j] = "failed" -> "failed"
    [] pc[j] = "crashed" -> "lost"
    [] OTHER -> "open"

DeliveredOf(j) ==
  {k \in {"output", "audit"} : IF k = "output" THEN OutputVisible(j) ELSE AuditVisible(j)}

Contract == INSTANCE JobContract WITH
  outcome <- [j \in Jobs |-> OutcomeOf(j)],
  delivered <- [j \in Jobs |-> DeliveredOf(j)]

\* The transaction implements the contract: completion is reported only for an
\* output and its audit report, both visible under their final names, and
\* failure only for a job that shows neither.
ImplementsContract == Contract!Spec
=============================================================================
