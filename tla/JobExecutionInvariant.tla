------------------------ MODULE JobExecutionInvariant ------------------------
(***************************************************************************)
(* What the properties of JobExecution rest on: the facts every step       *)
(* preserves.  The runs check them, JobExecution_proofs proves them.       *)
(***************************************************************************)
EXTENDS JobExecution

\* Past these points the job carries a matching approval, complete backups,
\* verified working copies.
Approved == Steps \ (PreviewSteps \union {"begin", "failed", "crashed"})
BackedUp == Approved \ {"verify", "backup", "unwind"}
Loops == {"preview", "load", "recheck", "verify", "backup", "copy", "precommit"}
Copied == WriterSteps \union {"run", "leave", "withdraw", "completed"}

ConsentHolds(j) == pc[j] \in Approved => consent[j]

\* Every loop starts with the first binding.
LoopStarts(j) == pc[j] \notin Loops \union {"crashed"} => at[j] = 1

BackupProgress(j) ==
  /\ pc[j] = "backup" => \A s \in Sources : s < at[j] => backup[j][s] = analysed[j][s]
  /\ pc[j] \in BackedUp => \A s \in Sources : backup[j][s] = analysed[j][s]

CopyProgress(j) ==
  /\ pc[j] = "copy" => \A s \in Sources : s < at[j] => copied[j][s] = analysed[j][s]
  /\ pc[j] \in Copied => \A s \in Sources : copied[j][s] = analysed[j][s]

\* A result is only written when it has the previewed digest, and under an output's
\* name only when, with the rejections, it is acceptable; it is published only when
\* the writer and the validator have passed it.
ResultApproved(j) ==
  pc[j] \in Copied \ {"run"} =>
    /\ Judged(j)
    /\ target[j] # "rejected" => Final(j) \in Acceptable[j]
    /\ pc[j] \in {"check", "precommit", "publish", "unlink", "undo"} => CanWrite(j)
    /\ pc[j] \in {"precommit", "publish", "unlink", "undo"} => Reopens(j)

TargetOfStep(j) ==
  /\ pc[j] = "leave" => target[j] = "output"
  /\ pc[j] = "precommit" => target[j] # "audit"
  /\ pc[j] = "withdraw" => target[j] = "audit"

\* pre_commit has seen the sources it has passed, since the stage was validated.
PrecommitProgress(j) ==
  /\ pc[j] = "precommit" =>
       /\ \A s \in Sources : s < at[j] => s \in fresh[j]
       /\ \A s \in Sources : source[s] = analysed[j][s] => s \in fresh[j]
  /\ pc[j] = "publish" /\ target[j] = "output" => \A s \in Sources : s \in fresh[j]

\* An output is visible only once its job has published it.
VisibleSince(j) ==
  OutputVisible(j) =>
    \/ pc[j] \in {"unlink", "undo", "quarantine", "leave", "unwind", "withdraw"} \union Terminal
    \/ pc[j] \in {"stage", "check", "publish"} /\ target[j] = "audit"

\* The files a job may take back are its own.
OwnsWhatItUndoes(j) ==
  /\ pc[j] \in {"unlink", "undo"} => holder[Dest(j)] = j
  /\ pc[j] \in WriterSteps \union {"withdraw"} /\ target[j] = "audit" => OutputVisible(j)
  /\ pc[j] = "leave" => OutputVisible(j)

JobInv(j) ==
  /\ ConsentHolds(j)
  /\ LoopStarts(j)
  /\ BackupProgress(j)
  /\ CopyProgress(j)
  /\ ResultApproved(j)
  /\ TargetOfStep(j)
  /\ PrecommitProgress(j)
  /\ VisibleSince(j)
  /\ OwnsWhatItUndoes(j)

\* The inductive invariant: the facts above and the safety properties
\* themselves; it holds on every platform and under every failure.
Inductive ==
  /\ TypeOK
  /\ \A j \in Jobs : JobInv(j)
  /\ OutputIsWhatWasApproved
  /\ BackedUpBeforeOutput
  /\ StaleSourceIsNeverPublished

\* The operations that take a published file back, or end the workspace, do
\* not fail.
CleanUp == {"cleanup", "quarantine", "undo"}
Recoverable == faults \intersect CleanUp = {}

\* ... in any environment considered.
AlwaysRecoverable == \A F \in FaultSets : F \intersect CleanUp = {}

\* Then no file is on display whose job can no longer take it back, or complete
\* with it.
Unstranded(j) ==
  /\ pc[j] \in {"unwind", "failed"} => ~OutputVisible(j)
  /\ pc[j] = "quarantine" /\ target[j] = "output" => ~OutputVisible(j)
  /\ target[j] = "rejected" => ~OutputVisible(j)
  /\ AuditVisible(j) =>
       \/ pc[j] \in {"completed", "crashed"}
       \/ pc[j] \in {"unlink", "undo"} /\ target[j] = "audit"
=============================================================================
