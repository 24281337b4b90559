------------------------- MODULE JobOutcomes_proofs -------------------------
(***************************************************************************)
(* Theorems about how the executions of JobExecution end: what they leave  *)
(* on the disk, what they keep, and what a failure may be blamed on.  They *)
(* hold for every set of jobs, every number of sources, every set of       *)
(* contents and names and on both platforms.                               *)
(*                                                                         *)
(* Each theorem has an invariant of its own on top of JobExecution_proofs' *)
(* Inductive, under the premise its property has about the faults; the     *)
(* faults of an environment are chosen once.                               *)
(***************************************************************************)
EXTENDS JobExecution_proofs

-----------------------------------------------------------------------------
(* What a job leaves and what it keeps. *)

\* A partial file exists only while it is written or published, and the workspace
\* only until the output is out or the job gives up, unless exactly the operation
\* that removes it fails.
Tidy(j) ==
  /\ "quarantine" \notin faults /\ staged[j] =>
       pc[j] \in {"check", "precommit", "publish", "unlink", "undo", "quarantine", "crashed"}
  /\ "cleanup" \notin faults /\ workspace[j] =>
       \/ pc[j] \in {"copy", "run", "leave", "unwind", "crashed"}
       \/ pc[j] \in WriterSteps /\ target[j] # "audit"

LEMMA TidyStep ==
  ASSUME TypeOK, [Next]_vars, NEW j \in Jobs, Tidy(j)
  PROVE  Tidy(j)'
<1> USE DEF Tidy, TypeOK, envVars, inputVars, keptVars, writeVars, Kinds, Steps,
        PreviewSteps, BeforeWorkspace, WriterSteps, Terminal
<1>1. ASSUME NEW i \in Jobs, PreviewVerify(i) PROVE Tidy(j)'
  BY <1>1 DEF PreviewVerify, EachBinding
<1>2. ASSUME NEW i \in Jobs, PreviewLoad(i) PROVE Tidy(j)'
  BY <1>2 DEF PreviewLoad, EachBinding
<1>3. ASSUME NEW i \in Jobs, PreviewRecheck(i) PROVE Tidy(j)'
  BY <1>3 DEF PreviewRecheck, EachBinding
<1>4. ASSUME NEW i \in Jobs, PreviewFails(i) PROVE Tidy(j)'
  BY <1>4 DEF PreviewFails, BreakLoop, Goto
<1>5. ASSUME NEW i \in Jobs, Approve(i) PROVE Tidy(j)'
  BY <1>5 DEF Approve, Goto
<1>6. ASSUME NEW i \in Jobs, Begin(i) PROVE Tidy(j)'
  BY <1>6 DEF Begin, Goto
<1>7. ASSUME NEW i \in Jobs, VerifySource(i) PROVE Tidy(j)'
  BY <1>7 DEF VerifySource, EachBinding
<1>8. ASSUME NEW i \in Jobs, BackupSource(i) PROVE Tidy(j)'
  BY <1>8 DEF BackupSource, EachBinding
<1>9. ASSUME NEW i \in Jobs, ResolveOutput(i) PROVE Tidy(j)'
  BY <1>9 DEF ResolveOutput, Goto
<1>10. ASSUME NEW i \in Jobs, ResolveAudit(i) PROVE Tidy(j)'
  BY <1>10 DEF ResolveAudit, Goto
<1>11. ASSUME NEW i \in Jobs, EnterWorkspace(i) PROVE Tidy(j)'
  BY <1>11 DEF EnterWorkspace, Goto
<1>12. ASSUME NEW i \in Jobs, CopySource(i) PROVE Tidy(j)'
  BY <1>12 DEF CopySource, EachBinding
<1>13. ASSUME NEW i \in Jobs, SourceCheckFails(i) PROVE Tidy(j)'
  BY <1>13 DEF SourceCheckFails, BreakLoop, Goto, Raised
<1>14. ASSUME NEW i \in Jobs, RunPlan(i) PROVE Tidy(j)'
  BY <1>14 DEF RunPlan, Goto, Verdict
<1>15. ASSUME NEW i \in Jobs, StepRaises(i) PROVE Tidy(j)'
  BY <1>15 DEF StepRaises, Goto, Raised
<1>16. ASSUME NEW i \in Jobs, StageFile(i) PROVE Tidy(j)'
  BY <1>16 DEF StageFile, Goto, WriteRaised
<1>17. ASSUME NEW i \in Jobs, StageFails(i) PROVE Tidy(j)'
  BY <1>17 DEF StageFails, Goto
<1>18. ASSUME NEW i \in Jobs, CheckStage(i) PROVE Tidy(j)'
  BY <1>18 DEF CheckStage, Goto
<1>19. ASSUME NEW i \in Jobs, StageRefused(i) PROVE Tidy(j)'
  BY <1>19 DEF StageRefused, Goto
<1>20. ASSUME NEW i \in Jobs, PrecommitVerify(i) PROVE Tidy(j)'
  BY <1>20 DEF PrecommitVerify, EachBinding
<1>21. ASSUME NEW i \in Jobs, PrecommitFails(i) PROVE Tidy(j)'
  BY <1>21 DEF PrecommitFails, BreakLoop, Goto
<1>22. ASSUME NEW i \in Jobs, RenameStage(i) PROVE Tidy(j)'
  BY <1>22 DEF RenameStage, Goto, Written
<1>23. ASSUME NEW i \in Jobs, LinkStage(i) PROVE Tidy(j)'
  BY <1>23 DEF LinkStage, Goto
<1>24. ASSUME NEW i \in Jobs, UnlinkStage(i) PROVE Tidy(j)'
  BY <1>24 DEF UnlinkStage, Goto, Written
<1>25. ASSUME NEW i \in Jobs, UnlinkFails(i) PROVE Tidy(j)'
  BY <1>25 DEF UnlinkFails, Goto
<1>26. ASSUME NEW i \in Jobs, UndoLink(i) PROVE Tidy(j)'
  BY <1>26 DEF UndoLink, Goto
<1>27. ASSUME NEW i \in Jobs, UndoFails(i) PROVE Tidy(j)'
  BY <1>27 DEF UndoFails, Goto
<1>28. ASSUME NEW i \in Jobs, PublishCollides(i) PROVE Tidy(j)'
  BY <1>28 DEF PublishCollides, Goto
<1>29. ASSUME NEW i \in Jobs, Quarantine(i) PROVE Tidy(j)'
  BY <1>29 DEF Quarantine, Goto, WriteRaised
<1>30. ASSUME NEW i \in Jobs, QuarantineFails(i) PROVE Tidy(j)'
  BY <1>30 DEF QuarantineFails, Goto, WriteRaised
<1>31. ASSUME NEW i \in Jobs, LeaveWorkspace(i) PROVE Tidy(j)'
  BY <1>31 DEF LeaveWorkspace, Goto
<1>32. ASSUME NEW i \in Jobs, Unwind(i) PROVE Tidy(j)'
  BY <1>32 DEF Unwind, Goto
<1>33. ASSUME NEW i \in Jobs, CleanupFails(i) PROVE Tidy(j)'
  BY <1>33 DEF CleanupFails, Goto
<1>34. ASSUME NEW i \in Jobs, WithdrawOutput(i) PROVE Tidy(j)'
  BY <1>34 DEF WithdrawOutput, Goto
<1>35. ASSUME NEW i \in Jobs, WithdrawFails(i) PROVE Tidy(j)'
  BY <1>35 DEF WithdrawFails, Goto
<1>36. ASSUME NEW i \in Jobs, Crash(i) PROVE Tidy(j)'
  BY <1>36 DEF Crash
<1>37. ASSUME NEW s \in Sources, NEW c \in Contents, EditSource(s, c) PROVE Tidy(j)'
  BY <1>37 DEF EditSource
<1>38. ASSUME NEW p \in Paths, OthersCreate(p) PROVE Tidy(j)'
  BY <1>38 DEF OthersCreate
<1>39. CASE UNCHANGED vars
  BY <1>39 DEF vars
<1>40. ASSUME NEW i \in Jobs, WriterRefuses(i) PROVE Tidy(j)'
  BY <1>40 DEF WriterRefuses, Goto
<1>41. ASSUME NEW i \in Jobs, StageInvalid(i) PROVE Tidy(j)'
  BY <1>41 DEF StageInvalid, Goto
<1> QED
  BY <1>1, <1>2, <1>3, <1>4, <1>5, <1>6, <1>7, <1>8, <1>9, <1>10, <1>11,
     <1>12, <1>13, <1>14, <1>15, <1>16, <1>17, <1>18, <1>19, <1>20, <1>21,
     <1>22, <1>23, <1>24, <1>25, <1>26, <1>27, <1>28, <1>29, <1>30, <1>31,
     <1>32, <1>33, <1>34, <1>35, <1>36, <1>37, <1>38, <1>39, <1>40, <1>41
  DEF Next, Preview, Execute, Write, Environment

\* A job that has ended leaves neither a partial file nor its workspace, unless
\* exactly the operation that removes it fails: _quarantine, and the clean-up of
\* the temporary directory.
THEOREM EndedJobsAreTidy == Spec => []NothingIsLeftBehind
<1>1. Init => \A j \in Jobs : Tidy(j)
  BY DEF Init, Tidy
<1>2. Inductive /\ (\A j \in Jobs : Tidy(j)) /\ [Next]_vars => (\A j \in Jobs : Tidy(j))'
  BY TidyStep DEF Inductive
<1>3. (\A j \in Jobs : Tidy(j)) => NothingIsLeftBehind
  BY DEF Tidy, NothingIsLeftBehind, WriterSteps
<1> QED
  BY <1>1, <1>2, <1>3, InductiveInvariant, PTL DEF Spec

\* Without I/O and clean-up failures every write that does not end in a published
\* file ends in a retained one, unless the writer refused the tables.
Careful == faults \intersect {"io", "quarantine", "cleanup"} = {}

Retaining(j) ==
  /\ pc[j] # "undo"
  /\ pc[j] \in {"check", "precommit", "publish"} => staged[j]
  /\ pc[j] = "quarantine" => staged[j] \/ ~CanWrite(j)
  /\ holder[RejectPath[j]] \in {Nobody, j}
  /\ holder[RejectPath[j]] = j =>
       target[j] = "rejected" /\ pc[j] \in {"unlink", "unwind", "failed", "crashed"}
  /\ target[j] = "rejected" =>
       \/ pc[j] \in WriterSteps \union {"crashed"}
       \/ /\ pc[j] \in {"unwind", "failed"}
          /\ holder[RejectPath[j]] = j \/ "rejected" \in retained[j] \/ ~CanWrite(j)
  /\ target[j] = "audit" =>
       \/ pc[j] \in WriterSteps \union {"withdraw", "completed", "crashed"}
       \/ pc[j] = "failed" /\ "output" \in retained[j]

LEMMA RetainingStep ==
  ASSUME Careful, TypeOK, \A i \in Jobs : JobInv(i), [Next]_vars, NEW j \in Jobs, Retaining(j)
  PROVE  Retaining(j)'
<1>0. JobInv(j)
  OBVIOUS
<1> USE <1>0, NamesAssumption, DistinctNamesAssumption
    DEF Careful, Retaining, JobInv, TargetOfStep, OwnsWhatItUndoes, OutputVisible, Dest,
        CanWrite, Final, TypeOK,
        envVars, inputVars, keptVars, writeVars, Kinds, Steps,
        PreviewSteps, BeforeWorkspace, WriterSteps, Terminal
<1>1. ASSUME NEW i \in Jobs, PreviewVerify(i) PROVE Retaining(j)'
  BY <1>1 DEF PreviewVerify, EachBinding
<1>2. ASSUME NEW i \in Jobs, PreviewLoad(i) PROVE Retaining(j)'
  BY <1>2 DEF PreviewLoad, EachBinding
<1>3. ASSUME NEW i \in Jobs, PreviewRecheck(i) PROVE Retaining(j)'
  BY <1>3 DEF PreviewRecheck, EachBinding
<1>4. ASSUME NEW i \in Jobs, PreviewFails(i) PROVE Retaining(j)'
  BY <1>4 DEF PreviewFails, BreakLoop, Goto
<1>5. ASSUME NEW i \in Jobs, Approve(i) PROVE Retaining(j)'
  BY <1>5 DEF Approve, Goto
<1>6. ASSUME NEW i \in Jobs, Begin(i) PROVE Retaining(j)'
  BY <1>6 DEF Begin, Goto
<1>7. ASSUME NEW i \in Jobs, VerifySource(i) PROVE Retaining(j)'
  BY <1>7 DEF VerifySource, EachBinding
<1>8. ASSUME NEW i \in Jobs, BackupSource(i) PROVE Retaining(j)'
  BY <1>8 DEF BackupSource, EachBinding
<1>9. ASSUME NEW i \in Jobs, ResolveOutput(i) PROVE Retaining(j)'
  BY <1>9 DEF ResolveOutput, Goto
<1>10. ASSUME NEW i \in Jobs, ResolveAudit(i) PROVE Retaining(j)'
  BY <1>10 DEF ResolveAudit, Goto
<1>11. ASSUME NEW i \in Jobs, EnterWorkspace(i) PROVE Retaining(j)'
  BY <1>11 DEF EnterWorkspace, Goto
<1>12. ASSUME NEW i \in Jobs, CopySource(i) PROVE Retaining(j)'
  BY <1>12 DEF CopySource, EachBinding
<1>13. ASSUME NEW i \in Jobs, SourceCheckFails(i) PROVE Retaining(j)'
  BY <1>13 DEF SourceCheckFails, BreakLoop, Goto, Raised
<1>14. ASSUME NEW i \in Jobs, RunPlan(i) PROVE Retaining(j)'
  BY <1>14 DEF RunPlan, Goto, Verdict
<1>15. ASSUME NEW i \in Jobs, StepRaises(i) PROVE Retaining(j)'
  BY <1>15 DEF StepRaises, Goto, Raised
<1>16. ASSUME NEW i \in Jobs, StageFile(i) PROVE Retaining(j)'
  BY <1>16 DEF StageFile, Goto, WriteRaised
<1>17. ASSUME NEW i \in Jobs, StageFails(i) PROVE Retaining(j)'
  BY <1>17 DEF StageFails, Goto
<1>18. ASSUME NEW i \in Jobs, CheckStage(i) PROVE Retaining(j)'
  BY <1>18 DEF CheckStage, Goto
<1>19. ASSUME NEW i \in Jobs, StageRefused(i) PROVE Retaining(j)'
  BY <1>19 DEF StageRefused, Goto
<1>20. ASSUME NEW i \in Jobs, PrecommitVerify(i) PROVE Retaining(j)'
  BY <1>20 DEF PrecommitVerify, EachBinding
<1>21. ASSUME NEW i \in Jobs, PrecommitFails(i) PROVE Retaining(j)'
  BY <1>21 DEF PrecommitFails, BreakLoop, Goto
<1>22. ASSUME NEW i \in Jobs, RenameStage(i) PROVE Retaining(j)'
  BY <1>22 DEF RenameStage, Goto, Written
<1>23. ASSUME NEW i \in Jobs, LinkStage(i) PROVE Retaining(j)'
  BY <1>23 DEF LinkStage, Goto
<1>24. ASSUME NEW i \in Jobs, UnlinkStage(i) PROVE Retaining(j)'
  BY <1>24 DEF UnlinkStage, Goto, Written
<1>25. ASSUME NEW i \in Jobs, UnlinkFails(i) PROVE Retaining(j)'
  BY <1>25 DEF UnlinkFails, Goto
<1>26. ASSUME NEW i \in Jobs, UndoLink(i) PROVE Retaining(j)'
  BY <1>26 DEF UndoLink, Goto
<1>27. ASSUME NEW i \in Jobs, UndoFails(i) PROVE Retaining(j)'
  BY <1>27 DEF UndoFails, Goto
<1>28. ASSUME NEW i \in Jobs, PublishCollides(i) PROVE Retaining(j)'
  BY <1>28 DEF PublishCollides, Goto
<1>29. ASSUME NEW i \in Jobs, Quarantine(i) PROVE Retaining(j)'
  BY <1>29 DEF Quarantine, Goto, WriteRaised
<1>30. ASSUME NEW i \in Jobs, QuarantineFails(i) PROVE Retaining(j)'
  BY <1>30 DEF QuarantineFails, Goto, WriteRaised
<1>31. ASSUME NEW i \in Jobs, LeaveWorkspace(i) PROVE Retaining(j)'
  BY <1>31 DEF LeaveWorkspace, Goto
<1>32. ASSUME NEW i \in Jobs, Unwind(i) PROVE Retaining(j)'
  BY <1>32 DEF Unwind, Goto
<1>33. ASSUME NEW i \in Jobs, CleanupFails(i) PROVE Retaining(j)'
  BY <1>33 DEF CleanupFails, Goto
<1>34. ASSUME NEW i \in Jobs, WithdrawOutput(i) PROVE Retaining(j)'
  BY <1>34 DEF WithdrawOutput, Goto
<1>35. ASSUME NEW i \in Jobs, WithdrawFails(i) PROVE Retaining(j)'
  BY <1>35 DEF WithdrawFails, Goto
<1>36. ASSUME NEW i \in Jobs, Crash(i) PROVE Retaining(j)'
  BY <1>36 DEF Crash
<1>37. ASSUME NEW s \in Sources, NEW c \in Contents, EditSource(s, c) PROVE Retaining(j)'
  BY <1>37 DEF EditSource
<1>38. ASSUME NEW p \in Paths, OthersCreate(p) PROVE Retaining(j)'
  BY <1>38 DEF OthersCreate
<1>39. CASE UNCHANGED vars
  BY <1>39 DEF vars
<1>40. ASSUME NEW i \in Jobs, WriterRefuses(i) PROVE Retaining(j)'
  <2>1. CASE i = j
    BY <1>40, <2>1 DEF WriterRefuses, Goto
  <2>2. CASE i # j
    BY <1>40, <2>2 DEF WriterRefuses, Goto
  <2> QED
    BY <2>1, <2>2
<1>41. ASSUME NEW i \in Jobs, StageInvalid(i) PROVE Retaining(j)'
  BY <1>41 DEF StageInvalid, Goto
<1> QED
  BY <1>1, <1>2, <1>3, <1>4, <1>5, <1>6, <1>7, <1>8, <1>9, <1>10, <1>11,
     <1>12, <1>13, <1>14, <1>15, <1>16, <1>17, <1>18, <1>19, <1>20, <1>21,
     <1>22, <1>23, <1>24, <1>25, <1>26, <1>27, <1>28, <1>29, <1>30, <1>31,
     <1>32, <1>33, <1>34, <1>35, <1>36, <1>37, <1>38, <1>39, <1>40, <1>41
  DEF Next, Preview, Execute, Write, Environment

\* A result that failed validation, and an output withdrawn because its audit
\* report could not be published, are kept for inspection as long as no I/O or
\* clean-up operation fails.
THEOREM FailuresAreRetained == Spec => []FailedWorkIsRetained
<1>1. Init => \A j \in Jobs : Retaining(j)
  BY NamesAssumption DEF Init, Retaining
<1>2. Inductive /\ (Careful => \A j \in Jobs : Retaining(j)) /\ [Next]_vars
        => (Careful => \A j \in Jobs : Retaining(j))'
  <2> SUFFICES ASSUME Inductive, Careful => \A j \in Jobs : Retaining(j), [Next]_vars, Careful'
               PROVE  \A j \in Jobs : Retaining(j)'
    OBVIOUS
  <2>1. Careful
    BY FaultsAreFixed DEF Careful
  <2> QED
    BY <2>1, RetainingStep DEF Inductive
<1>3. (Careful => \A j \in Jobs : Retaining(j)) => FailedWorkIsRetained
  BY DEF Careful, Retaining, FailedWorkIsRetained, WriterSteps
<1> QED
  BY <1>1, <1>2, <1>3, InductiveInvariant, PTL DEF Spec

-----------------------------------------------------------------------------
(* What a failure may be blamed on. *)

\* What FailsOnlyForCause blames a failure on.
Cause(j) ==
  \/ ~consent[j]
  \/ edits > 0
  \/ ~Deliverable(j, <<analysed[j], analysed[j]>>)
  \/ \E p \in {OutputPath[j], AuditPath[j]} : holder[p] \notin {Nobody, j}
  \/ \E i \in Jobs \ {j} : OutputPath[i] = OutputPath[j]

Uneventful == faults \subseteq {"crash"}

\* As long as nobody edits a source, what the preview has verified is what was
\* analysed, and so is everything read after it.
Untouched(j) ==
  edits = 0 =>
    /\ \A s \in Sources : pc[j] # "preview" \/ s < at[j] => source[s] = analysed[j][s]
    /\ \A s \in Sources :
         pc[j] \notin {"preview", "load"} \/ (pc[j] = "load" /\ s < at[j])
           => previewed[j][s] = analysed[j][s]

\* A job on its way to a failure has a cause.
Failing == {"quarantine", "unwind", "withdraw", "failed"}

Doomed(j) ==
  /\ target[j] = "rejected" => Cause(j) /\ pc[j] \notin PreviewSteps
  /\ pc[j] # "undo"
  /\ pc[j] \in Failing => Cause(j)

LEMMA UntouchedStep ==
  ASSUME Uneventful, TypeOK, [Next]_vars, NEW j \in Jobs, JobInv(j), Untouched(j)
  PROVE  Untouched(j)'
<1> USE SourcesAssumption
    DEF Uneventful, Untouched, Unchanged, JobInv, LoopStarts, Loops, Sources,
        TypeOK, envVars, inputVars, keptVars, writeVars, Kinds, Steps,
        PreviewSteps, BeforeWorkspace, WriterSteps, Terminal
<1>1. ASSUME NEW i \in Jobs, PreviewVerify(i) PROVE Untouched(j)'
  BY <1>1 DEF PreviewVerify, EachBinding
<1>2. ASSUME NEW i \in Jobs, PreviewLoad(i) PROVE Untouched(j)'
  BY <1>2 DEF PreviewLoad, EachBinding
<1>3. ASSUME NEW i \in Jobs, PreviewRecheck(i) PROVE Untouched(j)'
  BY <1>3 DEF PreviewRecheck, EachBinding
<1>4. ASSUME NEW i \in Jobs, PreviewFails(i) PROVE Untouched(j)'
  BY <1>4 DEF PreviewFails, BreakLoop, Goto
<1>5. ASSUME NEW i \in Jobs, Approve(i) PROVE Untouched(j)'
  BY <1>5 DEF Approve, Goto
<1>6. ASSUME NEW i \in Jobs, Begin(i) PROVE Untouched(j)'
  BY <1>6 DEF Begin, Goto
<1>7. ASSUME NEW i \in Jobs, VerifySource(i) PROVE Untouched(j)'
  BY <1>7 DEF VerifySource, EachBinding
<1>8. ASSUME NEW i \in Jobs, BackupSource(i) PROVE Untouched(j)'
  BY <1>8 DEF BackupSource, EachBinding
<1>9. ASSUME NEW i \in Jobs, ResolveOutput(i) PROVE Untouched(j)'
  BY <1>9 DEF ResolveOutput, Goto
<1>10. ASSUME NEW i \in Jobs, ResolveAudit(i) PROVE Untouched(j)'
  BY <1>10 DEF ResolveAudit, Goto
<1>11. ASSUME NEW i \in Jobs, EnterWorkspace(i) PROVE Untouched(j)'
  BY <1>11 DEF EnterWorkspace, Goto
<1>12. ASSUME NEW i \in Jobs, CopySource(i) PROVE Untouched(j)'
  BY <1>12 DEF CopySource, EachBinding
<1>13. ASSUME NEW i \in Jobs, SourceCheckFails(i) PROVE Untouched(j)'
  BY <1>13 DEF SourceCheckFails, BreakLoop, Goto, Raised
<1>14. ASSUME NEW i \in Jobs, RunPlan(i) PROVE Untouched(j)'
  BY <1>14 DEF RunPlan, Goto, Verdict
<1>15. ASSUME NEW i \in Jobs, StepRaises(i) PROVE Untouched(j)'
  BY <1>15 DEF StepRaises, Goto, Raised
<1>16. ASSUME NEW i \in Jobs, StageFile(i) PROVE Untouched(j)'
  BY <1>16 DEF StageFile, Goto, WriteRaised
<1>17. ASSUME NEW i \in Jobs, StageFails(i) PROVE Untouched(j)'
  BY <1>17 DEF StageFails, Goto
<1>18. ASSUME NEW i \in Jobs, CheckStage(i) PROVE Untouched(j)'
  BY <1>18 DEF CheckStage, Goto
<1>19. ASSUME NEW i \in Jobs, StageRefused(i) PROVE Untouched(j)'
  BY <1>19 DEF StageRefused, Goto
<1>20. ASSUME NEW i \in Jobs, PrecommitVerify(i) PROVE Untouched(j)'
  BY <1>20 DEF PrecommitVerify, EachBinding
<1>21. ASSUME NEW i \in Jobs, PrecommitFails(i) PROVE Untouched(j)'
  BY <1>21 DEF PrecommitFails, BreakLoop, Goto
<1>22. ASSUME NEW i \in Jobs, RenameStage(i) PROVE Untouched(j)'
  BY <1>22 DEF RenameStage, Goto, Written
<1>23. ASSUME NEW i \in Jobs, LinkStage(i) PROVE Untouched(j)'
  BY <1>23 DEF LinkStage, Goto
<1>24. ASSUME NEW i \in Jobs, UnlinkStage(i) PROVE Untouched(j)'
  BY <1>24 DEF UnlinkStage, Goto, Written
<1>25. ASSUME NEW i \in Jobs, UnlinkFails(i) PROVE Untouched(j)'
  BY <1>25 DEF UnlinkFails, Goto
<1>26. ASSUME NEW i \in Jobs, UndoLink(i) PROVE Untouched(j)'
  BY <1>26 DEF UndoLink, Goto
<1>27. ASSUME NEW i \in Jobs, UndoFails(i) PROVE Untouched(j)'
  BY <1>27 DEF UndoFails, Goto
<1>28. ASSUME NEW i \in Jobs, PublishCollides(i) PROVE Untouched(j)'
  BY <1>28 DEF PublishCollides, Goto
<1>29. ASSUME NEW i \in Jobs, Quarantine(i) PROVE Untouched(j)'
  BY <1>29 DEF Quarantine, Goto, WriteRaised
<1>30. ASSUME NEW i \in Jobs, QuarantineFails(i) PROVE Untouched(j)'
  BY <1>30 DEF QuarantineFails, Goto, WriteRaised
<1>31. ASSUME NEW i \in Jobs, LeaveWorkspace(i) PROVE Untouched(j)'
  BY <1>31 DEF LeaveWorkspace, Goto
<1>32. ASSUME NEW i \in Jobs, Unwind(i) PROVE Untouched(j)'
  BY <1>32 DEF Unwind, Goto
<1>33. ASSUME NEW i \in Jobs, CleanupFails(i) PROVE Untouched(j)'
  BY <1>33 DEF CleanupFails, Goto
<1>34. ASSUME NEW i \in Jobs, WithdrawOutput(i) PROVE Untouched(j)'
  BY <1>34 DEF WithdrawOutput, Goto
<1>35. ASSUME NEW i \in Jobs, WithdrawFails(i) PROVE Untouched(j)'
  BY <1>35 DEF WithdrawFails, Goto
<1>36. ASSUME NEW i \in Jobs, Crash(i) PROVE Untouched(j)'
  BY <1>36 DEF Crash
<1>37. ASSUME NEW s \in Sources, NEW c \in Contents, EditSource(s, c) PROVE Untouched(j)'
  BY <1>37 DEF EditSource
<1>38. ASSUME NEW p \in Paths, OthersCreate(p) PROVE Untouched(j)'
  BY <1>38 DEF OthersCreate
<1>39. CASE UNCHANGED vars
  BY <1>39 DEF vars
<1>40. ASSUME NEW i \in Jobs, WriterRefuses(i) PROVE Untouched(j)'
  BY <1>40 DEF WriterRefuses, Goto
<1>41. ASSUME NEW i \in Jobs, StageInvalid(i) PROVE Untouched(j)'
  BY <1>41 DEF StageInvalid, Goto
<1> QED
  BY <1>1, <1>2, <1>3, <1>4, <1>5, <1>6, <1>7, <1>8, <1>9, <1>10, <1>11,
     <1>12, <1>13, <1>14, <1>15, <1>16, <1>17, <1>18, <1>19, <1>20, <1>21,
     <1>22, <1>23, <1>24, <1>25, <1>26, <1>27, <1>28, <1>29, <1>30, <1>31,
     <1>32, <1>33, <1>34, <1>35, <1>36, <1>37, <1>38, <1>39, <1>40, <1>41
  DEF Next, Preview, Execute, Write, Environment

\* A published file is only taken back from its own job's output name.
LEMMA TakenBack ==
  ASSUME TypeOK, \A i \in Jobs : JobInv(i) /\ pc[i] # "undo", [Next]_vars,
         NEW p \in Paths, holder[p] # Nobody, holder'[p] # holder[p]
  PROVE  /\ holder[p] \in Jobs
         /\ pc[holder[p]] = "withdraw"
         /\ p = OutputPath[holder[p]]
<1>1. ASSUME NEW j \in Jobs, RenameStage(j) \/ LinkStage(j) PROVE FALSE
  BY <1>1, NamesAssumption DEF TypeOK, RenameStage, LinkStage, Dest
<1>2. ASSUME NEW p2 \in Paths, OthersCreate(p2) PROVE FALSE
  BY <1>2 DEF TypeOK, OthersCreate
<1>3. ASSUME NEW j \in Jobs, UndoLink(j) PROVE FALSE
  BY <1>3 DEF UndoLink, Goto
<1>4. ASSUME NEW j \in Jobs, WithdrawOutput(j)
      PROVE  holder[p] = j /\ pc[j] = "withdraw" /\ p = OutputPath[j]
  <2>1. pc[j] = "withdraw" /\ holder[OutputPath[j]] = j
    BY <1>4 DEF JobInv, OwnsWhatItUndoes, TargetOfStep, OutputVisible, WithdrawOutput, Goto
  <2> QED
    BY <1>4, <2>1, NamesAssumption DEF TypeOK, WithdrawOutput
<1>5. \E j \in Jobs : WithdrawOutput(j)
  BY <1>1, <1>2, <1>3
  DEF Next, Preview, Execute, Write, Environment, envVars, PreviewVerify, PreviewLoad,
      PreviewRecheck, PreviewFails, Approve, Begin, VerifySource, BackupSource,
      ResolveOutput, ResolveAudit, EnterWorkspace, CopySource, SourceCheckFails,
      RunPlan, StepRaises, StageFile, WriterRefuses, StageFails, CheckStage, StageInvalid,
      StageRefused,
      PrecommitVerify, PrecommitFails, UnlinkStage, UnlinkFails, UndoFails,
      PublishCollides, Quarantine, QuarantineFails, LeaveWorkspace, Unwind,
      CleanupFails, WithdrawFails, Crash, EditSource, vars
<1> QED
  BY <1>4, <1>5

\* A cause never goes away.
LEMMA CauseStays ==
  ASSUME Uneventful, TypeOK, \A i \in Jobs : JobInv(i) /\ pc[i] # "undo", [Next]_vars,
         NEW j \in Jobs, pc[j] # "ask", Cause(j)
  PROVE  Cause(j)'
<1>1. /\ consent'[j] = consent[j]
      /\ analysed' = analysed
      /\ edits' = edits \/ edits' > 0
  BY DEF TypeOK, Goto, Next, Preview, Execute, Write, Environment, envVars, inputVars,
        PreviewVerify, PreviewLoad, PreviewRecheck, PreviewFails, Approve, Begin, VerifySource,
        BackupSource, ResolveOutput, ResolveAudit, EnterWorkspace, CopySource, SourceCheckFails,
        RunPlan, StepRaises, StageFile, WriterRefuses, StageFails, CheckStage, StageInvalid,
      StageRefused, PrecommitVerify,
        PrecommitFails, RenameStage, LinkStage, UnlinkStage, UnlinkFails, UndoLink, UndoFails,
        PublishCollides, Quarantine, QuarantineFails, LeaveWorkspace, Unwind, CleanupFails,
        WithdrawOutput, WithdrawFails, Crash, EditSource, OthersCreate, vars
<1>2. ASSUME NEW p \in {OutputPath[j], AuditPath[j]}, holder[p] \notin {Nobody, j},
             holder'[p] \in {Nobody, j}
      PROVE  Cause(j)'
  <2>1. p \in Paths /\ holder[p] # Nobody /\ holder'[p] # holder[p]
    BY <1>2, NamesAssumption
  <2>2. /\ holder[p] \in Jobs /\ pc[holder[p]] = "withdraw"
        /\ p = OutputPath[holder[p]]
    BY <2>1, TakenBack
  <2>3. p = OutputPath[j]
    BY <1>2, <2>2, DistinctNamesAssumption
  <2> QED
    BY <1>2, <2>2, <2>3 DEF Cause
<1> QED
  BY <1>1, <1>2 DEF Cause

\* Without edits the final that a job writes is the one it was approved for.
LEMMA FinalIsApproved ==
  ASSUME TypeOK, NEW j \in Jobs, JobInv(j), Untouched(j), pc[j] \in Copied, edits = 0
  PROVE  Reproduced(j) /\ Final(j) = <<analysed[j], analysed[j]>>
<1>1. \A s \in Sources : copied[j][s] = analysed[j][s] /\ previewed[j][s] = analysed[j][s]
  BY DEF JobInv, CopyProgress, Untouched, Copied, WriterSteps
<1>2. /\ copied[j] \in [Sources -> Contents \union {Unread}]
      /\ previewed[j] \in [Sources -> Contents \union {Unread}]
      /\ analysed[j] \in [Sources -> Contents]
  BY DEF TypeOK
<1>3. copied[j] = analysed[j] /\ previewed[j] = analysed[j]
  BY <1>1, <1>2
<1> QED
  BY <1>3 DEF Reproduced, Final

LEMMA DoomedStep ==
  ASSUME Uneventful, TypeOK, \A i \in Jobs : JobInv(i) /\ pc[i] # "undo", [Next]_vars,
         NEW j \in Jobs, Unstranded(j), Untouched(j), Doomed(j)
  PROVE  Doomed(j)'
<1>0. Doomed(j) /\ Untouched(j) /\ JobInv(j) /\ Unstranded(j)
  OBVIOUS
<1>c. Cause(j) /\ pc[j] # "ask" => Cause(j)'
  BY CauseStays
<1> USE SourcesAssumption, NamesAssumption
    DEF Uneventful, Doomed, Failing, Sources, TypeOK, envVars,
        inputVars, keptVars, writeVars, Kinds, Steps,
        PreviewSteps, BeforeWorkspace, WriterSteps, Terminal
<1>1. ASSUME NEW i \in Jobs, PreviewVerify(i) PROVE Doomed(j)'
  BY <1>0, <1>c, <1>1 DEF PreviewVerify, EachBinding
<1>2. ASSUME NEW i \in Jobs, PreviewLoad(i) PROVE Doomed(j)'
  BY <1>0, <1>c, <1>2 DEF PreviewLoad, EachBinding
<1>3. ASSUME NEW i \in Jobs, PreviewRecheck(i) PROVE Doomed(j)'
  BY <1>0, <1>c, <1>3 DEF PreviewRecheck, EachBinding
<1>4. ASSUME NEW i \in Jobs, PreviewFails(i) PROVE Doomed(j)'
  BY <1>0, <1>c, <1>4 DEF PreviewFails, BreakLoop, Goto
<1>5. ASSUME NEW i \in Jobs, Approve(i) PROVE Doomed(j)'
  BY <1>0, <1>c, <1>5 DEF Approve, Goto
<1>6. ASSUME NEW i \in Jobs, Begin(i) PROVE Doomed(j)'
  <2>1. CASE i = j
    <3>1. pc'[j] \in Failing => Cause(j)
      BY <1>6, <2>1 DEF Begin, Goto, Cause
    <3> QED
      BY <1>0, <1>c, <1>6, <2>1, <3>1 DEF Begin, Goto
  <2>2. CASE i # j
    BY <1>0, <1>c, <1>6, <2>2 DEF Begin, Goto
  <2> QED
    BY <2>1, <2>2
<1>7. ASSUME NEW i \in Jobs, VerifySource(i) PROVE Doomed(j)'
  BY <1>0, <1>c, <1>7 DEF VerifySource, EachBinding
<1>8. ASSUME NEW i \in Jobs, BackupSource(i) PROVE Doomed(j)'
  BY <1>0, <1>c, <1>8 DEF BackupSource, EachBinding
<1>9. ASSUME NEW i \in Jobs, ResolveOutput(i) PROVE Doomed(j)'
  <2>1. CASE i = j
    <3>1. pc'[j] \in Failing => Cause(j)
      BY <1>9, <2>1 DEF ResolveOutput, Goto, Cause, OutputVisible, JobInv, VisibleSince
    <3> QED
      BY <1>0, <1>c, <1>9, <2>1, <3>1 DEF ResolveOutput, Goto
  <2>2. CASE i # j
    BY <1>0, <1>c, <1>9, <2>2 DEF ResolveOutput, Goto
  <2> QED
    BY <2>1, <2>2
<1>10. ASSUME NEW i \in Jobs, ResolveAudit(i) PROVE Doomed(j)'
  <2>1. CASE i = j
    <3>1. pc'[j] \in Failing => Cause(j)
      BY <1>10, <2>1 DEF ResolveAudit, Goto, Cause, AuditVisible, Unstranded
    <3> QED
      BY <1>0, <1>c, <1>10, <2>1, <3>1 DEF ResolveAudit, Goto
  <2>2. CASE i # j
    BY <1>0, <1>c, <1>10, <2>2 DEF ResolveAudit, Goto
  <2> QED
    BY <2>1, <2>2
<1>11. ASSUME NEW i \in Jobs, EnterWorkspace(i) PROVE Doomed(j)'
  BY <1>0, <1>c, <1>11 DEF EnterWorkspace, Goto
<1>12. ASSUME NEW i \in Jobs, CopySource(i) PROVE Doomed(j)'
  BY <1>0, <1>c, <1>12 DEF CopySource, EachBinding
<1>13. ASSUME NEW i \in Jobs, SourceCheckFails(i) PROVE Doomed(j)'
  <2>1. CASE i = j
    <3>1. pc'[j] \in Failing => Cause(j)
      BY <1>13, <2>1 DEF SourceCheckFails, BreakLoop, Goto, ChangedOrUnreadable,
                           Unchanged, Untouched, Cause
    <3> QED
      BY <1>0, <1>c, <1>13, <2>1, <3>1 DEF SourceCheckFails, BreakLoop, Goto, Raised
  <2>2. CASE i # j
    BY <1>0, <1>c, <1>13, <2>2 DEF SourceCheckFails, BreakLoop, Goto, Raised
  <2> QED
    BY <2>1, <2>2
<1>14. ASSUME NEW i \in Jobs, RunPlan(i) PROVE Doomed(j)'
  <2>1. CASE i = j
    <3>1. pc[j] = "run" /\ target'[j] = Verdict(j) /\ analysed' = analysed
      BY <1>14, <2>1 DEF RunPlan, Goto
    <3>2. edits = 0 => Reproduced(j) /\ Final(j) = <<analysed[j], analysed[j]>>
      BY <3>1, FinalIsApproved DEF Copied
    <3>3. (edits = 0 /\ ~Deliverable(j, <<analysed[j], analysed[j]>>)) \/ edits > 0 => Cause(j)
      BY DEF Cause
    <3>4. ~Judged(j) \/ Verdict(j) = "rejected" => Cause(j)
      <4>1. edits = 0 \/ edits > 0
        OBVIOUS
      <4> QED
        BY ONLY <3>2, <3>3, <4>1 DEF Judged, Verdict, Deliverable
    <3>5. /\ pc'[j] = IF Judged(j) THEN "stage" ELSE "unwind"
          /\ target'[j] # "rejected" \/ Verdict(j) = "rejected"
      BY <1>14, <2>1, <3>1 DEF RunPlan, Goto
    <3>6. pc'[j] \in Failing \/ target'[j] = "rejected" => Cause(j)
      BY <3>4, <3>5
    <3> QED
      BY <1>c, <3>1, <3>5, <3>6
  <2>2. CASE i # j
    BY <1>0, <1>c, <1>14, <2>2 DEF RunPlan, Goto
  <2> QED
    BY <2>1, <2>2
<1>15. ASSUME NEW i \in Jobs, StepRaises(i) PROVE Doomed(j)'
  BY <1>0, <1>c, <1>15 DEF StepRaises, Goto, Raised
<1>16. ASSUME NEW i \in Jobs, StageFile(i) PROVE Doomed(j)'
  <2>1. CASE i = j
    <3>1. pc'[j] \in Failing => Cause(j)
      <4>1. CASE target[j] = "output"
        <5>1. holder[OutputPath[j]] # j
          BY <1>16, <2>1, <4>1 DEF StageFile, Goto, OutputVisible, JobInv, VisibleSince
        <5> QED
          BY <1>16, <2>1, <4>1, <5>1 DEF StageFile, Goto, Dest, Cause
      <4>2. CASE target[j] = "audit"
        BY <1>16, <2>1, <4>2 DEF StageFile, Goto, Dest, Cause, AuditVisible, Unstranded
      <4>3. CASE target[j] = "rejected"
        BY <1>0, <4>3 DEF Cause
      <4> QED
        BY <4>1, <4>2, <4>3
    <3> QED
      BY <1>0, <1>c, <1>16, <2>1, <3>1 DEF StageFile, Goto, WriteRaised
  <2>2. CASE i # j
    BY <1>0, <1>c, <1>16, <2>2 DEF StageFile, Goto, WriteRaised
  <2> QED
    BY <2>1, <2>2
<1>17. ASSUME NEW i \in Jobs, StageFails(i) PROVE Doomed(j)'
  BY <1>0, <1>c, <1>17 DEF StageFails, Goto
<1>18. ASSUME NEW i \in Jobs, CheckStage(i) PROVE Doomed(j)'
  BY <1>0, <1>c, <1>18 DEF CheckStage, Goto
<1>19. ASSUME NEW i \in Jobs, StageRefused(i) PROVE Doomed(j)'
  BY <1>0, <1>c, <1>19 DEF StageRefused, Goto
<1>20. ASSUME NEW i \in Jobs, PrecommitVerify(i) PROVE Doomed(j)'
  BY <1>0, <1>c, <1>20 DEF PrecommitVerify, EachBinding
<1>21. ASSUME NEW i \in Jobs, PrecommitFails(i) PROVE Doomed(j)'
  <2>1. CASE i = j
    <3>1. pc'[j] \in Failing => Cause(j)
      BY <1>21, <2>1 DEF PrecommitFails, BreakLoop, Goto, ChangedOrUnreadable,
                           Unchanged, Untouched, Cause
    <3> QED
      BY <1>0, <1>c, <1>21, <2>1, <3>1 DEF PrecommitFails, BreakLoop, Goto
  <2>2. CASE i # j
    BY <1>0, <1>c, <1>21, <2>2 DEF PrecommitFails, BreakLoop, Goto
  <2> QED
    BY <2>1, <2>2
<1>22. ASSUME NEW i \in Jobs, RenameStage(i) PROVE Doomed(j)'
  <2>1. CASE i = j
    <3>1. pc'[j] \in Failing => Cause(j)
      BY <1>0, <1>22, <2>1 DEF RenameStage, Goto, Written, Cause
    <3> QED
      BY <1>0, <1>c, <1>22, <2>1, <3>1 DEF RenameStage, Goto, Written
  <2>2. CASE i # j
    BY <1>0, <1>c, <1>22, <2>2 DEF RenameStage, Goto, Written
  <2> QED
    BY <2>1, <2>2
<1>23. ASSUME NEW i \in Jobs, LinkStage(i) PROVE Doomed(j)'
  BY <1>0, <1>c, <1>23 DEF LinkStage, Goto
<1>24. ASSUME NEW i \in Jobs, UnlinkStage(i) PROVE Doomed(j)'
  <2>1. CASE i = j
    <3>1. pc'[j] \in Failing => Cause(j)
      BY <1>0, <1>24, <2>1 DEF UnlinkStage, Goto, Written, Cause
    <3> QED
      BY <1>0, <1>c, <1>24, <2>1, <3>1 DEF UnlinkStage, Goto, Written
  <2>2. CASE i # j
    BY <1>0, <1>c, <1>24, <2>2 DEF UnlinkStage, Goto, Written
  <2> QED
    BY <2>1, <2>2
<1>25. ASSUME NEW i \in Jobs, UnlinkFails(i) PROVE Doomed(j)'
  BY <1>0, <1>c, <1>25 DEF UnlinkFails, Goto
<1>26. ASSUME NEW i \in Jobs, UndoLink(i) PROVE Doomed(j)'
  BY <1>0, <1>c, <1>26 DEF UndoLink, Goto
<1>27. ASSUME NEW i \in Jobs, UndoFails(i) PROVE Doomed(j)'
  BY <1>0, <1>c, <1>27 DEF UndoFails, Goto
<1>28. ASSUME NEW i \in Jobs, PublishCollides(i) PROVE Doomed(j)'
  <2>1. CASE i = j
    <3>1. pc'[j] \in Failing => Cause(j)
      <4>1. CASE target[j] = "output"
        <5>1. holder[OutputPath[j]] # j
          BY <1>28, <2>1, <4>1 DEF PublishCollides, Goto, OutputVisible, JobInv, VisibleSince
        <5> QED
          BY <1>28, <2>1, <4>1, <5>1 DEF PublishCollides, Goto, Dest, Cause
      <4>2. CASE target[j] = "audit"
        BY <1>28, <2>1, <4>2 DEF PublishCollides, Goto, Dest, Cause, AuditVisible, Unstranded
      <4>3. CASE target[j] = "rejected"
        BY <1>0, <4>3 DEF Cause
      <4> QED
        BY <4>1, <4>2, <4>3
    <3> QED
      BY <1>0, <1>c, <1>28, <2>1, <3>1 DEF PublishCollides, Goto
  <2>2. CASE i # j
    BY <1>0, <1>c, <1>28, <2>2 DEF PublishCollides, Goto
  <2> QED
    BY <2>1, <2>2
<1>29. ASSUME NEW i \in Jobs, Quarantine(i) PROVE Doomed(j)'
  BY <1>0, <1>c, <1>29 DEF Quarantine, Goto, WriteRaised
<1>30. ASSUME NEW i \in Jobs, QuarantineFails(i) PROVE Doomed(j)'
  BY <1>0, <1>c, <1>30 DEF QuarantineFails, Goto, WriteRaised
<1>31. ASSUME NEW i \in Jobs, LeaveWorkspace(i) PROVE Doomed(j)'
  BY <1>0, <1>c, <1>31 DEF LeaveWorkspace, Goto
<1>32. ASSUME NEW i \in Jobs, Unwind(i) PROVE Doomed(j)'
  BY <1>0, <1>c, <1>32 DEF Unwind, Goto
<1>33. ASSUME NEW i \in Jobs, CleanupFails(i) PROVE Doomed(j)'
  BY <1>0, <1>c, <1>33 DEF CleanupFails, Goto
<1>34. ASSUME NEW i \in Jobs, WithdrawOutput(i) PROVE Doomed(j)'
  BY <1>0, <1>c, <1>34 DEF WithdrawOutput, Goto
<1>35. ASSUME NEW i \in Jobs, WithdrawFails(i) PROVE Doomed(j)'
  BY <1>0, <1>c, <1>35 DEF WithdrawFails, Goto
<1>36. ASSUME NEW i \in Jobs, Crash(i) PROVE Doomed(j)'
  BY <1>0, <1>c, <1>36 DEF Crash
<1>37. ASSUME NEW s \in Sources, NEW c \in Contents, EditSource(s, c) PROVE Doomed(j)'
  BY <1>0, <1>37 DEF EditSource, Cause
<1>38. ASSUME NEW p \in Paths, OthersCreate(p) PROVE Doomed(j)'
  BY <1>0, <1>c, <1>38 DEF OthersCreate
<1>39. CASE UNCHANGED vars
  BY <1>0, <1>c, <1>39 DEF vars
<1>40. ASSUME NEW i \in Jobs, WriterRefuses(i) PROVE Doomed(j)'
  <2>1. CASE i = j
    <3>1. pc[j] = "stage" /\ pc'[j] = "quarantine" /\ target' = target /\ ~CanWrite(j)
      BY <1>40, <2>1 DEF WriterRefuses, Goto
    <3>2. edits = 0 => Final(j) = <<analysed[j], analysed[j]>>
      BY <3>1, FinalIsApproved DEF Copied
    <3>3. edits = 0 => ~Deliverable(j, <<analysed[j], analysed[j]>>)
      BY ONLY <3>1, <3>2 DEF CanWrite, Deliverable
    <3>4. Cause(j)
      BY <3>3 DEF Cause
    <3> QED
      BY <1>c, <3>1, <3>4
  <2>2. CASE i # j
    BY <1>0, <1>c, <1>40, <2>2 DEF WriterRefuses, Goto
  <2> QED
    BY <2>1, <2>2
<1>41. ASSUME NEW i \in Jobs, StageInvalid(i) PROVE Doomed(j)'
  <2>1. CASE i = j
    <3>1. pc[j] = "check" /\ pc'[j] = "quarantine" /\ target' = target /\ ~Reopens(j)
      BY <1>41, <2>1 DEF StageInvalid, Goto
    <3>2. edits = 0 => Final(j) = <<analysed[j], analysed[j]>>
      BY <3>1, FinalIsApproved DEF Copied
    <3>3. edits = 0 => ~Deliverable(j, <<analysed[j], analysed[j]>>)
      BY ONLY <3>1, <3>2 DEF Reopens, Deliverable
    <3>4. Cause(j)
      BY <3>3 DEF Cause
    <3> QED
      BY <1>c, <3>1, <3>4
  <2>2. CASE i # j
    BY <1>0, <1>c, <1>41, <2>2 DEF StageInvalid, Goto
  <2> QED
    BY <2>1, <2>2
<1> QED
  BY <1>1, <1>2, <1>3, <1>4, <1>5, <1>6, <1>7, <1>8, <1>9, <1>10, <1>11,
     <1>12, <1>13, <1>14, <1>15, <1>16, <1>17, <1>18, <1>19, <1>20, <1>21,
     <1>22, <1>23, <1>24, <1>25, <1>26, <1>27, <1>28, <1>29, <1>30, <1>31,
     <1>32, <1>33, <1>34, <1>35, <1>36, <1>37, <1>38, <1>39, <1>40, <1>41
  DEF Next, Preview, Execute, Write, Environment

\* Where nothing fails but whole processes, an execution fails only because its
\* approval does not match, a source was edited, the approved result cannot be
\* delivered or somebody else has one of its file names.
THEOREM FailuresHaveACause == Spec => []FailsOnlyForCause
<1> DEFINE Blamed == Uneventful => \A j \in Jobs : Untouched(j) /\ Doomed(j)
           Base == Inductive /\ (Recoverable => \A j \in Jobs : Unstranded(j))
<1>1. Init => Blamed
  <2> SUFFICES ASSUME Init, NEW j \in Jobs PROVE Untouched(j) /\ Doomed(j)
    OBVIOUS
  <2> QED
    BY DEF Init, Untouched, Doomed, Failing, Sources
<1>2. Base /\ Blamed /\ [Next]_vars => Blamed'
  <2> SUFFICES ASSUME Base, Blamed, [Next]_vars, Uneventful'
               PROVE  \A j \in Jobs : Untouched(j)' /\ Doomed(j)'
    OBVIOUS
  <2>1. Uneventful /\ Recoverable
    BY FaultsAreFixed DEF Uneventful, Recoverable, CleanUp
  <2>2. TypeOK /\ \A j \in Jobs : JobInv(j) /\ pc[j] # "undo"
    BY <2>1 DEF Inductive, Doomed
  <2> QED
    BY <2>1, <2>2, UntouchedStep, DoomedStep
<1>3. Inductive /\ Blamed => FailsOnlyForCause
  BY DEF Inductive, TypeOK, Uneventful, Doomed, Failing, Cause, FailsOnlyForCause
<1> HIDE DEF Base, Blamed
<1>4. Spec => []Base
  BY NothingIsStranded DEF Base
<1>5. Base => Inductive
  BY DEF Base
<1> QED
  BY <1>1, <1>2, <1>3, <1>4, <1>5, PTL DEF Spec
=============================================================================
