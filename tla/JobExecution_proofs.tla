------------------------- MODULE JobExecution_proofs -------------------------
(***************************************************************************)
(* Theorems about JobExecution, for every set of jobs, every number of     *)
(* sources, every set of contents and names, on both platforms and under   *)
(* every combination of failures.                                          *)
(*                                                                         *)
(* The line of argument: every step keeps TypeOK; with it every step keeps *)
(* JobInv, which says what a job has established by each point of its      *)
(* control flow; and so whatever becomes visible under an output's name    *)
(* has everything Published lists.                                         *)
(***************************************************************************)
EXTENDS JobExecutionInvariant, TLAPS

-----------------------------------------------------------------------------
(* Type correctness. *)

LEMMA TypeInit == Init => TypeOK
  BY SourcesAssumption, NamesAssumption
  DEF Init, TypeOK, Sources, NothingRead, Steps, PreviewSteps, Kinds

LEMMA TypeStep == ASSUME TypeOK, [Next]_vars PROVE TypeOK'
<1> USE SourcesAssumption, NamesAssumption
    DEF TypeOK, Sources, envVars, inputVars, keptVars, writeVars, Kinds,
        Steps, PreviewSteps, BeforeWorkspace, WriterSteps, Terminal
<1>1. ASSUME NEW j \in Jobs, PreviewVerify(j) PROVE TypeOK'
  BY <1>1 DEF PreviewVerify, EachBinding
<1>2. ASSUME NEW j \in Jobs, PreviewLoad(j) PROVE TypeOK'
  BY <1>2 DEF PreviewLoad, EachBinding
<1>3. ASSUME NEW j \in Jobs, PreviewRecheck(j) PROVE TypeOK'
  BY <1>3 DEF PreviewRecheck, EachBinding
<1>4. ASSUME NEW j \in Jobs, PreviewFails(j) PROVE TypeOK'
  BY <1>4 DEF PreviewFails, BreakLoop, Goto
<1>5. ASSUME NEW j \in Jobs, Approve(j) PROVE TypeOK'
  BY <1>5 DEF Approve, Goto
<1>6. ASSUME NEW j \in Jobs, Begin(j) PROVE TypeOK'
  BY <1>6 DEF Begin, Goto
<1>7. ASSUME NEW j \in Jobs, VerifySource(j) PROVE TypeOK'
  BY <1>7 DEF VerifySource, EachBinding
<1>8. ASSUME NEW j \in Jobs, BackupSource(j) PROVE TypeOK'
  BY <1>8 DEF BackupSource, EachBinding
<1>9. ASSUME NEW j \in Jobs, ResolveOutput(j) PROVE TypeOK'
  BY <1>9 DEF ResolveOutput, Goto
<1>10. ASSUME NEW j \in Jobs, ResolveAudit(j) PROVE TypeOK'
  BY <1>10 DEF ResolveAudit, Goto
<1>11. ASSUME NEW j \in Jobs, EnterWorkspace(j) PROVE TypeOK'
  BY <1>11 DEF EnterWorkspace, Goto
<1>12. ASSUME NEW j \in Jobs, CopySource(j) PROVE TypeOK'
  BY <1>12 DEF CopySource, EachBinding
<1>13. ASSUME NEW j \in Jobs, SourceCheckFails(j) PROVE TypeOK'
  BY <1>13 DEF SourceCheckFails, BreakLoop, Goto, Raised
<1>14. ASSUME NEW j \in Jobs, RunPlan(j) PROVE TypeOK'
  BY <1>14 DEF RunPlan, Goto, Verdict
<1>15. ASSUME NEW j \in Jobs, StepRaises(j) PROVE TypeOK'
  BY <1>15 DEF StepRaises, Goto, Raised
<1>16. ASSUME NEW j \in Jobs, StageFile(j) PROVE TypeOK'
  <2>1. "check" \in Steps /\ WriteRaised(j) \in Steps
    BY DEF WriteRaised
  <2>2. staged' \in [Jobs -> BOOLEAN]
    BY <1>16 DEF StageFile
  <2>3. \E there \in {"check", WriteRaised(j)} : Goto(j, "stage", there)
    BY <1>16 DEF StageFile
  <2>4. pc' \in [Jobs -> Steps]
    BY <2>1, <2>3 DEF Goto
  <2> QED
    BY <1>16, <2>2, <2>4 DEF StageFile
<1>17. ASSUME NEW j \in Jobs, StageFails(j) PROVE TypeOK'
  BY <1>17 DEF StageFails, Goto, Dest
<1>18. ASSUME NEW j \in Jobs, CheckStage(j) PROVE TypeOK'
  BY <1>18 DEF CheckStage, Goto, SeenFresh
<1>19. ASSUME NEW j \in Jobs, StageRefused(j) PROVE TypeOK'
  BY <1>19 DEF StageRefused, Goto
<1>20. ASSUME NEW j \in Jobs, PrecommitVerify(j) PROVE TypeOK'
  BY <1>20 DEF PrecommitVerify, EachBinding
<1>21. ASSUME NEW j \in Jobs, PrecommitFails(j) PROVE TypeOK'
  BY <1>21 DEF PrecommitFails, BreakLoop, Goto
<1>22. ASSUME NEW j \in Jobs, RenameStage(j) PROVE TypeOK'
  BY <1>22 DEF RenameStage, Goto, Dest, Written
<1>23. ASSUME NEW j \in Jobs, LinkStage(j) PROVE TypeOK'
  BY <1>23 DEF LinkStage, Goto, Dest
<1>24. ASSUME NEW j \in Jobs, UnlinkStage(j) PROVE TypeOK'
  BY <1>24 DEF UnlinkStage, Goto, Written
<1>25. ASSUME NEW j \in Jobs, UnlinkFails(j) PROVE TypeOK'
  BY <1>25 DEF UnlinkFails, Goto
<1>26. ASSUME NEW j \in Jobs, UndoLink(j) PROVE TypeOK'
  BY <1>26 DEF UndoLink, Goto, Dest
<1>27. ASSUME NEW j \in Jobs, UndoFails(j) PROVE TypeOK'
  BY <1>27 DEF UndoFails, Goto
<1>28. ASSUME NEW j \in Jobs, PublishCollides(j) PROVE TypeOK'
  BY <1>28 DEF PublishCollides, Goto, Dest
<1>29. ASSUME NEW j \in Jobs, Quarantine(j) PROVE TypeOK'
  BY <1>29 DEF Quarantine, Goto, WriteRaised
<1>30. ASSUME NEW j \in Jobs, QuarantineFails(j) PROVE TypeOK'
  BY <1>30 DEF QuarantineFails, Goto, WriteRaised
<1>31. ASSUME NEW j \in Jobs, LeaveWorkspace(j) PROVE TypeOK'
  BY <1>31 DEF LeaveWorkspace, Goto
<1>32. ASSUME NEW j \in Jobs, Unwind(j) PROVE TypeOK'
  BY <1>32 DEF Unwind, Goto
<1>33. ASSUME NEW j \in Jobs, CleanupFails(j) PROVE TypeOK'
  BY <1>33 DEF CleanupFails, Goto
<1>34. ASSUME NEW j \in Jobs, WithdrawOutput(j) PROVE TypeOK'
  BY <1>34 DEF WithdrawOutput, Goto
<1>35. ASSUME NEW j \in Jobs, WithdrawFails(j) PROVE TypeOK'
  BY <1>35 DEF WithdrawFails, Goto
<1>36. ASSUME NEW j \in Jobs, Crash(j) PROVE TypeOK'
  BY <1>36 DEF Crash
<1>37. ASSUME NEW s \in Sources, NEW c \in Contents, EditSource(s, c) PROVE TypeOK'
  BY <1>37 DEF EditSource
<1>38. ASSUME NEW p \in Paths, OthersCreate(p) PROVE TypeOK'
  BY <1>38 DEF OthersCreate
<1>39. CASE UNCHANGED vars
  BY <1>39 DEF vars
<1>40. ASSUME NEW j \in Jobs, WriterRefuses(j) PROVE TypeOK'
  BY <1>40 DEF WriterRefuses, Goto
<1>41. ASSUME NEW j \in Jobs, StageInvalid(j) PROVE TypeOK'
  BY <1>41 DEF StageInvalid, Goto
<1> QED
  BY <1>1, <1>2, <1>3, <1>4, <1>5, <1>6, <1>7, <1>8, <1>9, <1>10, <1>11,
     <1>12, <1>13, <1>14, <1>15, <1>16, <1>17, <1>18, <1>19, <1>20, <1>21,
     <1>22, <1>23, <1>24, <1>25, <1>26, <1>27, <1>28, <1>29, <1>30, <1>31,
     <1>32, <1>33, <1>34, <1>35, <1>36, <1>37, <1>38, <1>39, <1>40, <1>41
  DEF Next, Preview, Execute, Write, Environment

\* Every variable stays within its type: the loops never leave the bindings, a
\* job is always at a step of the code, a file name is held by at most one owner.
THEOREM TypeCorrect == Spec => []TypeOK
  BY TypeInit, TypeStep, PTL DEF Spec

-----------------------------------------------------------------------------
(* What a job has established by each point of its control flow. *)

LEMMA JobInvInit == ASSUME Init, NEW j \in Jobs PROVE JobInv(j)
  BY SourcesAssumption, NamesAssumption
  DEF Init, JobInv, ConsentHolds, LoopStarts, BackupProgress, CopyProgress, ResultApproved,
      TargetOfStep, PrecommitProgress, VisibleSince, OwnsWhatItUndoes, OutputVisible,
      Approved, BackedUp, Copied, Loops, Steps, PreviewSteps, BeforeWorkspace,
      WriterSteps, Terminal

\* A step leaves alone what the result of a job that runs or writes is judged by.
LEMMA JudgementsKeep ==
  ASSUME NEW j \in Jobs, copied'[j] = copied[j], previewed'[j] = previewed[j]
  PROVE  /\ Final(j)' = Final(j)
         /\ Reproduced(j)' <=> Reproduced(j)
         /\ Deliverable(j, Final(j))' <=> Deliverable(j, Final(j))
         /\ Judged(j)' = Judged(j)
         /\ target'[j] = target[j] => CanWrite(j)' = CanWrite(j) /\ Reopens(j)' = Reopens(j)
         /\ target'[j] = "audit" => CanWrite(j)' /\ Reopens(j)'
  BY DEF Final, Deliverable, Judged, Reproduced, CanWrite, Reopens

LEMMA ResultApprovedStep ==
  ASSUME TypeOK, [Next]_vars, NEW j \in Jobs, ResultApproved(j), TargetOfStep(j)
  PROVE  ResultApproved(j)'
<1> DEFINE Kept == copied'[j] = copied[j] /\ previewed'[j] = previewed[j]
<1>0. Kept => /\ Final(j)' = Final(j)
              /\ Judged(j)' = Judged(j)
              /\ target'[j] = target[j] => CanWrite(j)' = CanWrite(j) /\ Reopens(j)' = Reopens(j)
              /\ target'[j] = "audit" => CanWrite(j)' /\ Reopens(j)'
  BY JudgementsKeep
<1> USE <1>0
    DEF TypeOK, ResultApproved, TargetOfStep, Copied, envVars, inputVars, keptVars, writeVars,
        Kinds, Steps, PreviewSteps, BeforeWorkspace, WriterSteps, Terminal
<1>1. ASSUME NEW i \in Jobs, PreviewVerify(i) PROVE ResultApproved(j)'
  BY <1>1 DEF PreviewVerify, EachBinding
<1>2. ASSUME NEW i \in Jobs, PreviewLoad(i) PROVE ResultApproved(j)'
  BY <1>2 DEF PreviewLoad, EachBinding
<1>3. ASSUME NEW i \in Jobs, PreviewRecheck(i) PROVE ResultApproved(j)'
  BY <1>3 DEF PreviewRecheck, EachBinding
<1>4. ASSUME NEW i \in Jobs, PreviewFails(i) PROVE ResultApproved(j)'
  BY <1>4 DEF PreviewFails, BreakLoop, Goto
<1>5. ASSUME NEW i \in Jobs, Approve(i) PROVE ResultApproved(j)'
  BY <1>5 DEF Approve, Goto
<1>6. ASSUME NEW i \in Jobs, Begin(i) PROVE ResultApproved(j)'
  BY <1>6 DEF Begin, Goto
<1>7. ASSUME NEW i \in Jobs, VerifySource(i) PROVE ResultApproved(j)'
  BY <1>7 DEF VerifySource, EachBinding
<1>8. ASSUME NEW i \in Jobs, BackupSource(i) PROVE ResultApproved(j)'
  BY <1>8 DEF BackupSource, EachBinding
<1>9. ASSUME NEW i \in Jobs, ResolveOutput(i) PROVE ResultApproved(j)'
  BY <1>9 DEF ResolveOutput, Goto
<1>10. ASSUME NEW i \in Jobs, ResolveAudit(i) PROVE ResultApproved(j)'
  BY <1>10 DEF ResolveAudit, Goto
<1>11. ASSUME NEW i \in Jobs, EnterWorkspace(i) PROVE ResultApproved(j)'
  BY <1>11 DEF EnterWorkspace, Goto
<1>12. ASSUME NEW i \in Jobs, CopySource(i) PROVE ResultApproved(j)'
  BY <1>12 DEF CopySource, EachBinding
<1>13. ASSUME NEW i \in Jobs, SourceCheckFails(i) PROVE ResultApproved(j)'
  BY <1>13 DEF SourceCheckFails, BreakLoop, Goto, Raised
<1>14. ASSUME NEW i \in Jobs, RunPlan(i) PROVE ResultApproved(j)'
  BY <1>14 DEF RunPlan, Goto, Verdict
<1>15. ASSUME NEW i \in Jobs, StepRaises(i) PROVE ResultApproved(j)'
  BY <1>15 DEF StepRaises, Goto, Raised
<1>16. ASSUME NEW i \in Jobs, StageFile(i) PROVE ResultApproved(j)'
  BY <1>16 DEF StageFile, Goto, WriteRaised
<1>17. ASSUME NEW i \in Jobs, WriterRefuses(i) PROVE ResultApproved(j)'
  BY <1>17 DEF WriterRefuses, Goto
<1>18. ASSUME NEW i \in Jobs, StageFails(i) PROVE ResultApproved(j)'
  BY <1>18 DEF StageFails, Goto
<1>19. ASSUME NEW i \in Jobs, CheckStage(i) PROVE ResultApproved(j)'
  BY <1>19 DEF CheckStage, Goto
<1>20. ASSUME NEW i \in Jobs, StageInvalid(i) PROVE ResultApproved(j)'
  BY <1>20 DEF StageInvalid, Goto
<1>21. ASSUME NEW i \in Jobs, StageRefused(i) PROVE ResultApproved(j)'
  BY <1>21 DEF StageRefused, Goto
<1>22. ASSUME NEW i \in Jobs, PrecommitVerify(i) PROVE ResultApproved(j)'
  BY <1>22 DEF PrecommitVerify, EachBinding
<1>23. ASSUME NEW i \in Jobs, PrecommitFails(i) PROVE ResultApproved(j)'
  BY <1>23 DEF PrecommitFails, BreakLoop, Goto
<1>24. ASSUME NEW i \in Jobs, RenameStage(i) PROVE ResultApproved(j)'
  BY <1>24 DEF RenameStage, Goto, Written
<1>25. ASSUME NEW i \in Jobs, LinkStage(i) PROVE ResultApproved(j)'
  BY <1>25 DEF LinkStage, Goto
<1>26. ASSUME NEW i \in Jobs, UnlinkStage(i) PROVE ResultApproved(j)'
  BY <1>26 DEF UnlinkStage, Goto, Written
<1>27. ASSUME NEW i \in Jobs, UnlinkFails(i) PROVE ResultApproved(j)'
  BY <1>27 DEF UnlinkFails, Goto
<1>28. ASSUME NEW i \in Jobs, UndoLink(i) PROVE ResultApproved(j)'
  BY <1>28 DEF UndoLink, Goto
<1>29. ASSUME NEW i \in Jobs, UndoFails(i) PROVE ResultApproved(j)'
  BY <1>29 DEF UndoFails, Goto
<1>30. ASSUME NEW i \in Jobs, PublishCollides(i) PROVE ResultApproved(j)'
  BY <1>30 DEF PublishCollides, Goto
<1>31. ASSUME NEW i \in Jobs, Quarantine(i) PROVE ResultApproved(j)'
  BY <1>31 DEF Quarantine, Goto, WriteRaised
<1>32. ASSUME NEW i \in Jobs, QuarantineFails(i) PROVE ResultApproved(j)'
  BY <1>32 DEF QuarantineFails, Goto, WriteRaised
<1>33. ASSUME NEW i \in Jobs, LeaveWorkspace(i) PROVE ResultApproved(j)'
  BY <1>33 DEF LeaveWorkspace, Goto
<1>34. ASSUME NEW i \in Jobs, Unwind(i) PROVE ResultApproved(j)'
  BY <1>34 DEF Unwind, Goto
<1>35. ASSUME NEW i \in Jobs, CleanupFails(i) PROVE ResultApproved(j)'
  BY <1>35 DEF CleanupFails, Goto
<1>36. ASSUME NEW i \in Jobs, WithdrawOutput(i) PROVE ResultApproved(j)'
  BY <1>36 DEF WithdrawOutput, Goto
<1>37. ASSUME NEW i \in Jobs, WithdrawFails(i) PROVE ResultApproved(j)'
  BY <1>37 DEF WithdrawFails, Goto
<1>38. ASSUME NEW i \in Jobs, Crash(i) PROVE ResultApproved(j)'
  BY <1>38 DEF Crash
<1>39. ASSUME NEW s \in Sources, NEW c \in Contents, EditSource(s, c) PROVE ResultApproved(j)'
  BY <1>39 DEF EditSource
<1>40. ASSUME NEW p \in Paths, OthersCreate(p) PROVE ResultApproved(j)'
  BY <1>40 DEF OthersCreate
<1>41. CASE UNCHANGED vars
  BY <1>41 DEF vars
<1> QED
  BY <1>1, <1>2, <1>3, <1>4, <1>5, <1>6, <1>7, <1>8, <1>9, <1>10, <1>11,
     <1>12, <1>13, <1>14, <1>15, <1>16, <1>17, <1>18, <1>19, <1>20, <1>21, <1>22,
     <1>23, <1>24, <1>25, <1>26, <1>27, <1>28, <1>29, <1>30, <1>31, <1>32, <1>33,
     <1>34, <1>35, <1>36, <1>37, <1>38, <1>39, <1>40, <1>41
  DEF Next, Preview, Execute, Write, Environment

LEMMA JobInvStep ==
  ASSUME TypeOK, \A j \in Jobs : JobInv(j), [Next]_vars, NEW j \in Jobs
  PROVE  JobInv(j)'
<1>0. TypeOK' /\ JobInv(j) /\ ResultApproved(j)'
  BY TypeStep, ResultApprovedStep DEF JobInv
<1> USE <1>0, SourcesAssumption, NamesAssumption, DistinctNamesAssumption
    DEF TypeOK, Sources, envVars, inputVars, keptVars, writeVars, Kinds,
        Steps, PreviewSteps, BeforeWorkspace, WriterSteps, Terminal,
        Approved, BackedUp, Copied, Loops, JobInv, ConsentHolds, LoopStarts,
        BackupProgress, CopyProgress, TargetOfStep,
        PrecommitProgress, VisibleSince, OwnsWhatItUndoes, OutputVisible, Dest
<1>1. ASSUME NEW i \in Jobs, PreviewVerify(i) PROVE JobInv(j)'
  BY <1>1 DEF PreviewVerify, EachBinding, Unchanged
<1>2. ASSUME NEW i \in Jobs, PreviewLoad(i) PROVE JobInv(j)'
  BY <1>2 DEF PreviewLoad, EachBinding
<1>3. ASSUME NEW i \in Jobs, PreviewRecheck(i) PROVE JobInv(j)'
  BY <1>3 DEF PreviewRecheck, EachBinding, Unchanged
<1>4. ASSUME NEW i \in Jobs, PreviewFails(i) PROVE JobInv(j)'
  BY <1>4 DEF PreviewFails, BreakLoop, Goto, ChangedOrUnreadable, Unchanged
<1>5. ASSUME NEW i \in Jobs, Approve(i) PROVE JobInv(j)'
  BY <1>5 DEF Approve, Goto
<1>6. ASSUME NEW i \in Jobs, Begin(i) PROVE JobInv(j)'
  BY <1>6 DEF Begin, Goto
<1>7. ASSUME NEW i \in Jobs, VerifySource(i) PROVE JobInv(j)'
  BY <1>7 DEF VerifySource, EachBinding, Unchanged
<1>8. ASSUME NEW i \in Jobs, BackupSource(i) PROVE JobInv(j)'
  <2>1. CASE i # j
  BY <1>8, <2>1 DEF BackupSource, EachBinding
  <2>2. CASE i = j
    <3>1. /\ backup'[j] = [backup[j] EXCEPT ![at[j]] = analysed[j][at[j]]]
          /\ analysed'[j] = analysed[j]
          /\ pc[j] = "backup"
          /\ pc'[j] = IF at[j] = NumSources THEN "resolve" ELSE "backup"
          /\ at'[j] = IF at[j] = NumSources THEN 1 ELSE at[j] + 1
    BY <1>8, <2>2 DEF BackupSource, EachBinding, Unchanged
    <3>2. ASSUME NEW s \in Sources, s <= at[j] PROVE backup'[j][s] = analysed'[j][s]
      <4>0. at[j] \in Nat /\ s \in Nat /\ backup[j] \in [Sources -> Contents \union {Unread}]
        OBVIOUS
      <4>1. CASE s = at[j]
        BY <3>1, <4>0, <4>1
      <4>2. CASE s # at[j]
        <5>1. s < at[j]
          BY <3>2, <4>0, <4>2
        <5>2. backup[j][s] = analysed[j][s]
          BY <3>1, <5>1
        <5> QED
          BY <3>1, <4>0, <4>2, <5>2
      <4> QED
        BY <4>1, <4>2
    <3>3. BackupProgress(j)'
      BY <3>1, <3>2
    <3> QED
      BY <3>1, <3>3, <1>8, <2>2 DEF BackupSource, EachBinding
  <2> QED
    BY <2>1, <2>2
<1>9. ASSUME NEW i \in Jobs, ResolveOutput(i) PROVE JobInv(j)'
  BY <1>9 DEF ResolveOutput, Goto
<1>10. ASSUME NEW i \in Jobs, ResolveAudit(i) PROVE JobInv(j)'
  BY <1>10 DEF ResolveAudit, Goto
<1>11. ASSUME NEW i \in Jobs, EnterWorkspace(i) PROVE JobInv(j)'
  BY <1>11 DEF EnterWorkspace, Goto
<1>12. ASSUME NEW i \in Jobs, CopySource(i) PROVE JobInv(j)'
  <2>1. CASE i # j
  BY <1>12, <2>1 DEF CopySource, EachBinding
  <2>2. CASE i = j
    <3>1. /\ copied'[j] = [copied[j] EXCEPT ![at[j]] = analysed[j][at[j]]]
          /\ analysed'[j] = analysed[j]
          /\ pc[j] = "copy"
          /\ pc'[j] = IF at[j] = NumSources THEN "run" ELSE "copy"
          /\ at'[j] = IF at[j] = NumSources THEN 1 ELSE at[j] + 1
    BY <1>12, <2>2 DEF CopySource, EachBinding, Unchanged
    <3>2. ASSUME NEW s \in Sources, s <= at[j] PROVE copied'[j][s] = analysed'[j][s]
      <4>0. at[j] \in Nat /\ s \in Nat /\ copied[j] \in [Sources -> Contents \union {Unread}]
        OBVIOUS
      <4>1. CASE s = at[j]
        BY <3>1, <4>0, <4>1
      <4>2. CASE s # at[j]
        <5>1. s < at[j]
          BY <3>2, <4>0, <4>2
        <5>2. copied[j][s] = analysed[j][s]
          BY <3>1, <5>1
        <5> QED
          BY <3>1, <4>0, <4>2, <5>2
      <4> QED
        BY <4>1, <4>2
    <3>3. CopyProgress(j)'
      BY <3>1, <3>2
    <3> QED
      BY <3>1, <3>3, <1>12, <2>2 DEF CopySource, EachBinding
  <2> QED
    BY <2>1, <2>2
<1>13. ASSUME NEW i \in Jobs, SourceCheckFails(i) PROVE JobInv(j)'
  BY <1>13 DEF SourceCheckFails, BreakLoop, Goto, Raised, ChangedOrUnreadable, Unchanged
<1>14. ASSUME NEW i \in Jobs, RunPlan(i) PROVE JobInv(j)'
  BY <1>14 DEF RunPlan, Goto, Verdict
<1>15. ASSUME NEW i \in Jobs, StepRaises(i) PROVE JobInv(j)'
  BY <1>15 DEF StepRaises, Goto, Raised
<1>16. ASSUME NEW i \in Jobs, StageFile(i) PROVE JobInv(j)'
  BY <1>16 DEF StageFile, Goto, WriteRaised
<1>17. ASSUME NEW i \in Jobs, StageFails(i) PROVE JobInv(j)'
  BY <1>17 DEF StageFails, Goto
<1>18. ASSUME NEW i \in Jobs, CheckStage(i) PROVE JobInv(j)'
  BY <1>18 DEF CheckStage, Goto, SeenFresh
<1>19. ASSUME NEW i \in Jobs, StageRefused(i) PROVE JobInv(j)'
  BY <1>19 DEF StageRefused, Goto
<1>20. ASSUME NEW i \in Jobs, PrecommitVerify(i) PROVE JobInv(j)'
  BY <1>20 DEF PrecommitVerify, EachBinding, Unchanged
<1>21. ASSUME NEW i \in Jobs, PrecommitFails(i) PROVE JobInv(j)'
  BY <1>21 DEF PrecommitFails, BreakLoop, Goto, ChangedOrUnreadable, Unchanged
<1>22. ASSUME NEW i \in Jobs, RenameStage(i) PROVE JobInv(j)'
  BY <1>22 DEF RenameStage, Goto, Written
<1>23. ASSUME NEW i \in Jobs, LinkStage(i) PROVE JobInv(j)'
  BY <1>23 DEF LinkStage, Goto
<1>24. ASSUME NEW i \in Jobs, UnlinkStage(i) PROVE JobInv(j)'
  BY <1>24 DEF UnlinkStage, Goto, Written
<1>25. ASSUME NEW i \in Jobs, UnlinkFails(i) PROVE JobInv(j)'
  BY <1>25 DEF UnlinkFails, Goto
<1>26. ASSUME NEW i \in Jobs, UndoLink(i) PROVE JobInv(j)'
  BY <1>26 DEF UndoLink, Goto
<1>27. ASSUME NEW i \in Jobs, UndoFails(i) PROVE JobInv(j)'
  BY <1>27 DEF UndoFails, Goto
<1>28. ASSUME NEW i \in Jobs, PublishCollides(i) PROVE JobInv(j)'
  BY <1>28 DEF PublishCollides, Goto
<1>29. ASSUME NEW i \in Jobs, Quarantine(i) PROVE JobInv(j)'
  BY <1>29 DEF Quarantine, Goto, WriteRaised
<1>30. ASSUME NEW i \in Jobs, QuarantineFails(i) PROVE JobInv(j)'
  BY <1>30 DEF QuarantineFails, Goto, WriteRaised
<1>31. ASSUME NEW i \in Jobs, LeaveWorkspace(i) PROVE JobInv(j)'
  BY <1>31 DEF LeaveWorkspace, Goto
<1>32. ASSUME NEW i \in Jobs, Unwind(i) PROVE JobInv(j)'
  BY <1>32 DEF Unwind, Goto
<1>33. ASSUME NEW i \in Jobs, CleanupFails(i) PROVE JobInv(j)'
  BY <1>33 DEF CleanupFails, Goto
<1>34. ASSUME NEW i \in Jobs, WithdrawOutput(i) PROVE JobInv(j)'
  BY <1>34 DEF WithdrawOutput, Goto
<1>35. ASSUME NEW i \in Jobs, WithdrawFails(i) PROVE JobInv(j)'
  BY <1>35 DEF WithdrawFails, Goto
<1>36. ASSUME NEW i \in Jobs, Crash(i) PROVE JobInv(j)'
  BY <1>36 DEF Crash
<1>37. ASSUME NEW s \in Sources, NEW c \in Contents, EditSource(s, c) PROVE JobInv(j)'
  BY <1>37 DEF EditSource
<1>38. ASSUME NEW p \in Paths, OthersCreate(p) PROVE JobInv(j)'
  BY <1>38 DEF OthersCreate
<1>39. CASE UNCHANGED vars
  BY <1>39 DEF vars
<1>40. ASSUME NEW i \in Jobs, WriterRefuses(i) PROVE JobInv(j)'
  BY <1>40 DEF WriterRefuses, Goto
<1>41. ASSUME NEW i \in Jobs, StageInvalid(i) PROVE JobInv(j)'
  BY <1>41 DEF StageInvalid, Goto
<1> QED
  BY <1>1, <1>2, <1>3, <1>4, <1>5, <1>6, <1>7, <1>8, <1>9, <1>10, <1>11,
     <1>12, <1>13, <1>14, <1>15, <1>16, <1>17, <1>18, <1>19, <1>20, <1>21,
     <1>22, <1>23, <1>24, <1>25, <1>26, <1>27, <1>28, <1>29, <1>30, <1>31,
     <1>32, <1>33, <1>34, <1>35, <1>36, <1>37, <1>38, <1>39, <1>40, <1>41
  DEF Next, Preview, Execute, Write, Environment

-----------------------------------------------------------------------------
(* What is published. *)

\* All that the three safety properties say of one job.
Published(j) ==
  OutputVisible(j) =>
    /\ consent[j]
    /\ copied[j] = analysed[j]
    /\ Reproduced(j)
    /\ Deliverable(j, Final(j))
    /\ backup[j] = analysed[j]
    /\ fresh[j] = Sources

LEMMA Extensional ==
  ASSUME NEW D, NEW R, NEW f \in [D -> R], NEW S, NEW g \in [D -> S],
         \A x \in D : f[x] = g[x]
  PROVE  f = g
  OBVIOUS

LEMMA SameElements ==
  ASSUME NEW S, NEW T, S \subseteq T, T \subseteq S
  PROVE  S = T
  OBVIOUS

LEMMA PublishedStep ==
  ASSUME TypeOK, \A j \in Jobs : JobInv(j), [Next]_vars, NEW j \in Jobs, Published(j)
  PROVE  Published(j)'
<1>0. JobInv(j)
  OBVIOUS
<1>a. copied'[j] = copied[j] /\ previewed'[j] = previewed[j] =>
        /\ Reproduced(j)' <=> Reproduced(j)
        /\ Deliverable(j, Final(j))' <=> Deliverable(j, Final(j))
  BY JudgementsKeep
<1> USE <1>0, <1>a, NamesAssumption, DistinctNamesAssumption
    DEF TypeOK, envVars, inputVars, keptVars, writeVars, Kinds, Steps, PreviewSteps,
        BeforeWorkspace, WriterSteps, Terminal, Approved, BackedUp, Copied, JobInv,
        ConsentHolds, BackupProgress, CopyProgress, ResultApproved, PrecommitProgress,
        VisibleSince, OutputVisible, Dest, Published
<1>1. ASSUME NEW i \in Jobs, PreviewVerify(i) PROVE Published(j)'
  BY <1>1 DEF PreviewVerify, EachBinding
<1>2. ASSUME NEW i \in Jobs, PreviewLoad(i) PROVE Published(j)'
  <2>1. CASE i = j
    <3>1. ~OutputVisible(j) /\ holder' = holder
      BY <1>2, <2>1 DEF PreviewLoad, EachBinding
    <3> QED
      BY <3>1
  <2>2. CASE i # j
    <3>1. /\ UNCHANGED <<holder, analysed, consent, backup, copied, fresh>>
          /\ previewed'[j] = previewed[j]
      BY <1>2, <2>2 DEF PreviewLoad, EachBinding
    <3> QED
      BY <3>1
  <2> QED
    BY <2>1, <2>2
<1>3. ASSUME NEW i \in Jobs, PreviewRecheck(i) PROVE Published(j)'
  BY <1>3 DEF PreviewRecheck, EachBinding
<1>4. ASSUME NEW i \in Jobs, PreviewFails(i) PROVE Published(j)'
  BY <1>4 DEF PreviewFails, BreakLoop, Goto
<1>5. ASSUME NEW i \in Jobs, Approve(i) PROVE Published(j)'
  <2>1. CASE i = j
    <3>1. ~OutputVisible(j) /\ holder' = holder
      BY <1>5, <2>1 DEF Approve, Goto
    <3> QED
      BY <3>1
  <2>2. CASE i # j
    <3>1. /\ UNCHANGED <<holder, analysed, previewed, backup, copied, fresh>>
          /\ consent'[j] = consent[j]
      BY <1>5, <2>2 DEF Approve, Goto
    <3> QED
      BY <3>1
  <2> QED
    BY <2>1, <2>2
<1>6. ASSUME NEW i \in Jobs, Begin(i) PROVE Published(j)'
  BY <1>6 DEF Begin, Goto
<1>7. ASSUME NEW i \in Jobs, VerifySource(i) PROVE Published(j)'
  BY <1>7 DEF VerifySource, EachBinding
<1>8. ASSUME NEW i \in Jobs, BackupSource(i) PROVE Published(j)'
  <2>1. CASE i = j
    <3>1. ~OutputVisible(j) /\ holder' = holder
      BY <1>8, <2>1 DEF BackupSource, EachBinding
    <3> QED
      BY <3>1
  <2>2. CASE i # j
    <3>1. /\ UNCHANGED <<holder, analysed, previewed, consent, copied, fresh>>
          /\ backup'[j] = backup[j]
      BY <1>8, <2>2 DEF BackupSource, EachBinding
    <3> QED
      BY <3>1
  <2> QED
    BY <2>1, <2>2
<1>9. ASSUME NEW i \in Jobs, ResolveOutput(i) PROVE Published(j)'
  BY <1>9 DEF ResolveOutput, Goto
<1>10. ASSUME NEW i \in Jobs, ResolveAudit(i) PROVE Published(j)'
  BY <1>10 DEF ResolveAudit, Goto
<1>11. ASSUME NEW i \in Jobs, EnterWorkspace(i) PROVE Published(j)'
  BY <1>11 DEF EnterWorkspace, Goto
<1>12. ASSUME NEW i \in Jobs, CopySource(i) PROVE Published(j)'
  <2>1. CASE i = j
    <3>1. ~OutputVisible(j) /\ holder' = holder
      BY <1>12, <2>1 DEF CopySource, EachBinding
    <3> QED
      BY <3>1
  <2>2. CASE i # j
    <3>1. /\ UNCHANGED <<holder, analysed, previewed, consent, backup, fresh>>
          /\ copied'[j] = copied[j]
      BY <1>12, <2>2 DEF CopySource, EachBinding
    <3> QED
      BY <3>1
  <2> QED
    BY <2>1, <2>2
<1>13. ASSUME NEW i \in Jobs, SourceCheckFails(i) PROVE Published(j)'
  BY <1>13 DEF SourceCheckFails, BreakLoop, Goto
<1>14. ASSUME NEW i \in Jobs, RunPlan(i) PROVE Published(j)'
  BY <1>14 DEF RunPlan, Goto
<1>15. ASSUME NEW i \in Jobs, StepRaises(i) PROVE Published(j)'
  BY <1>15 DEF StepRaises, Goto
<1>16. ASSUME NEW i \in Jobs, StageFile(i) PROVE Published(j)'
  BY <1>16 DEF StageFile, Goto
<1>17. ASSUME NEW i \in Jobs, StageFails(i) PROVE Published(j)'
  BY <1>17 DEF StageFails, Goto
<1>18. ASSUME NEW i \in Jobs, CheckStage(i) PROVE Published(j)'
  <2>1. CASE i = j
    <3>1. UNCHANGED <<holder, analysed, previewed, consent, backup, copied>>
      BY <1>18 DEF CheckStage
    <3>2. CASE target[j] = "audit"
      <4>1. fresh'[j] = fresh[j]
        BY <1>18, <2>1, <3>2 DEF CheckStage
      <4> QED
        BY <3>1, <4>1
    <3>3. CASE target[j] # "audit"
      <4>1. ~OutputVisible(j)
        BY <1>18, <2>1, <3>3 DEF CheckStage, Goto
      <4> QED
        BY <3>1, <4>1
    <3> QED
      BY <3>2, <3>3
  <2>2. CASE i # j
    <3>1. /\ UNCHANGED <<holder, analysed, previewed, consent, backup, copied>>
          /\ fresh'[j] = fresh[j]
      BY <1>18, <2>2 DEF CheckStage, Goto
    <3> QED
      BY <3>1
  <2> QED
    BY <2>1, <2>2
<1>19. ASSUME NEW i \in Jobs, StageRefused(i) PROVE Published(j)'
  BY <1>19 DEF StageRefused, Goto
<1>20. ASSUME NEW i \in Jobs, PrecommitVerify(i) PROVE Published(j)'
  BY <1>20 DEF PrecommitVerify, EachBinding
<1>21. ASSUME NEW i \in Jobs, PrecommitFails(i) PROVE Published(j)'
  BY <1>21 DEF PrecommitFails, BreakLoop, Goto
<1>22. ASSUME NEW i \in Jobs, RenameStage(i) PROVE Published(j)'
  <2>1. UNCHANGED <<analysed, previewed, consent, backup, copied, fresh>>
    BY <1>22 DEF RenameStage
  <2>2. CASE i = j /\ target[j] = "output"
    <3>1. pc[j] = "publish"
      BY <1>22, <2>2 DEF RenameStage, Goto
    <3>2. /\ \A s \in Sources : copied[j][s] = analysed[j][s]
          /\ \A s \in Sources : backup[j][s] = analysed[j][s]
          /\ \A s \in Sources : s \in fresh[j]
      BY <2>2, <3>1
    <3>3. copied[j] = analysed[j]
      BY <3>2, Extensional
    <3>4. backup[j] = analysed[j]
      BY <3>2, Extensional
    <3>5. fresh[j] = Sources
      <4>1. fresh[j] \subseteq Sources
        OBVIOUS
      <4>2. Sources \subseteq fresh[j]
        BY <3>2
      <4> QED
        BY <4>1, <4>2, SameElements
    <3>6. consent[j] /\ Judged(j) /\ Final(j) \in Acceptable[j] /\ CanWrite(j) /\ Reopens(j)
      BY <2>2, <3>1
    <3>7. Reproduced(j) /\ Deliverable(j, Final(j))
      BY <2>2, <3>6 DEF Judged, Deliverable, CanWrite, Reopens
    <3>8. Reproduced(j)' /\ Deliverable(j, Final(j))'
      BY <2>1, <3>7
    <3> QED
      BY <2>1, <3>3, <3>4, <3>5, <3>6, <3>8
  <2>3. CASE i # j \/ target[j] # "output"
    <3>1. OutputVisible(j)' => OutputVisible(j)
      BY <1>22, <2>3 DEF RenameStage
    <3> QED
      BY <2>1, <3>1
  <2> QED
    BY <2>2, <2>3
<1>23. ASSUME NEW i \in Jobs, LinkStage(i) PROVE Published(j)'
  <2>1. UNCHANGED <<analysed, previewed, consent, backup, copied, fresh>>
    BY <1>23 DEF LinkStage
  <2>2. CASE i = j /\ target[j] = "output"
    <3>1. pc[j] = "publish"
      BY <1>23, <2>2 DEF LinkStage, Goto
    <3>2. /\ \A s \in Sources : copied[j][s] = analysed[j][s]
          /\ \A s \in Sources : backup[j][s] = analysed[j][s]
          /\ \A s \in Sources : s \in fresh[j]
      BY <2>2, <3>1
    <3>3. copied[j] = analysed[j]
      BY <3>2, Extensional
    <3>4. backup[j] = analysed[j]
      BY <3>2, Extensional
    <3>5. fresh[j] = Sources
      <4>1. fresh[j] \subseteq Sources
        OBVIOUS
      <4>2. Sources \subseteq fresh[j]
        BY <3>2
      <4> QED
        BY <4>1, <4>2, SameElements
    <3>6. consent[j] /\ Judged(j) /\ Final(j) \in Acceptable[j] /\ CanWrite(j) /\ Reopens(j)
      BY <2>2, <3>1
    <3>7. Reproduced(j) /\ Deliverable(j, Final(j))
      BY <2>2, <3>6 DEF Judged, Deliverable, CanWrite, Reopens
    <3>8. Reproduced(j)' /\ Deliverable(j, Final(j))'
      BY <2>1, <3>7
    <3> QED
      BY <2>1, <3>3, <3>4, <3>5, <3>6, <3>8
  <2>3. CASE i # j \/ target[j] # "output"
    <3>1. OutputVisible(j)' => OutputVisible(j)
      BY <1>23, <2>3 DEF LinkStage
    <3> QED
      BY <2>1, <3>1
  <2> QED
    BY <2>2, <2>3
<1>24. ASSUME NEW i \in Jobs, UnlinkStage(i) PROVE Published(j)'
  BY <1>24 DEF UnlinkStage, Goto
<1>25. ASSUME NEW i \in Jobs, UnlinkFails(i) PROVE Published(j)'
  BY <1>25 DEF UnlinkFails, Goto
<1>26. ASSUME NEW i \in Jobs, UndoLink(i) PROVE Published(j)'
  BY <1>26 DEF UndoLink, Goto
<1>27. ASSUME NEW i \in Jobs, UndoFails(i) PROVE Published(j)'
  BY <1>27 DEF UndoFails, Goto
<1>28. ASSUME NEW i \in Jobs, PublishCollides(i) PROVE Published(j)'
  BY <1>28 DEF PublishCollides, Goto
<1>29. ASSUME NEW i \in Jobs, Quarantine(i) PROVE Published(j)'
  BY <1>29 DEF Quarantine, Goto
<1>30. ASSUME NEW i \in Jobs, QuarantineFails(i) PROVE Published(j)'
  BY <1>30 DEF QuarantineFails, Goto
<1>31. ASSUME NEW i \in Jobs, LeaveWorkspace(i) PROVE Published(j)'
  BY <1>31 DEF LeaveWorkspace, Goto
<1>32. ASSUME NEW i \in Jobs, Unwind(i) PROVE Published(j)'
  BY <1>32 DEF Unwind, Goto
<1>33. ASSUME NEW i \in Jobs, CleanupFails(i) PROVE Published(j)'
  BY <1>33 DEF CleanupFails, Goto
<1>34. ASSUME NEW i \in Jobs, WithdrawOutput(i) PROVE Published(j)'
  BY <1>34 DEF WithdrawOutput, Goto
<1>35. ASSUME NEW i \in Jobs, WithdrawFails(i) PROVE Published(j)'
  BY <1>35 DEF WithdrawFails, Goto
<1>36. ASSUME NEW i \in Jobs, Crash(i) PROVE Published(j)'
  BY <1>36 DEF Crash
<1>37. ASSUME NEW s \in Sources, NEW c \in Contents, EditSource(s, c) PROVE Published(j)'
  <2>1. UNCHANGED <<holder, analysed, previewed, consent, backup, copied>>
    BY <1>37 DEF EditSource
  <2>2. fresh[j] = Sources => fresh'[j] = Sources
    BY <1>37 DEF EditSource
  <2> QED
    BY <2>1, <2>2
<1>38. ASSUME NEW p \in Paths, OthersCreate(p) PROVE Published(j)'
  BY <1>38 DEF OthersCreate
<1>39. CASE UNCHANGED vars
  BY <1>39 DEF vars
<1>40. ASSUME NEW i \in Jobs, WriterRefuses(i) PROVE Published(j)'
  BY <1>40 DEF WriterRefuses, Goto
<1>41. ASSUME NEW i \in Jobs, StageInvalid(i) PROVE Published(j)'
  BY <1>41 DEF StageInvalid, Goto
<1> QED
  BY <1>1, <1>2, <1>3, <1>4, <1>5, <1>6, <1>7, <1>8, <1>9, <1>10, <1>11,
     <1>12, <1>13, <1>14, <1>15, <1>16, <1>17, <1>18, <1>19, <1>20, <1>21,
     <1>22, <1>23, <1>24, <1>25, <1>26, <1>27, <1>28, <1>29, <1>30, <1>31,
     <1>32, <1>33, <1>34, <1>35, <1>36, <1>37, <1>38, <1>39, <1>40, <1>41
  DEF Next, Preview, Execute, Write, Environment

\* The inductive invariant the theorems about published files rest on: what each
\* job has established by each point of JobExecutor.execute, and its consequences.
THEOREM InductiveInvariant == Spec => []Inductive
<1>1. Init => Inductive
  <2> SUFFICES ASSUME Init PROVE Inductive
    OBVIOUS
  <2>1. \A j \in Jobs : ~OutputVisible(j)
    BY NamesAssumption DEF Init, OutputVisible
  <2> QED
    BY <2>1, TypeInit, JobInvInit
    DEF Inductive, OutputIsWhatWasApproved, BackedUpBeforeOutput, StaleSourceIsNeverPublished
<1>2. Inductive /\ [Next]_vars => Inductive'
  <2> SUFFICES ASSUME Inductive, [Next]_vars PROVE Inductive'
    OBVIOUS
  <2>1. TypeOK' /\ \A j \in Jobs : JobInv(j)'
    BY TypeStep, JobInvStep DEF Inductive
  <2>2. \A j \in Jobs : Published(j)'
    BY PublishedStep
    DEF Inductive, Published, OutputIsWhatWasApproved, BackedUpBeforeOutput,
        StaleSourceIsNeverPublished
  <2> QED
    BY <2>1, <2>2
    DEF Inductive, Published, OutputIsWhatWasApproved, BackedUpBeforeOutput,
        StaleSourceIsNeverPublished
<1> QED
  BY <1>1, <1>2, PTL DEF Spec

\* JobExecutor never shows a result under its final name that the user did not
\* approve, that was not computed from the analysed contents of the sources, that
\* differs from the preview, or that failed validation -- whatever other programs
\* do to the sources meanwhile and whatever fails.
THEOREM OnlyApprovedOutput == Spec => []OutputIsWhatWasApproved
<1>1. Inductive => OutputIsWhatWasApproved
  BY DEF Inductive
<1> QED
  BY <1>1, InductiveInvariant, PTL

\* Every source of a published output has a backup with the analysed content.
THEOREM BackupsComeFirst == Spec => []BackedUpBeforeOutput
<1>1. Inductive => BackedUpBeforeOutput
  BY DEF Inductive
<1> QED
  BY <1>1, InductiveInvariant, PTL

\* The pre_commit verification: an output is published only if every source had
\* its analysed content at some moment after the stage was validated.
THEOREM NoStaleSource == Spec => []StaleSourceIsNeverPublished
<1>1. Inductive => StaleSourceIsNeverPublished
  BY DEF Inductive
<1> QED
  BY <1>1, InductiveInvariant, PTL
-----------------------------------------------------------------------------
(* Other people's files. *)

\* publish_new_file never replaces a file, and the executor takes back only files
\* it published itself: what somebody else put in the result directory stays.
THEOREM OthersFilesStay == Spec => OthersFilesAreSafe
<1>0. Inductive /\ [Next]_vars => [FilesKept]_vars
  <2> SUFFICES ASSUME Inductive, Next PROVE FilesKept
    BY DEF vars
  <2> SUFFICES ASSUME NEW p \in Paths, holder[p] # Nobody, holder'[p] # holder[p]
               PROVE  /\ holder'[p] = Nobody
                      /\ holder[p] \in Jobs
                      /\ pc[holder[p]] \in {"undo", "withdraw"}
                      /\ pc'[holder[p]] # pc[holder[p]]
    BY DEF FilesKept
  <2>1. TypeOK /\ \A j \in Jobs : JobInv(j)
    BY DEF Inductive
  <2>2. ASSUME NEW j \in Jobs, RenameStage(j) \/ LinkStage(j) PROVE FALSE
    BY <2>1, <2>2, NamesAssumption DEF TypeOK, RenameStage, LinkStage, Dest
  <2>3. ASSUME NEW p2 \in Paths, OthersCreate(p2) PROVE FALSE
    BY <2>1, <2>3 DEF TypeOK, OthersCreate
  <2>4. ASSUME NEW j \in Jobs, UndoLink(j)
        PROVE  holder[p] = j /\ holder'[p] = Nobody /\ pc[j] = "undo" /\ pc'[j] = "quarantine"
    <3>1. holder[Dest(j)] = j
      BY <2>1, <2>4 DEF JobInv, OwnsWhatItUndoes, UndoLink, Goto
    <3> QED
      BY <2>1, <2>4, <3>1 DEF TypeOK, UndoLink, Goto
  <2>5. ASSUME NEW j \in Jobs, WithdrawOutput(j)
        PROVE  holder[p] = j /\ holder'[p] = Nobody /\ pc[j] = "withdraw" /\ pc'[j] = "failed"
    <3>1. holder[OutputPath[j]] = j
      BY <2>1, <2>5
      DEF JobInv, OwnsWhatItUndoes, TargetOfStep, OutputVisible, WithdrawOutput, Goto
    <3> QED
      BY <2>1, <2>5, <3>1 DEF TypeOK, WithdrawOutput, Goto
  <2>6. \E j \in Jobs : UndoLink(j) \/ WithdrawOutput(j)
    BY <2>2, <2>3
    DEF Next, Preview, Execute, Write, Environment, envVars, PreviewVerify, PreviewLoad,
        PreviewRecheck, PreviewFails, Approve, Begin, VerifySource, BackupSource,
        ResolveOutput, ResolveAudit, EnterWorkspace, CopySource, SourceCheckFails,
        RunPlan, StepRaises, StageFile, WriterRefuses, StageFails, CheckStage, StageInvalid,
      StageRefused,
        PrecommitVerify, PrecommitFails, UnlinkStage, UnlinkFails, UndoFails,
        PublishCollides, Quarantine, QuarantineFails, LeaveWorkspace, Unwind,
        CleanupFails, WithdrawFails, Crash, EditSource
  <2> QED
    BY <2>4, <2>5, <2>6
<1> QED
  BY <1>0, InductiveInvariant, PTL DEF Spec, OthersFilesAreSafe

-----------------------------------------------------------------------------
(* Nothing stays on display that nobody answers for. *)

LEMMA UnstrandedStep ==
  ASSUME Recoverable, TypeOK, \A j \in Jobs : JobInv(j), [Next]_vars,
         NEW j \in Jobs, Unstranded(j)
  PROVE  Unstranded(j)'
<1>0. JobInv(j)
  OBVIOUS
<1> USE <1>0, NamesAssumption, DistinctNamesAssumption
    DEF Recoverable, CleanUp, TypeOK, envVars, inputVars, keptVars, writeVars, Kinds, Steps,
        PreviewSteps, BeforeWorkspace, WriterSteps, Terminal, JobInv, TargetOfStep,
        VisibleSince, OwnsWhatItUndoes, OutputVisible, AuditVisible, Dest, Unstranded
<1>1. ASSUME NEW i \in Jobs, PreviewVerify(i) PROVE Unstranded(j)'
  BY <1>1 DEF PreviewVerify, EachBinding
<1>2. ASSUME NEW i \in Jobs, PreviewLoad(i) PROVE Unstranded(j)'
  BY <1>2 DEF PreviewLoad, EachBinding
<1>3. ASSUME NEW i \in Jobs, PreviewRecheck(i) PROVE Unstranded(j)'
  BY <1>3 DEF PreviewRecheck, EachBinding
<1>4. ASSUME NEW i \in Jobs, PreviewFails(i) PROVE Unstranded(j)'
  BY <1>4 DEF PreviewFails, BreakLoop, Goto
<1>5. ASSUME NEW i \in Jobs, Approve(i) PROVE Unstranded(j)'
  BY <1>5 DEF Approve, Goto
<1>6. ASSUME NEW i \in Jobs, Begin(i) PROVE Unstranded(j)'
  BY <1>6 DEF Begin, Goto
<1>7. ASSUME NEW i \in Jobs, VerifySource(i) PROVE Unstranded(j)'
  BY <1>7 DEF VerifySource, EachBinding
<1>8. ASSUME NEW i \in Jobs, BackupSource(i) PROVE Unstranded(j)'
  BY <1>8 DEF BackupSource, EachBinding
<1>9. ASSUME NEW i \in Jobs, ResolveOutput(i) PROVE Unstranded(j)'
  BY <1>9 DEF ResolveOutput, Goto
<1>10. ASSUME NEW i \in Jobs, ResolveAudit(i) PROVE Unstranded(j)'
  BY <1>10 DEF ResolveAudit, Goto
<1>11. ASSUME NEW i \in Jobs, EnterWorkspace(i) PROVE Unstranded(j)'
  BY <1>11 DEF EnterWorkspace, Goto
<1>12. ASSUME NEW i \in Jobs, CopySource(i) PROVE Unstranded(j)'
  BY <1>12 DEF CopySource, EachBinding
<1>13. ASSUME NEW i \in Jobs, SourceCheckFails(i) PROVE Unstranded(j)'
  BY <1>13 DEF SourceCheckFails, BreakLoop, Goto, Raised
<1>14. ASSUME NEW i \in Jobs, RunPlan(i) PROVE Unstranded(j)'
  BY <1>14 DEF RunPlan, Goto
<1>15. ASSUME NEW i \in Jobs, StepRaises(i) PROVE Unstranded(j)'
  BY <1>15 DEF StepRaises, Goto, Raised
<1>16. ASSUME NEW i \in Jobs, StageFile(i) PROVE Unstranded(j)'
  BY <1>16 DEF StageFile, Goto, WriteRaised
<1>17. ASSUME NEW i \in Jobs, StageFails(i) PROVE Unstranded(j)'
  BY <1>17 DEF StageFails, Goto
<1>18. ASSUME NEW i \in Jobs, CheckStage(i) PROVE Unstranded(j)'
  BY <1>18 DEF CheckStage, Goto
<1>19. ASSUME NEW i \in Jobs, StageRefused(i) PROVE Unstranded(j)'
  BY <1>19 DEF StageRefused, Goto
<1>20. ASSUME NEW i \in Jobs, PrecommitVerify(i) PROVE Unstranded(j)'
  BY <1>20 DEF PrecommitVerify, EachBinding
<1>21. ASSUME NEW i \in Jobs, PrecommitFails(i) PROVE Unstranded(j)'
  BY <1>21 DEF PrecommitFails, BreakLoop, Goto
<1>22. ASSUME NEW i \in Jobs, RenameStage(i) PROVE Unstranded(j)'
  BY <1>22 DEF RenameStage, Goto, Written
<1>23. ASSUME NEW i \in Jobs, LinkStage(i) PROVE Unstranded(j)'
  BY <1>23 DEF LinkStage, Goto
<1>24. ASSUME NEW i \in Jobs, UnlinkStage(i) PROVE Unstranded(j)'
  BY <1>24 DEF UnlinkStage, Goto, Written
<1>25. ASSUME NEW i \in Jobs, UnlinkFails(i) PROVE Unstranded(j)'
  BY <1>25 DEF UnlinkFails, Goto
<1>26. ASSUME NEW i \in Jobs, UndoLink(i) PROVE Unstranded(j)'
  BY <1>26 DEF UndoLink, Goto
<1>27. ASSUME NEW i \in Jobs, UndoFails(i) PROVE Unstranded(j)'
  BY <1>27 DEF UndoFails, Goto
<1>28. ASSUME NEW i \in Jobs, PublishCollides(i) PROVE Unstranded(j)'
  BY <1>28 DEF PublishCollides, Goto
<1>29. ASSUME NEW i \in Jobs, Quarantine(i) PROVE Unstranded(j)'
  BY <1>29 DEF Quarantine, Goto, WriteRaised
<1>30. ASSUME NEW i \in Jobs, QuarantineFails(i) PROVE Unstranded(j)'
  BY <1>30 DEF QuarantineFails, Goto, WriteRaised
<1>31. ASSUME NEW i \in Jobs, LeaveWorkspace(i) PROVE Unstranded(j)'
  BY <1>31 DEF LeaveWorkspace, Goto
<1>32. ASSUME NEW i \in Jobs, Unwind(i) PROVE Unstranded(j)'
  BY <1>32 DEF Unwind, Goto
<1>33. ASSUME NEW i \in Jobs, CleanupFails(i) PROVE Unstranded(j)'
  BY <1>33 DEF CleanupFails, Goto
<1>34. ASSUME NEW i \in Jobs, WithdrawOutput(i) PROVE Unstranded(j)'
  BY <1>34 DEF WithdrawOutput, Goto
<1>35. ASSUME NEW i \in Jobs, WithdrawFails(i) PROVE Unstranded(j)'
  BY <1>35 DEF WithdrawFails, Goto
<1>36. ASSUME NEW i \in Jobs, Crash(i) PROVE Unstranded(j)'
  BY <1>36 DEF Crash
<1>37. ASSUME NEW s \in Sources, NEW c \in Contents, EditSource(s, c) PROVE Unstranded(j)'
  BY <1>37 DEF EditSource
<1>38. ASSUME NEW p \in Paths, OthersCreate(p) PROVE Unstranded(j)'
  BY <1>38 DEF OthersCreate
<1>39. CASE UNCHANGED vars
  BY <1>39 DEF vars
<1>40. ASSUME NEW i \in Jobs, WriterRefuses(i) PROVE Unstranded(j)'
  BY <1>40 DEF WriterRefuses, Goto
<1>41. ASSUME NEW i \in Jobs, StageInvalid(i) PROVE Unstranded(j)'
  BY <1>41 DEF StageInvalid, Goto
<1> QED
  BY <1>1, <1>2, <1>3, <1>4, <1>5, <1>6, <1>7, <1>8, <1>9, <1>10, <1>11,
     <1>12, <1>13, <1>14, <1>15, <1>16, <1>17, <1>18, <1>19, <1>20, <1>21,
     <1>22, <1>23, <1>24, <1>25, <1>26, <1>27, <1>28, <1>29, <1>30, <1>31,
     <1>32, <1>33, <1>34, <1>35, <1>36, <1>37, <1>38, <1>39, <1>40, <1>41
  DEF Next, Preview, Execute, Write, Environment

LEMMA FaultsAreFixed == ASSUME [Next]_vars PROVE faults' = faults
<1>1. ASSUME NEW j \in Jobs, Preview(j) PROVE faults' = faults
  BY <1>1 DEF Preview, envVars, PreviewVerify, PreviewLoad, PreviewRecheck, PreviewFails, Approve
<1>2. ASSUME NEW j \in Jobs, Write(j) PROVE faults' = faults
  BY <1>2 DEF Write, envVars, StageFile, WriterRefuses, StageFails, CheckStage, StageInvalid,
      StageRefused, PrecommitVerify, PrecommitFails, RenameStage, LinkStage, UnlinkStage, UnlinkFails, UndoLink, UndoFails,
      PublishCollides, Quarantine, QuarantineFails
<1>3. ASSUME NEW j \in Jobs, Execute(j) PROVE faults' = faults
  BY <1>2, <1>3 DEF Execute, envVars, Begin, VerifySource, BackupSource, ResolveOutput,
      ResolveAudit, EnterWorkspace, CopySource, SourceCheckFails, RunPlan, StepRaises,
      LeaveWorkspace, Unwind, CleanupFails, WithdrawOutput, WithdrawFails
<1>4. ASSUME NEW j \in Jobs, Crash(j) PROVE faults' = faults
  BY <1>4 DEF Crash, envVars
<1>5. ASSUME Environment PROVE faults' = faults
  BY <1>5 DEF Environment, EditSource, OthersCreate, envVars
<1> QED
  BY <1>1, <1>3, <1>4, <1>5 DEF Next, vars

LEMMA NothingIsStranded ==
  Spec => [](Inductive /\ (Recoverable => \A j \in Jobs : Unstranded(j)))
<1>1. Init => \A j \in Jobs : Unstranded(j)
  BY NamesAssumption DEF Init, Unstranded, OutputVisible, AuditVisible
<1>2. Inductive /\ (Recoverable => \A j \in Jobs : Unstranded(j)) /\ [Next]_vars
        => (Recoverable => \A j \in Jobs : Unstranded(j))'
  <2> SUFFICES ASSUME Inductive, Recoverable => \A j \in Jobs : Unstranded(j), [Next]_vars,
                      Recoverable'
               PROVE  \A j \in Jobs : Unstranded(j)'
    OBVIOUS
  <2>1. Recoverable
    BY FaultsAreFixed DEF Recoverable
  <2> QED
    BY <2>1, UnstrandedStep DEF Inductive
<1> QED
  BY <1>1, <1>2, InductiveInvariant, PTL DEF Spec

\* As long as no clean-up operation fails, a job reported as failed shows neither
\* an output nor an audit report, whichever step failed.
THEOREM FailuresShowNothing == Spec => []RecoverableFailuresShowNothing
<1>1. Inductive /\ (Recoverable => \A j \in Jobs : Unstranded(j))
        => RecoverableFailuresShowNothing
  BY DEF Unstranded, RecoverableFailuresShowNothing, FailedJobsShowNothing, Recoverable, CleanUp
<1> QED
  BY <1>1, NothingIsStranded, PTL
-----------------------------------------------------------------------------
(* The transaction implements the contract. *)

\* What a step shows of one job: its outcome and its two files.
SameOutcome(j) == OutcomeOf(j)' = OutcomeOf(j)
SameOutput(j) == OutputVisible(j)' = OutputVisible(j)
SameAudit(j) == AuditVisible(j)' = AuditVisible(j)
Unmoved(j) == SameOutcome(j) /\ SameOutput(j) /\ SameAudit(j)

\* The moves the contract allows an open job.
Move(j) ==
  /\ OutcomeOf(j) = "open"
  /\ \/ SameOutcome(j) /\ SameAudit(j) /\ ~AuditVisible(j) /\ OutputVisible(j)' = ~OutputVisible(j)
     \/ SameOutcome(j) /\ SameOutput(j) /\ OutputVisible(j) /\ AuditVisible(j)' = ~AuditVisible(j)
     \/ /\ OutcomeOf(j)' = "completed"
        /\ OutputVisible(j) /\ OutputVisible(j)' /\ AuditVisible(j)'
     \/ /\ OutcomeOf(j)' = "failed"
        /\ ~AuditVisible(j) /\ ~AuditVisible(j)' /\ ~OutputVisible(j)'
     \/ OutcomeOf(j)' = "lost" /\ SameOutput(j) /\ SameAudit(j)

LEMMA DeliveredSets ==
  ASSUME NEW j \in Jobs
  PROVE  /\ OutputVisible(j) /\ AuditVisible(j) => DeliveredOf(j) = {"output", "audit"}
         /\ OutputVisible(j) /\ ~AuditVisible(j) => DeliveredOf(j) = {"output"}
         /\ ~OutputVisible(j) /\ AuditVisible(j) => DeliveredOf(j) = {"audit"}
         /\ ~OutputVisible(j) /\ ~AuditVisible(j) => DeliveredOf(j) = {}
  BY DEF DeliveredOf

LEMMA DeliveredSetsNext ==
  ASSUME NEW j \in Jobs
  PROVE  /\ OutputVisible(j)' /\ AuditVisible(j)' => DeliveredOf(j)' = {"output", "audit"}
         /\ OutputVisible(j)' /\ ~AuditVisible(j)' => DeliveredOf(j)' = {"output"}
         /\ ~OutputVisible(j)' /\ AuditVisible(j)' => DeliveredOf(j)' = {"audit"}
         /\ ~OutputVisible(j)' /\ ~AuditVisible(j)' => DeliveredOf(j)' = {}
  BY DEF DeliveredOf

LEMMA MoveIsContractStep ==
  ASSUME NEW i \in Jobs, Move(i), \A j \in Jobs \ {i} : Unmoved(j)
  PROVE  Contract!Next
<1> DEFINE out == [j \in Jobs |-> OutcomeOf(j)]
           del == [j \in Jobs |-> DeliveredOf(j)]
<1>1. \A j \in Jobs \ {i} : OutcomeOf(j)' = OutcomeOf(j) /\ DeliveredOf(j)' = DeliveredOf(j)
  BY DeliveredSets, DeliveredSetsNext
  DEF Unmoved, SameOutcome, SameOutput, SameAudit, OutputVisible, AuditVisible
<1>2. out' = [out EXCEPT ![i] = OutcomeOf(i)']
  BY <1>1
<1>3. del' = [del EXCEPT ![i] = DeliveredOf(i)']
  BY <1>1
<1>4. out[i] = "open" /\ del[i] = DeliveredOf(i)
  BY DEF Move
<1>5. CASE SameOutcome(i) /\ SameAudit(i) /\ ~AuditVisible(i) /\ OutputVisible(i)' = ~OutputVisible(i)
  <2>1. CASE OutputVisible(i)
    <3>1. out' = out /\ del' = [del EXCEPT ![i] = {}] /\ del[i] = {"output"}
      BY <1>2, <1>3, <1>4, <1>5, <2>1, DeliveredSets, DeliveredSetsNext
      DEF SameOutcome, SameOutput, SameAudit, OutputVisible, AuditVisible
    <3>2. Contract!Withdraw(i, "output")
      BY <1>4, <3>1 DEF Contract!Withdraw, Contract!Deliverables
    <3> QED
      BY <3>2 DEF Contract!Next, Contract!Deliverables
  <2>2. CASE ~OutputVisible(i)
    <3>1. out' = out /\ del' = [del EXCEPT ![i] = {"output"}] /\ del[i] = {}
      BY <1>2, <1>3, <1>4, <1>5, <2>2, DeliveredSets, DeliveredSetsNext
      DEF SameOutcome, SameOutput, SameAudit, OutputVisible, AuditVisible
    <3>2. Contract!Deliver(i, "output")
      BY <1>4, <3>1 DEF Contract!Deliver, Contract!Deliverables
    <3> QED
      BY <3>2 DEF Contract!Next, Contract!Deliverables
  <2> QED
    BY <1>5, <2>1, <2>2
<1>6. CASE SameOutcome(i) /\ SameOutput(i) /\ OutputVisible(i) /\ AuditVisible(i)' = ~AuditVisible(i)
  <2>1. CASE AuditVisible(i)
    <3>1. out' = out /\ del' = [del EXCEPT ![i] = {"output"}] /\ del[i] = {"output", "audit"}
      BY <1>2, <1>3, <1>4, <1>6, <2>1, DeliveredSets, DeliveredSetsNext
      DEF SameOutcome, SameOutput, SameAudit, OutputVisible, AuditVisible
    <3>2. Contract!Withdraw(i, "audit")
      BY <1>4, <3>1 DEF Contract!Withdraw, Contract!Deliverables
    <3> QED
      BY <3>2 DEF Contract!Next, Contract!Deliverables
  <2>2. CASE ~AuditVisible(i)
    <3>1. out' = out /\ del' = [del EXCEPT ![i] = {"output", "audit"}] /\ del[i] = {"output"}
      BY <1>2, <1>3, <1>4, <1>6, <2>2, DeliveredSets, DeliveredSetsNext
      DEF SameOutcome, SameOutput, SameAudit, OutputVisible, AuditVisible
    <3>2. Contract!Deliver(i, "audit")
      BY <1>4, <3>1 DEF Contract!Deliver, Contract!Deliverables
    <3> QED
      BY <3>2 DEF Contract!Next, Contract!Deliverables
  <2> QED
    BY <1>6, <2>1, <2>2
<1>7. CASE /\ OutcomeOf(i)' = "completed"
           /\ OutputVisible(i) /\ OutputVisible(i)' /\ AuditVisible(i)'
  <2>1. CASE AuditVisible(i)
    <3>0. DeliveredOf(i) = {"output", "audit"} /\ DeliveredOf(i)' = {"output", "audit"}
      BY <1>7, <2>1, DeliveredSets, DeliveredSetsNext DEF OutputVisible, AuditVisible
    <3>1. out' = [out EXCEPT ![i] = "completed"] /\ del' = del /\ del[i] = {"output", "audit"}
      BY <1>2, <1>3, <1>4, <1>7, <3>0
    <3>2. Contract!Complete(i)
      BY <1>4, <3>1 DEF Contract!Complete, Contract!Deliverables
    <3> QED
      BY <3>2 DEF Contract!Next, Contract!Deliverables
  <2>2. CASE ~AuditVisible(i)
    <3>1. out' = [out EXCEPT ![i] = "completed"] /\ del' = [del EXCEPT ![i] = {"output", "audit"}] /\ del[i] = {"output"}
      BY <1>2, <1>3, <1>4, <1>7, <2>2, DeliveredSets, DeliveredSetsNext
      DEF SameOutcome, SameOutput, SameAudit, OutputVisible, AuditVisible
    <3>2. Contract!DeliverAndComplete(i)
      BY <1>4, <3>1 DEF Contract!DeliverAndComplete, Contract!Deliverables
    <3> QED
      BY <3>2 DEF Contract!Next, Contract!Deliverables
  <2> QED
    BY <1>7, <2>1, <2>2
<1>8. CASE /\ OutcomeOf(i)' = "failed"
           /\ ~AuditVisible(i) /\ ~AuditVisible(i)' /\ ~OutputVisible(i)'
  <2>1. CASE OutputVisible(i)
    <3>1. out' = [out EXCEPT ![i] = "failed"] /\ del' = [del EXCEPT ![i] = {}] /\ del[i] = {"output"}
      BY <1>2, <1>3, <1>4, <1>8, <2>1, DeliveredSets, DeliveredSetsNext
      DEF SameOutcome, SameOutput, SameAudit, OutputVisible, AuditVisible
    <3>2. Contract!WithdrawAndFail(i)
      BY <1>4, <3>1 DEF Contract!WithdrawAndFail, Contract!Deliverables
    <3> QED
      BY <3>2 DEF Contract!Next, Contract!Deliverables
  <2>2. CASE ~OutputVisible(i)
    <3>0. DeliveredOf(i) = {} /\ DeliveredOf(i)' = {}
      BY <1>8, <2>2, DeliveredSets, DeliveredSetsNext DEF OutputVisible, AuditVisible
    <3>1. out' = [out EXCEPT ![i] = "failed"] /\ del' = del /\ del[i] = {}
      BY <1>2, <1>3, <1>4, <1>8, <3>0
    <3>2. Contract!Fail(i)
      BY <1>4, <3>1 DEF Contract!Fail, Contract!Deliverables
    <3> QED
      BY <3>2 DEF Contract!Next, Contract!Deliverables
  <2> QED
    BY <1>8, <2>1, <2>2
<1>9. CASE OutcomeOf(i)' = "lost" /\ SameOutput(i) /\ SameAudit(i)
  <2>1. DeliveredOf(i)' = DeliveredOf(i)
    BY <1>9, DeliveredSets, DeliveredSetsNext
    DEF SameOutput, SameAudit, OutputVisible, AuditVisible
  <2>2. out' = [out EXCEPT ![i] = "lost"] /\ del' = del
    BY <1>2, <1>3, <1>9, <2>1
  <2>3. Contract!Lose(i)
    BY <1>4, <2>2 DEF Contract!Lose
  <2> QED
    BY <2>3 DEF Contract!Next
<1> QED
  BY <1>5, <1>6, <1>7, <1>8, <1>9 DEF Move

\* A step of job i shows nothing new of the others.
LEMMA OthersUnmoved ==
  ASSUME TypeOK, \A j \in Jobs : JobInv(j), NEW i \in Jobs,
         Preview(i) \/ Execute(i) \/ Crash(i), NEW j \in Jobs \ {i}
  PROVE  Unmoved(j)
<1>1. pc'[j] = pc[j]
  BY DEF TypeOK, Preview, Execute, Write, Crash, Goto, EachBinding, BreakLoop, PreviewVerify, PreviewLoad,
        PreviewRecheck, PreviewFails, Approve, Begin, VerifySource, BackupSource,
        ResolveOutput, ResolveAudit, EnterWorkspace, CopySource, SourceCheckFails,
        RunPlan, StepRaises, StageFile, WriterRefuses, StageFails, CheckStage, StageInvalid,
      StageRefused,
        PrecommitVerify, PrecommitFails, UnlinkStage, UnlinkFails, UndoFails,
        PublishCollides, Quarantine, QuarantineFails, LeaveWorkspace, Unwind,
        CleanupFails, WithdrawFails, RenameStage, LinkStage, UndoLink, WithdrawOutput
<1>2. \/ UNCHANGED holder
      \/ \E p \in Paths : holder[p] \in {i, Nobody} /\ \E x \in {i, Nobody} : holder' = [holder EXCEPT ![p] = x]
  <2>0. OutputPath[i] \in Paths /\ Dest(i) \in Paths
    BY NamesAssumption DEF Dest
  <2>1. CASE RenameStage(i) \/ LinkStage(i)
    BY <2>0, <2>1 DEF RenameStage, LinkStage
  <2>2. CASE UndoLink(i)
    BY <2>0, <2>2 DEF UndoLink, Goto, JobInv, OwnsWhatItUndoes
  <2>3. CASE WithdrawOutput(i)
    BY <2>0, <2>3 DEF WithdrawOutput, Goto, JobInv, OwnsWhatItUndoes, TargetOfStep, OutputVisible
  <2> QED
    BY <2>1, <2>2, <2>3 DEF Preview, Execute, Write, Crash, PreviewVerify, PreviewLoad,
        PreviewRecheck, PreviewFails, Approve, Begin, VerifySource, BackupSource,
        ResolveOutput, ResolveAudit, EnterWorkspace, CopySource, SourceCheckFails,
        RunPlan, StepRaises, StageFile, WriterRefuses, StageFails, CheckStage, StageInvalid,
      StageRefused,
        PrecommitVerify, PrecommitFails, UnlinkStage, UnlinkFails, UndoFails,
        PublishCollides, Quarantine, QuarantineFails, LeaveWorkspace, Unwind,
        CleanupFails, WithdrawFails
<1>3. OutcomeOf(j)' = OutcomeOf(j)
  BY <1>1 DEF OutcomeOf
<1>4. ASSUME NEW p \in Paths PROVE (holder'[p] = j) = (holder[p] = j)
  BY <1>2, <1>4, NamesAssumption DEF TypeOK
<1> QED
  BY <1>3, <1>4, NamesAssumption
  DEF Unmoved, SameOutcome, SameOutput, SameAudit, OutputVisible, AuditVisible

\* Every step of a job is a move of the contract, or shows nothing.
LEMMA OwnMove ==
  ASSUME Recoverable, TypeOK, NEW i \in Jobs, JobInv(i), Unstranded(i),
         Preview(i) \/ Execute(i) \/ Crash(i)
  PROVE  Move(i) \/ Unmoved(i)
<1> USE NamesAssumption, DistinctNamesAssumption
    DEF Recoverable, CleanUp, TypeOK, Kinds, Steps, PreviewSteps, BeforeWorkspace, WriterSteps,
        Terminal, JobInv, TargetOfStep, VisibleSince, OwnsWhatItUndoes, OutputVisible,
        AuditVisible, Dest, Unstranded, Move, Unmoved, SameOutcome, SameOutput,
        SameAudit, OutcomeOf, envVars, inputVars, keptVars, writeVars
<1>1. CASE PreviewVerify(i)
  BY <1>1 DEF PreviewVerify, EachBinding
<1>2. CASE PreviewLoad(i)
  BY <1>2 DEF PreviewLoad, EachBinding
<1>3. CASE PreviewRecheck(i)
  BY <1>3 DEF PreviewRecheck, EachBinding
<1>4. CASE PreviewFails(i)
  BY <1>4 DEF PreviewFails, BreakLoop, Goto
<1>5. CASE Approve(i)
  BY <1>5 DEF Approve, Goto
<1>6. CASE Begin(i)
  BY <1>6 DEF Begin, Goto
<1>7. CASE VerifySource(i)
  BY <1>7 DEF VerifySource, EachBinding
<1>8. CASE BackupSource(i)
  BY <1>8 DEF BackupSource, EachBinding
<1>9. CASE ResolveOutput(i)
  BY <1>9 DEF ResolveOutput, Goto
<1>10. CASE ResolveAudit(i)
  BY <1>10 DEF ResolveAudit, Goto
<1>11. CASE EnterWorkspace(i)
  BY <1>11 DEF EnterWorkspace, Goto
<1>12. CASE CopySource(i)
  BY <1>12 DEF CopySource, EachBinding
<1>13. CASE SourceCheckFails(i)
  BY <1>13 DEF SourceCheckFails, BreakLoop, Goto, Raised
<1>14. CASE RunPlan(i)
  BY <1>14 DEF RunPlan, Goto
<1>15. CASE StepRaises(i)
  BY <1>15 DEF StepRaises, Goto, Raised
<1>16. CASE StageFile(i)
  BY <1>16 DEF StageFile, Goto, WriteRaised
<1>17. CASE StageFails(i)
  BY <1>17 DEF StageFails, Goto
<1>18. CASE CheckStage(i)
  BY <1>18 DEF CheckStage, Goto
<1>19. CASE StageRefused(i)
  BY <1>19 DEF StageRefused, Goto
<1>20. CASE PrecommitVerify(i)
  BY <1>20 DEF PrecommitVerify, EachBinding
<1>21. CASE PrecommitFails(i)
  BY <1>21 DEF PrecommitFails, BreakLoop, Goto
<1>22. CASE RenameStage(i)
  BY <1>22 DEF RenameStage, Goto, Written
<1>23. CASE LinkStage(i)
  BY <1>23 DEF LinkStage, Goto
<1>24. CASE UnlinkStage(i)
  BY <1>24 DEF UnlinkStage, Goto, Written
<1>25. CASE UnlinkFails(i)
  BY <1>25 DEF UnlinkFails, Goto
<1>26. CASE UndoLink(i)
  BY <1>26 DEF UndoLink, Goto
<1>27. CASE UndoFails(i)
  BY <1>27 DEF UndoFails, Goto
<1>28. CASE PublishCollides(i)
  BY <1>28 DEF PublishCollides, Goto
<1>29. CASE Quarantine(i)
  BY <1>29 DEF Quarantine, Goto, WriteRaised
<1>30. CASE QuarantineFails(i)
  BY <1>30 DEF QuarantineFails, Goto, WriteRaised
<1>31. CASE LeaveWorkspace(i)
  BY <1>31 DEF LeaveWorkspace, Goto
<1>32. CASE Unwind(i)
  BY <1>32 DEF Unwind, Goto
<1>33. CASE CleanupFails(i)
  BY <1>33 DEF CleanupFails, Goto
<1>34. CASE WithdrawOutput(i)
  BY <1>34 DEF WithdrawOutput, Goto
<1>35. CASE WithdrawFails(i)
  BY <1>35 DEF WithdrawFails, Goto
<1>36. CASE Crash(i)
  BY <1>36 DEF Crash
<1>40. CASE WriterRefuses(i)
  BY <1>40 DEF WriterRefuses, Goto
<1>41. CASE StageInvalid(i)
  BY <1>41 DEF StageInvalid, Goto
<1> QED
  BY <1>1, <1>2, <1>3, <1>4, <1>5, <1>6, <1>7, <1>8, <1>9, <1>10, <1>11,
     <1>12, <1>13, <1>14, <1>15, <1>16, <1>17, <1>18, <1>19, <1>20, <1>21,
     <1>22, <1>23, <1>24, <1>25, <1>26, <1>27, <1>28, <1>29, <1>30, <1>31,
     <1>32, <1>33, <1>34, <1>35, <1>36, <1>40, <1>41
  DEF Preview, Execute, Write

LEMMA ContractStep ==
  ASSUME Recoverable, Inductive, \A j \in Jobs : Unstranded(j), [Next]_vars
  PROVE  [Contract!Next]_(Contract!contractVars)
<1>1. ASSUME \A j \in Jobs : Unmoved(j) PROVE UNCHANGED Contract!contractVars
  <2>1. \A j \in Jobs : OutcomeOf(j)' = OutcomeOf(j) /\ DeliveredOf(j)' = DeliveredOf(j)
    BY <1>1, DeliveredSets, DeliveredSetsNext
    DEF Unmoved, SameOutcome, SameOutput, SameAudit, OutputVisible, AuditVisible
  <2> QED
    BY <2>1 DEF Contract!contractVars
<1>2. ASSUME NEW i \in Jobs, Preview(i) \/ Execute(i) \/ Crash(i)
      PROVE  [Contract!Next]_(Contract!contractVars)
  <2>1. \A j \in Jobs \ {i} : Unmoved(j)
    BY <1>2, OthersUnmoved DEF Inductive
  <2>2. Move(i) \/ Unmoved(i)
    BY <1>2, OwnMove DEF Inductive
  <2> QED
    BY <1>1, <2>1, <2>2, MoveIsContractStep
<1>3. ASSUME NEW s \in Sources, NEW c \in Contents, EditSource(s, c)
      PROVE  \A j \in Jobs : Unmoved(j)
  BY <1>3 DEF EditSource, Unmoved, SameOutcome, SameOutput, SameAudit, OutcomeOf,
              OutputVisible, AuditVisible
<1>4. ASSUME NEW p \in Paths, OthersCreate(p) PROVE \A j \in Jobs : Unmoved(j)
  BY <1>4, NamesAssumption
  DEF Inductive, TypeOK, OthersCreate, Unmoved, SameOutcome, SameOutput, SameAudit,
      OutcomeOf, OutputVisible, AuditVisible
<1>5. CASE UNCHANGED vars
  <2>1. \A j \in Jobs : Unmoved(j)
    BY <1>5 DEF vars, Unmoved, SameOutcome, SameOutput, SameAudit, OutcomeOf,
                OutputVisible, AuditVisible
  <2> QED
    BY <1>1, <2>1
<1> QED
  BY <1>1, <1>2, <1>3, <1>4, <1>5 DEF Next, Environment

LEMMA ContractInit == Init => Contract!Init
<1> SUFFICES ASSUME Init PROVE Contract!Init
  OBVIOUS
<1>1. \A j \in Jobs : OutcomeOf(j) = "open"
  BY DEF Init, OutcomeOf
<1>2. \A j \in Jobs : ~OutputVisible(j) /\ ~AuditVisible(j)
  BY NamesAssumption DEF Init, OutputVisible, AuditVisible
<1>3. \A j \in Jobs : DeliveredOf(j) = {}
  BY <1>2, DeliveredSets
<1> QED
  BY <1>1, <1>3 DEF Contract!Init

\* When no clean-up operation fails, the transaction implements the contract: it
\* reports completion only with the output and its audit report on display, and
\* failure only with neither, whatever else fails and whatever others do.
THEOREM JobKeepsItsContract ==
  ASSUME AlwaysRecoverable
  PROVE  Spec => ImplementsContract
<1>1. Inductive /\ (Recoverable => \A j \in Jobs : Unstranded(j)) /\ [Next]_vars
        => [Contract!Next]_(Contract!contractVars)
  <2>1. Inductive => Recoverable
    BY DEF Inductive, TypeOK, Recoverable, AlwaysRecoverable
  <2> QED
    BY <2>1, ContractStep
<1> QED
  BY <1>1, ContractInit, NothingIsStranded, PTL DEF Spec, ImplementsContract, Contract!Spec
=============================================================================
