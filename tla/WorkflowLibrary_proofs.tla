------------------------ MODULE WorkflowLibrary_proofs ------------------------
(***************************************************************************)
(* Whatever an earlier release left behind and wherever an upgrade was     *)
(* interrupted, the running program has an upgraded store; the library     *)
(* page offers what exists; and a job record names a stored workflow.      *)
(*                                                                         *)
(* A record is written long after its workflow was chosen.  What keeps it  *)
(* sound is that no way leads from the library, where workflows are        *)
(* deleted, back to a plan: Chosen is about the intake, plan and results   *)
(* pages only, and every step onto one of them establishes it anew.        *)
(***************************************************************************)
EXTENDS WorkflowLibrary, TLAPS

UiFields == {"page", "pending", "pendingSaved", "values", "active", "activeSaved", "job", "work",
             "edited", "busy", "done"}
StoreFields == {"version", "columns", "stored", "consented"}

\* What EXCEPT needs to know of records whose other fields may be anything.
Shape ==
  /\ DOMAIN ui = UiFields
  /\ DOMAIN disk = StoreFields /\ DOMAIN work = StoreFields
  /\ DOMAIN jobs = Jobs
  /\ \A j \in Jobs : DOMAIN jobs[j] = {"status", "link"}

\* A version is recorded after what it stands for, and only an open transaction
\* separates what is seen from what is durable.
VersionHolds(db) ==
  /\ db.version \in 0 .. CurrentVersion
  /\ db.version >= 2 => db.columns = Columns
  /\ db.version = CurrentVersion => db.consented = {}

Upgrade ==
  /\ VersionHolds(disk) /\ VersionHolds(work)
  /\ ~open => work = disk
  /\ work.stored = disk.stored
  /\ phase = "running" => ~open /\ disk.version = CurrentVersion

\* The templates that the pages can still lead to.
Chosen ==
  /\ ui.page \in {"plan", "results"} => ui.pending = None
  /\ ui.page = "intake" /\ ui.pending # None /\ ui.pendingSaved => ui.pending \in disk.stored
  /\ ui.page \in {"plan", "results"} /\ ui.activeSaved => ui.active \in disk.stored
  /\ ui.page = "library" => listed \subseteq disk.stored
  /\ phase # "running" => ui = FreshUi

StoreInv == Shape /\ Upgrade
IInv == StoreInv /\ Chosen /\ LinksResolve

\* The initial database is as an earlier release left it.
LEMMA InitStore == Init => IInv
<1> SUFFICES ASSUME Init PROVE IInv
  OBVIOUS
<1>1. PICK old \in Legacy :
        /\ disk = [version |-> old.version, columns |-> old.columns,
                   stored |-> DOMAIN old.works, consented |-> old.consented]
        /\ work = disk
  BY DEF Init
<1>2. Shape
  BY <1>1 DEF Init, Shape, FreshUi, UiFields, StoreFields
<1>3. Upgrade
  BY <1>1, LegacyAssumption DEF Init, Upgrade, VersionHolds, CurrentVersion, Columns
<1>4. Chosen
  BY DEF Init, Chosen, FreshUi, None
<1>5. LinksResolve
  BY DEF Init, LinksResolve, None
<1> QED
  BY <1>2, <1>3, <1>4, <1>5 DEF IInv, StoreInv

\* Starting and dying: nothing is stored or deleted.
LEMMA StartKeeps ==
  ASSUME IInv, Launch \/ Migrate \/ Started \/ Crash
  PROVE  IInv'
<1> USE DEF IInv, StoreInv
<1>1. CASE Launch
  BY <1>1 DEF Launch, Shape, Upgrade, VersionHolds, Chosen, LinksResolve, store
<1>2. CASE Migrate
  <2>1. disk'.stored = disk.stored /\ work'.stored = work.stored /\ Shape' /\ Upgrade'
    <3>1. CASE CreateTables
      BY <1>2, <3>1 DEF Migrate, CreateTables, Record, Shape, StoreFields, Upgrade, VersionHolds,
                        CurrentVersion
    <3>2. CASE \E c \in Columns : AddColumn(c)
      BY <1>2, <3>2 DEF Migrate, AddColumn, Define, Shape, StoreFields, Upgrade, VersionHolds,
                        CurrentVersion
    <3>3. CASE FinishColumns
      BY <1>2, <3>3 DEF Migrate, FinishColumns, Record, Shape, StoreFields, Upgrade, VersionHolds,
                        CurrentVersion
    <3>4. CASE ResetPrivacy
      BY <1>2, <3>4 DEF Migrate, ResetPrivacy, Record, Shape, StoreFields, Upgrade, VersionHolds,
                        CurrentVersion
    <3> QED
      BY <1>2, <3>1, <3>2, <3>3, <3>4 DEF Migrate
  <2> QED
    BY <1>2, <2>1 DEF Migrate, Chosen, LinksResolve
<1>3. CASE Started
  <2>1. PICK expired \in SUBSET Jobs : jobs' = Pruned(jobs, expired)
    BY <1>3 DEF Started, Prune
  <2>2. Shape'
    BY <1>3, <2>1 DEF Started, Shape, Pruned
  <2>3. LinksResolve'
    BY <1>3, <2>1 DEF Started, Upgrade, LinksResolve, Pruned, None
  <2>4. Upgrade' /\ disk'.stored = disk.stored
    BY <1>3 DEF Started, Upgrade, VersionHolds, CurrentVersion
  <2> QED
    BY <1>3, <2>2, <2>3, <2>4 DEF Started, Chosen
<1>4. CASE Crash
  BY <1>4 DEF Crash, Shape, Upgrade, VersionHolds, Chosen, LinksResolve, FreshUi, UiFields, None
<1> QED
  BY <1>1, <1>2, <1>3, <1>4

\* The database does not change on the way from a page to another.
LEMMA PagesKeepStore ==
  ASSUME IInv, UNCHANGED <<phase, disk, work, open, jobs>>, DOMAIN ui' = UiFields, Chosen'
  PROVE  IInv'
  BY DEF IInv, StoreInv, Shape, Upgrade, VersionHolds, LinksResolve

\* A template is chosen where it is known to exist.
LEMMA BeginKeepsChosen ==
  ASSUME IInv, Idle, NEW id, NEW saved, NEW values, Begin(id, saved, values),
         saved => id \in disk.stored, UNCHANGED <<phase, disk>>
  PROVE  Chosen' /\ DOMAIN ui' = UiFields
  BY DEF IInv, StoreInv, Idle, Begin, Chosen, Shape, UiFields

\* Leaving a page, choosing a workflow.
LEMMA ChoosingKeeps ==
  ASSUME IInv, NEW page, NEW id, NEW j,
         NewJob \/ (page \in {"library", "history", "settings"} /\ Show(page)) \/ Use(id)
           \/ RepeatFromHistory(j) \/ RepeatActive \/ GoBack \/ ContinueToPlan \/ EditPlan
  PROVE  IInv'
<1> USE DEF Idle
<1>1. CASE NewJob
  BY <1>1, PagesKeepStore DEF NewJob, store, Chosen, FreshUi, UiFields, None
<1>2. CASE page \in {"library", "history", "settings"} /\ Show(page)
  BY <1>2, PagesKeepStore DEF IInv, StoreInv, Show, Reread, store, Shape, UiFields, Chosen
<1>3. CASE Use(id)
  <2>1. id \in disk.stored
    BY <1>3 DEF Use, IInv, Chosen
  <2> QED
    BY <1>3, <2>1, BeginKeepsChosen, PagesKeepStore DEF Use, store
<1>4. CASE RepeatFromHistory(j)
  BY <1>4, BeginKeepsChosen, PagesKeepStore DEF RepeatFromHistory, store
<1>5. CASE RepeatActive
  <2>1. ui.activeSaved => ui.active \in disk.stored
    BY <1>5 DEF RepeatActive, IInv, Chosen
  <2> QED
    BY <1>5, <2>1, BeginKeepsChosen, PagesKeepStore DEF RepeatActive, store
<1>6. CASE GoBack
  BY <1>6, PagesKeepStore DEF IInv, StoreInv, GoBack, store, Shape, UiFields, Chosen
<1>7. CASE ContinueToPlan
  <2>1. PICK n : PlanFromScratch(n) \/ RebindTemplate(n)
    BY <1>7 DEF ContinueToPlan
  <2>2. Chosen' /\ DOMAIN ui' = UiFields
    BY <1>7, <2>1 DEF ContinueToPlan, PlanFromScratch, RebindTemplate, store, IInv, StoreInv, Shape,
                      UiFields, Chosen, None
  <2> QED
    BY <1>7, <2>2, PagesKeepStore DEF ContinueToPlan, store
<1>8. CASE EditPlan
  BY <1>8, PagesKeepStore DEF IInv, StoreInv, EditPlan, store, Shape, UiFields, Chosen
<1> QED
  BY <1>1, <1>2, <1>3, <1>4, <1>5, <1>6, <1>7, <1>8

\* What writes job records or templates.
LEMMA WritingKeeps ==
  ASSUME IInv, NEW id, NEW name,
         Delete(id) \/ SaveSettings \/ Execute \/ ExecutionEnds \/ SaveWorkflow(name)
           \/ RepeatUnsaved(name)
  PROVE  IInv'
<1> USE DEF IInv, StoreInv
<1>1. CASE Delete(id)
  <2>1. Shape' /\ Upgrade' /\ disk'.stored = disk.stored \ {id}
    BY <1>1 DEF Delete, Idle, Write, Shape, StoreFields, Upgrade, VersionHolds, CurrentVersion
  <2>2. LinksResolve'
    BY <1>1, <2>1 DEF Delete, LinksResolve, Linked
  <2>3. Chosen'
    BY <1>1, <2>1 DEF Delete, Idle, Reread, Chosen
  <2> QED
    BY <2>1, <2>2, <2>3
<1>2. CASE SaveSettings
  <2>1. PICK expired \in SUBSET Jobs : jobs' = Pruned(jobs, expired)
    BY <1>2 DEF SaveSettings, Prune
  <2>2. Shape' /\ LinksResolve'
    BY <1>2, <2>1 DEF SaveSettings, store, Shape, Pruned, LinksResolve, None
  <2> QED
    BY <1>2, <2>2 DEF SaveSettings, store, Upgrade, VersionHolds, Chosen
<1>3. CASE Execute
  <2>1. WorkflowId # None => WorkflowId \in disk.stored
    BY <1>3 DEF Execute, WorkflowId, Chosen
  <2>2. Shape' /\ LinksResolve'
    BY <1>3, <2>1 DEF Execute, Idle, store, Shape, UiFields, LinksResolve
  <2>3. Chosen'
    BY <1>3 DEF Execute, Idle, store, Shape, UiFields, Chosen
  <2> QED
    BY <1>3, <2>2, <2>3 DEF Execute, store, Upgrade, VersionHolds
<1>4. CASE ExecutionEnds
  <2>1. Shape' /\ \A j \in Jobs : jobs'[j].link = jobs[j].link
    <3>1. PICK status, booked :
            /\ jobs' = [jobs EXCEPT ![ui.job].status = IF booked THEN status ELSE @]
            /\ ui' = [ui EXCEPT !.busy = FALSE, !.done = (status = "succeeded")]
      BY <1>4 DEF ExecutionEnds
    <3>2. DOMAIN jobs' = Jobs /\ \A j \in Jobs : DOMAIN jobs'[j] = {"status", "link"}
                                            /\ jobs'[j].link = jobs[j].link
      BY <3>1 DEF Shape
    <3>3. DOMAIN ui' = UiFields
      BY <3>1 DEF Shape
    <3> QED
      BY <1>4, <3>2, <3>3 DEF ExecutionEnds, store, Shape
  <2>2. Chosen'
    BY <1>4 DEF ExecutionEnds, store, Shape, UiFields, Chosen
  <2> QED
    BY <1>4, <2>1, <2>2 DEF ExecutionEnds, store, Upgrade, VersionHolds, LinksResolve
<1>5. CASE SaveWorkflow(name)
  <2>1. Upgrade' /\ disk'.stored = disk.stored \union {Fresh}
    BY <1>5 DEF SaveWorkflow, Idle, Write, Shape, StoreFields, Upgrade, VersionHolds, CurrentVersion
  <2>2. Shape'
    BY <1>5 DEF SaveWorkflow, Idle, Write, Shape, StoreFields, UiFields
  <2>3. LinksResolve'
    BY <1>5, <2>1 DEF SaveWorkflow, Shape, LinksResolve
  <2>4. Chosen'
    BY <1>5, <2>1 DEF SaveWorkflow, Idle, Shape, UiFields, Chosen
  <2> QED
    BY <2>1, <2>2, <2>3, <2>4
<1>6. CASE RepeatUnsaved(name)
  <2>1. Chosen' /\ DOMAIN ui' = UiFields
    BY <1>6 DEF RepeatUnsaved, Idle, store, Shape, UiFields, Chosen
  <2> QED
    BY <1>6, <2>1, PagesKeepStore DEF RepeatUnsaved, store
<1> QED
  BY <1>1, <1>2, <1>3, <1>4, <1>5, <1>6

\* The invariant behind all of it.
LEMMA StepKeeps == IInv /\ [Next]_vars => IInv'
<1> SUFFICES ASSUME IInv, [Next]_vars PROVE IInv'
  OBVIOUS
<1>1. CASE Launch \/ Migrate \/ Started \/ Crash
  BY <1>1, StartKeeps
<1>2. CASE User
  <2>1. CASE NewJob \/ RepeatActive \/ GoBack \/ ContinueToPlan \/ EditPlan
    BY <2>1, ChoosingKeeps
  <2>2. ASSUME NEW page \in {"library", "history", "settings"}, Show(page) PROVE IInv'
    BY <2>2, ChoosingKeeps
  <2>3. ASSUME NEW id \in DOMAIN made, Use(id) PROVE IInv'
    BY <2>3, ChoosingKeeps
  <2>4. ASSUME NEW id \in DOMAIN made, Delete(id) PROVE IInv'
    BY <2>4, WritingKeeps
  <2>5. ASSUME NEW j \in Jobs, RepeatFromHistory(j) PROVE IInv'
    BY <2>5, ChoosingKeeps
  <2>6. CASE SaveSettings \/ Execute
    BY <2>6, WritingKeeps
  <2>7. ASSUME NEW name \in Names, SaveWorkflow(name) \/ RepeatUnsaved(name) PROVE IInv'
    BY <2>7, WritingKeeps
  <2> QED
    BY <1>2, <2>1, <2>2, <2>3, <2>4, <2>5, <2>6, <2>7 DEF User
<1>3. CASE ExecutionEnds
  BY <1>3, WritingKeeps
<1>4. CASE UNCHANGED vars
  BY <1>4, PagesKeepStore DEF vars, store, IInv, StoreInv, Shape, Chosen
<1> QED
  BY <1>1, <1>2, <1>3, <1>4 DEF Next

LEMMA InvHolds == Spec => []IInv
  BY InitStore, StepKeeps, PTL DEF Spec

\* Wherever an upgrade was interrupted, the running program has an upgraded store
\* without consents (database.py, _migration_2 and _migration_3).
THEOREM UpgradesAreCompleted == Spec => []StoreIsUpgraded
<1>1. IInv => StoreIsUpgraded
  BY DEF IInv, StoreInv, Upgrade, VersionHolds, StoreIsUpgraded, CurrentVersion
<1> QED
  BY <1>1, InvHolds, PTL

\* A job record never names a workflow that was deleted.
THEOREM LinksAlwaysResolve == Spec => []LinksResolve
<1>1. IInv => LinksResolve
  BY DEF IInv
<1> QED
  BY <1>1, InvHolds, PTL

\* The library page on screen offers only workflows that exist.
THEOREM LibraryOffersWhatExists == Spec => []OffersExist
<1>1. IInv => OffersExist
  BY DEF IInv, Chosen, OffersExist
<1> QED
  BY <1>1, InvHolds, PTL
=============================================================================
