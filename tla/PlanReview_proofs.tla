-------------------------- MODULE PlanReview_proofs --------------------------
(***************************************************************************)
(* Approvals and proposals of PlanReview are sound for every set of jobs,  *)
(* instructions, edits and provider answers.                               *)
(***************************************************************************)
EXTENDS PlanReview, FiniteSetTheorems, TLAPS

-----------------------------------------------------------------------------
(* The inductive invariant, part by part. *)

\* Who is at work, and on which job.
ClientsInv ==
  /\ client \in {"page", "library"}
  /\ job \in PreparedJobs \union {Nothing}
  /\ client = "library" => job # Nothing /\ handed = Nothing
  /\ job # Nothing => instruction \in Seq(Clauses)

\* The page has no provider.
PageInv ==
  client = "page" =>
    /\ prepared = Nothing
    /\ decision = Nothing
    /\ sent = Nothing
    /\ proposal = digest

\* What was proposed passed the planner's checks for this job.
ProposalInv == digest # Nothing => job # Nothing /\ Proposable(job, digest)

\* What the page proposes is what the local rules read in the instruction.
DraftInv == client = "page" /\ digest # Nothing => Follows(digest, generatedFrom)
HandedInv == handed # Nothing /\ digest # Nothing => handed = approved

\* What was prepared had consent, what was agreed to was shown, and so what was sent.
ConsentHolds(request, remote) ==
  /\ Consented(job.privacy, remote, request.level)
  /\ request.level = "metadata" => request.samples = "none"
PreparedInv == prepared # Nothing => ConsentHolds(prepared.request, prepared.remote)
DecisionInv == decision # Nothing /\ decision.approved => decision.request \in shown
SentInv ==
  sent # Nothing =>
    /\ ConsentHolds(sent.request, sent.to.remote)
    /\ sent.request \in shown
    /\ sent.request.provider = sent.to.id

IInv ==
  /\ ClientsInv
  /\ PageInv
  /\ ProposalInv
  /\ DraftInv
  /\ HandedInv
  /\ ApprovalIsCurrent
  /\ PreparedInv
  /\ DecisionInv
  /\ SentInv

-----------------------------------------------------------------------------
(* The local rules. *)

\* A set of which the cardinality is one has one element.
LEMMA OneElement ==
  ASSUME NEW S, IsFiniteSet(S), Cardinality(S) = 1
  PROVE  \E x : S = {x}
BY FS_Singleton

\* There are at most five candidates.
LEMMA FewCandidates ==
  ASSUME NEW j, NEW s, NEW clause
  PROVE  IsFiniteSet(Candidates(j, s, clause))
<1> DEFINE c == Mentioned(j, s, clause)
<1> HIDE DEF c
<1>1. \A x : IsFiniteSet({x})
  BY FS_Singleton
<1>2. IsFiniteSet({})
  BY FS_EmptySet
<1>3. IsFiniteSet(DuplicateStep(c))
  BY <1>1, <1>2 DEF DuplicateStep
<1>4. IsFiniteSet(FilterStep(c))
  BY <1>1, <1>2 DEF FilterStep
<1>5. IsFiniteSet(SortStep(c))
  BY <1>1, <1>2 DEF SortStep
<1>6. IsFiniteSet(StandardizeStep(c))
  BY <1>1, <1>2 DEF StandardizeStep
<1>7. IsFiniteSet(TextStep(j, s, c))
  BY <1>1, <1>2 DEF TextStep
<1>8. Candidates(j, s, clause) = DuplicateStep(c) \union FilterStep(c) \union SortStep(c)
                                  \union StandardizeStep(c) \union TextStep(j, s, c)
  BY DEF Candidates, c
<1> QED
  BY <1>3, <1>4, <1>5, <1>6, <1>7, <1>8, FS_Union

\* What each rule makes of a clause that has its trigger words, when it does not refuse.
LEMMA DuplicateRule ==
  ASSUME NEW c, NEW x, DuplicateStep(c) \subseteq {x}, x # Refused, "duplicates" \in c.words
  PROVE  /\ x.operation \in {"duplicates.remove", "duplicates.mark"}
         /\ x.operation = "duplicates.remove" => "remove" \in c.words
         /\ x.columns = c.named
<1> DEFINE mode == IF "remove" \in c.words THEN "duplicates.remove" ELSE "duplicates.mark"
<1>1. Refused \notin DuplicateStep(c)
  OBVIOUS
<1>2. DuplicateStep(c) = {Draft(mode, c.named)}
  BY <1>1, Zenon DEF DuplicateStep
<1>3. x = Draft(mode, c.named)
  BY <1>2
<1> QED
  BY <1>3 DEF Draft

LEMMA FilterRule ==
  ASSUME NEW c, NEW x, FilterStep(c) \subseteq {x}, x # Refused, "rows where" \in c.words
  PROVE  x.operation = "rows.filter" /\ x.columns \subseteq c.named
<1>1. Refused \notin FilterStep(c)
  OBVIOUS
<1>2. /\ c.named # {}
      /\ FilterStep(c) = {Draft("rows.filter", {CHOOSE column \in c.named : TRUE})}
  BY <1>1, Zenon DEF FilterStep
<1>3. x = Draft("rows.filter", {CHOOSE column \in c.named : TRUE})
  BY <1>2
<1>4. (CHOOSE column \in c.named : TRUE) \in c.named
  BY <1>2
<1> QED
  BY <1>3, <1>4 DEF Draft

LEMMA SortRule ==
  ASSUME NEW c, NEW x, SortStep(c) \subseteq {x}, x # Refused, "sort" \in c.words
  PROVE  x.operation = "rows.sort" /\ x.columns = c.named
<1>1. Refused \notin SortStep(c)
  OBVIOUS
<1>2. SortStep(c) = {Draft("rows.sort", c.named)}
  BY <1>1, Zenon DEF SortStep
<1> QED
  BY <1>2 DEF Draft

LEMMA StandardizeRule ==
  ASSUME NEW c, NEW x, StandardizeStep(c) \subseteq {x}, x # Refused,
         {"standardize", "type"} \subseteq c.words
  PROVE  x.operation = "values.standardize" /\ x.columns = c.named
<1>1. Refused \notin StandardizeStep(c)
  OBVIOUS
<1>2. StandardizeStep(c) = {Draft("values.standardize", c.named)}
  BY <1>1, Zenon DEF StandardizeStep
<1> QED
  BY <1>2 DEF Draft

LEMMA TextRule ==
  ASSUME NEW j, NEW s, NEW c, NEW x, TextStep(j, s, c) \subseteq {x}, x # Refused,
         "clean" \in c.words
  PROVE  /\ x.operation = "text.clean"
         /\ x.columns = c.named \/ "all columns" \in c.words
<1> DEFINE columns == IF "all columns" \in c.words THEN j.text[s] ELSE c.named
<1>1. Refused \notin TextStep(j, s, c)
  OBVIOUS
<1>2. TextStep(j, s, c) = {Draft("text.clean", columns)}
  BY <1>1, Zenon DEF TextStep
<1>3. x = Draft("text.clean", columns)
  <2> HIDE DEF columns
  <2> QED
    BY <1>2
<1> QED
  BY <1>3 DEF Draft

\* Without any trigger word no rule makes a step.
LEMMA SilentRules ==
  ASSUME NEW j, NEW s, NEW c
  PROVE  /\ "duplicates" \notin c.words => DuplicateStep(c) = {}
         /\ "rows where" \notin c.words => FilterStep(c) = {}
         /\ "sort" \notin c.words => SortStep(c) = {}
         /\ ~({"standardize", "type"} \subseteq c.words) => StandardizeStep(c) = {}
         /\ "clean" \notin c.words => TextStep(j, s, c) = {}
BY Zenon DEF DuplicateStep, FilterStep, SortStep, StandardizeStep, TextStep

\* An understood clause names exactly one kind of step, and the step made of it is of
\* that kind and for columns of the clause.
LEMMA UnderstoodClause ==
  ASSUME NEW j, NEW s, NEW clause \in Clauses, Understood(j, s, clause)
  PROVE  LET draft == CHOOSE d \in Candidates(j, s, clause) : TRUE IN
         /\ Families(clause) = {FamilyOf(draft.operation)}
         /\ draft.columns \subseteq clause.named \/ "all columns" \in clause.words
         /\ draft.operation = "duplicates.remove" => "remove" \in clause.words
<1>1. PICK x : Candidates(j, s, clause) = {x} /\ x # Refused
  BY FewCandidates, OneElement DEF Understood
<1>2. PICK c : c = Mentioned(j, s, clause)
  OBVIOUS
<1>3. c.words = clause.words /\ c.named \subseteq clause.named
  BY <1>2 DEF Mentioned, Clauses
<1>4. (CHOOSE d \in Candidates(j, s, clause) : TRUE) = x
  BY <1>1
<1>5. Candidates(j, s, clause) = DuplicateStep(c) \union FilterStep(c) \union SortStep(c)
                                  \union StandardizeStep(c) \union TextStep(j, s, c)
  BY <1>2 DEF Candidates
<1>6. /\ DuplicateStep(c) \subseteq {x}
      /\ FilterStep(c) \subseteq {x}
      /\ SortStep(c) \subseteq {x}
      /\ StandardizeStep(c) \subseteq {x}
      /\ TextStep(j, s, c) \subseteq {x}
  BY <1>1, <1>5
<1>7. \/ "duplicates" \in c.words
      \/ "rows where" \in c.words
      \/ "sort" \in c.words
      \/ {"standardize", "type"} \subseteq c.words
      \/ "clean" \in c.words
  BY <1>1, <1>5, SilentRules
<1>8. "duplicates" \in c.words =>
        /\ x.operation \in {"duplicates.remove", "duplicates.mark"}
        /\ x.operation = "duplicates.remove" => "remove" \in c.words
        /\ x.columns = c.named
  BY <1>1, <1>6, DuplicateRule
<1>9. "rows where" \in c.words => x.operation = "rows.filter" /\ x.columns \subseteq c.named
  BY <1>1, <1>6, FilterRule
<1>10. "sort" \in c.words => x.operation = "rows.sort" /\ x.columns = c.named
  BY <1>1, <1>6, SortRule
<1>11. {"standardize", "type"} \subseteq c.words =>
         x.operation = "values.standardize" /\ x.columns = c.named
  BY <1>1, <1>6, StandardizeRule
<1>12. "clean" \in c.words =>
         /\ x.operation = "text.clean"
         /\ x.columns = c.named \/ "all columns" \in c.words
  BY <1>1, <1>6, TextRule
<1>13. Families(clause) = {FamilyOf(x.operation)}
  BY <1>3, <1>7, <1>8, <1>9, <1>10, <1>11, <1>12 DEF Families, FamilyOf
<1>14. x.columns \subseteq clause.named \/ "all columns" \in clause.words
  BY <1>3, <1>7, <1>8, <1>9, <1>10, <1>11, <1>12
<1>15. x.operation = "duplicates.remove" => "remove" \in clause.words
  BY <1>3, <1>7, <1>8, <1>9, <1>10, <1>11, <1>12
<1> QED
  BY <1>4, <1>13, <1>14, <1>15

\* The plan the local rules draft is what the instruction asks for.
LEMMA RulesFollowTheInstruction ==
  ASSUME NEW j, NEW s, NEW text \in Seq(Clauses), Readable(j, s, text)
  PROVE  Follows(RulePlan(j, s, text), text)
<1> DEFINE plan == RulePlan(j, s, text)
<1>1. plan.steps = [k \in DOMAIN text |-> RuleStep(j, s, text, k)]
  BY DEF RulePlan
<1>2. DOMAIN text = 1 .. Len(text) /\ Len(text) \in Nat
  OBVIOUS
<1>3. Len(plan.steps) = Len(text)
  BY <1>1, <1>2
<1> HIDE DEF plan
<1>4. ASSUME NEW k \in DOMAIN text
      PROVE  StepFollows(plan, k, text[k])
  <2> DEFINE draft == CHOOSE d \in Candidates(j, s, text[k]) : TRUE
  <2>0. plan.steps[k] = RuleStep(j, s, text, k)
    BY <1>1
  <2>1. /\ plan.steps[k].operation = draft.operation
        /\ plan.steps[k].columns = draft.columns
        /\ plan.steps[k].needs = IF k = 1 THEN {} ELSE {RuleId(k - 1)}
    BY <2>0 DEF RuleStep
  <2>2. k # 1 => k - 1 \in DOMAIN text
    BY <1>2
  <2>3. k # 1 => plan.steps[k - 1].id = RuleId(k - 1)
    BY <1>1, <2>2 DEF RuleStep
  <2>4. text[k] \in Clauses /\ Understood(j, s, text[k])
    BY <1>2 DEF Readable
  <2>5. /\ Families(text[k]) = {FamilyOf(draft.operation)}
        /\ draft.columns \subseteq text[k].named \/ "all columns" \in text[k].words
        /\ draft.operation = "duplicates.remove" => "remove" \in text[k].words
    BY <2>4, UnderstoodClause
  <2> HIDE DEF plan, draft
  <2> QED
    BY <2>1, <2>3, <2>5 DEF StepFollows
<1> QED
  BY <1>3, <1>4 DEF Follows, plan

-----------------------------------------------------------------------------
(* The invariant. *)

LEMMA InitIsSound == Init => IInv
<1> SUFFICES ASSUME Init
             PROVE  IInv
  OBVIOUS
<1>1. CASE PageInit
  BY <1>1 DEF Init, PageInit, NoCall, IInv, ClientsInv, PageInv, ProposalInv, DraftInv,
         HandedInv, ApprovalIsCurrent, PreparedInv, DecisionInv, SentInv
<1>2. CASE \E j \in PreparedJobs, id \in ProviderIds, remote \in BOOLEAN :
             LibraryInit(j, id, remote)
  BY <1>2, JobsAssumption DEF Init, LibraryInit, NoCall, IInv, ClientsInv, PageInv,
         ProposalInv, DraftInv, HandedInv, ApprovalIsCurrent, PreparedInv, DecisionInv, SentInv
<1> QED
  BY <1>1, <1>2 DEF Init

\* What the page does leaves the invariant alone but for one thing: it never calls.
LEMMA PageSteps == IInv /\ PageAction => IInv'
<1> SUFFICES ASSUME IInv, PageAction
             PROVE  IInv'
  OBVIOUS
<1> USE DEF IInv, ClientsInv, PageInv, ProposalInv, DraftInv, HandedInv, ApprovalIsCurrent,
            PreparedInv, DecisionInv, SentInv, ConsentHolds, callVars, planVars
<1>1. ASSUME NEW j \in PreparedJobs, LoadJob(j)
      PROVE  IInv'
  BY <1>1, JobsAssumption DEF LoadJob
<1>2. ASSUME NEW s, SelectSheet(s)
      PROVE  IInv'
  BY <1>2 DEF SelectSheet, OnPage
<1>3. ASSUME NEW text \in Instructions, EditInstruction(text)
      PROVE  IInv'
  BY <1>3, JobsAssumption DEF EditInstruction, OnPage
<1>4. ASSUME NEW text, EditPlan(text)
      PROVE  IInv'
  BY <1>4 DEF EditPlan, Typed, OnPage
<1>5. ASSUME NEW manual, AddStep(manual)
      PROVE  IInv'
  BY <1>5 DEF AddStep, Typed, OnPage
<1>6. CASE Generate
  <2> DEFINE plan == RulePlan(job, sheet, instruction)
  <2>1. Follows(plan, instruction)
    BY <1>6, RulesFollowTheInstruction DEF Generate, OnPage
  <2>2. Proposable(job, plan)
    BY <1>6 DEF Generate
  <2>3. /\ digest' = plan /\ proposal' = plan /\ generatedFrom' = instruction
        /\ approved' = Nothing /\ handed' = Nothing /\ job # Nothing /\ client = "page"
        /\ UNCHANGED <<client, job, instruction, provider, prepared, decision, shown, sent>>
    BY <1>6 DEF Generate, Propose, OnPage
  <2> HIDE DEF plan
  <2> QED
    BY <2>1, <2>2, <2>3
<1>7. CASE ApproveGenerated
  BY <1>7 DEF ApproveGenerated, Confirmed, Approvable, OnPage
<1>8. CASE RequestPreview
  BY <1>8 DEF RequestPreview, PreviewUnapproved, PreviewGenerated, OnPage
<1>9. CASE BackToPlan
  BY <1>9 DEF BackToPlan
<1> QED
  BY <1>1, <1>2, <1>3, <1>4, <1>5, <1>6, <1>7, <1>8, <1>9 DEF PageAction

LEMMA CallSteps == IInv /\ CallAction => IInv'
<1> SUFFICES ASSUME IInv, CallAction
             PROVE  IInv'
  OBVIOUS
<1> USE DEF IInv, ClientsInv, PageInv, ProposalInv, DraftInv, HandedInv, ApprovalIsCurrent,
            PreparedInv, DecisionInv, SentInv, ConsentHolds, pageVars, callVars, planVars
<1>1. CASE ProviderChanges
  BY <1>1 DEF ProviderChanges
<1>2. ASSUME NEW level, NEW samples, PrepareCall(level, samples)
      PROVE  IInv'
  BY <1>2 DEF PrepareCall, ProviderRequest
<1>3. ASSUME NEW yes \in BOOLEAN, DecideCall(yes)
      PROVE  IInv'
  BY <1>3 DEF DecideCall
<1>4. ASSUME NEW response, Dispatch(response)
      PROVE  IInv'
  <2>1. ConsentHolds(prepared.request, prepared.remote)
    BY <1>4 DEF Dispatch
  <2>2. /\ sent' = [request |-> prepared.request, to |-> provider]
        /\ prepared.remote = provider.remote
        /\ prepared.request.provider = provider.id
        /\ prepared.request \in shown
    BY <1>4 DEF Dispatch, Dispatchable
  <2>3. SentInv'
    BY <1>4, <2>1, <2>2 DEF Dispatch
  <2>4. approved' = approved /\ (digest' = digest \/ Proposable(job, digest'))
    BY <1>4 DEF Dispatch, Propose
  <2>5. /\ client = "library" /\ job # Nothing /\ handed = Nothing
        /\ UNCHANGED <<client, job, pageVars, provider, prepared, decision, shown>>
    BY <1>4 DEF Dispatch
  <2> HIDE DEF SentInv
  <2> QED
    BY <2>3, <2>4, <2>5
<1>5. ASSUME NEW plan, MutateProposal(plan)
      PROVE  IInv'
  BY <1>5 DEF MutateProposal
<1>6. ASSUME NEW seen, ApproveProposal(seen)
      PROVE  IInv'
  BY <1>6 DEF ApproveProposal, Approvable
<1> QED
  BY <1>1, <1>2, <1>3, <1>4, <1>5, <1>6 DEF CallAction

LEMMA StepsAreSound == IInv /\ [Next]_vars => IInv'
<1>1. IInv /\ UNCHANGED vars => IInv'
  BY DEF IInv, ClientsInv, PageInv, ProposalInv, DraftInv, HandedInv, ApprovalIsCurrent,
         PreparedInv, DecisionInv, SentInv, ConsentHolds, vars, pageVars, callVars, planVars
<1> QED
  BY <1>1, PageSteps, CallSteps DEF Next

LEMMA InvariantHolds == Spec => []IInv
BY InitIsSound, StepsAreSound, PTL DEF Spec

-----------------------------------------------------------------------------
(* The theorems. *)

\* However the user edits and the caller meddles, an approval is of a plan that passed
\* the planner's checks, and on the page of the plan and the instruction there now
\* (plan_page.py:293, planner.py:166 approve_plan).
THEOREM ApprovalsStayCurrent == Spec => []ApprovalIsCurrent
BY InvariantHolds, PTL DEF IInv

\* Nothing is sent to a provider but what a human said yes to, for that provider.
THEOREM SendingNeedsReview == Spec => []NothingIsSentUnreviewed
<1>1. IInv => NothingIsSentUnreviewed
  BY DEF IInv, SentInv, NothingIsSentUnreviewed
<1> QED
  BY <1>1, InvariantHolds, PTL

\* Nothing is sent to a remote provider without consent for what it contains.
THEOREM SendingNeedsConsent == Spec => []NothingLeavesWithoutConsent
<1>1. IInv => NothingLeavesWithoutConsent
  BY DEF IInv, SentInv, ConsentHolds, Consented, NothingLeavesWithoutConsent
<1> QED
  BY <1>1, InvariantHolds, PTL

\* A generated plan reads only analysed columns, sheets and sources.
THEOREM ProposalsStayInside == Spec => []ProposalsStayInsideTheAnalysis
<1>1. IInv => ProposalsStayInsideTheAnalysis
  <2> SUFFICES ASSUME IInv, digest # Nothing
               PROVE  /\ \A step \in Range(digest.steps) :
                           /\ step.source = job.source
                           /\ TargetedSheets(job, step) \subseteq Range(job.sheets)
                      /\ \A s \in Range(job.sheets) :
                           /\ ColumnsOn(job, digest, s) \subseteq job.headers[s]
                           /\ s \in job.duplicated => ColumnsOn(job, digest, s) = {}
                      /\ digest.rules \subseteq UNION {job.headers[s] : s \in Range(job.sheets)}
    BY DEF ProposalsStayInsideTheAnalysis
  <2>1. job \in PreparedJobs /\ TargetsAnalysed(job, digest)
    BY DEF IInv, ClientsInv, ProposalInv, Proposable
  <2>2. \A step \in Range(digest.steps) :
          /\ step.source = job.source
          /\ TargetedSheets(job, step) \subseteq Range(job.sheets)
    BY <2>1 DEF TargetsAnalysed, StepTargetsAnalysed
  <2>3. \A s \in Range(job.sheets) :
          /\ ColumnsOn(job, digest, s) \subseteq job.headers[s]
          /\ s \in job.duplicated => ColumnsOn(job, digest, s) = {}
    BY <2>1 DEF TargetsAnalysed, StepTargetsAnalysed, ColumnsOn
  <2>4. Head(job.sheets) \in Range(job.sheets)
    BY <2>1, JobsAssumption DEF Range
  <2>5. digest.rules \subseteq UNION {job.headers[s] : s \in Range(job.sheets)}
    BY <2>1, <2>4 DEF TargetsAnalysed, RuleTargetsAnalysed
  <2> QED
    BY <2>2, <2>3, <2>5
<1> QED
  BY <1>1, InvariantHolds, PTL

\* For every vocabulary of headers and every instruction, a generated plan reaches the
\* preview only as the step-by-step reading of the instruction still in the field.
THEOREM PreviewsFollowTheInstruction == Spec => []PreviewFollowsTheInstruction
<1>1. IInv => PreviewFollowsTheInstruction
  BY DEF IInv, ClientsInv, DraftInv, HandedInv, ApprovalIsCurrent, PreviewFollowsTheInstruction
<1> QED
  BY <1>1, InvariantHolds, PTL

-----------------------------------------------------------------------------
(* The number of an added step. *)

NatOrder == {pair \in Nat \X Nat : pair[1] < pair[2]}

\* Every set of numbers has a least one.
LEMMA LeastNumber ==
  ASSUME NEW S, S \subseteq Nat, S # {}
  PROVE  \E x \in S : \A y \in S : x <= y
<1>1. IsWellFoundedOn(NatOrder, Nat)
  BY NatLessThanWellFounded DEF OpToRel, NatOrder
<1>2. PICK x \in S : \A y \in S : <<y, x>> \notin NatOrder
  BY <1>1, WFMin
<1>3. ASSUME NEW y \in S
      PROVE  x <= y
  <2>1. <<y, x>> \in Nat \X Nat
    OBVIOUS
  <2>2. <<y, x>> \in NatOrder <=> y < x
    BY <2>1 DEF NatOrder
  <2> QED
    BY <1>2, <2>2
<1> QED
  BY <1>3

\* Among one number more than there are steps, one is free.
LEMMA SomeNumberIsFree ==
  ASSUME NEW plan \in Plans
  PROVE  \E n \in (Len(plan.steps) + 1) .. (2 * Len(plan.steps) + 1) : StepId(n) \notin Ids(plan)
<1> DEFINE L == Len(plan.steps)
           numbers == (L + 1) .. (2 * L + 1)
           at == [n \in numbers |-> CHOOSE k \in 1 .. L : plan.steps[k].id = StepId(n)]
<1>1. L \in Nat /\ DOMAIN plan.steps = 1 .. L
  BY DEF Plans
<1>2. SUFFICES ASSUME \A n \in numbers : StepId(n) \in Ids(plan)
               PROVE  FALSE
  OBVIOUS
<1>3. ASSUME NEW n \in numbers
      PROVE  at[n] \in 1 .. L /\ plan.steps[at[n]].id = StepId(n)
  <2>1. \E k \in 1 .. L : plan.steps[k].id = StepId(n)
    BY <1>1, <1>2 DEF Ids, Range
  <2> QED
    BY <2>1
<1>4. IsFiniteSet(numbers) /\ Cardinality(numbers) = L + 1
  <2>1. L + 1 \in Int /\ 2 * L + 1 \in Int /\ ~(L + 1 > 2 * L + 1)
    BY <1>1
  <2>2. (2 * L + 1) - (L + 1) + 1 = L + 1
    BY <1>1
  <2> HIDE DEF L
  <2> QED
    BY <2>1, <2>2, FS_Interval
<1>5. IsFiniteSet(1 .. L) /\ Cardinality(1 .. L) = L
  BY <1>1, FS_Interval
<1>6. at \in [numbers -> 1 .. L]
  BY <1>3
<1> HIDE DEF at, numbers, L
<1>7. PICK m, n \in numbers : m # n /\ at[m] = at[n]
  BY <1>1, <1>4, <1>5, <1>6, FS_PigeonHole
<1>8. StepId(m) = StepId(n)
  BY <1>3, <1>7
<1> QED
  BY <1>7, <1>8 DEF StepId

\* The search of _add_step ends, at a number that no step of the plan has.
LEMMA FreeNumberIsFree ==
  ASSUME NEW plan \in Plans
  PROVE  FreeNumber(plan) \in Nat /\ StepId(FreeNumber(plan)) \notin Ids(plan)
<1> DEFINE L == Len(plan.steps)
           free == {n \in (L + 1) .. (2 * L + 1) : StepId(n) \notin Ids(plan)}
<1>1. L \in Nat
  BY DEF Plans
<1>2. free # {} /\ free \subseteq Nat
  BY <1>1, SomeNumberIsFree
<1>3. PICK least \in free : \A n \in free : least <= n
  BY <1>2, LeastNumber
<1>4. ASSUME NEW m \in (L + 1) .. (least - 1)
      PROVE  StepId(m) \in Ids(plan)
  <2>1. m \in (L + 1) .. (2 * L + 1) /\ ~(least <= m)
    BY <1>1, <1>3
  <2> QED
    BY <1>3, <2>1
<1>5. \E n \in (L + 1) .. (2 * L + 1) :
        /\ StepId(n) \notin Ids(plan)
        /\ \A m \in (L + 1) .. (n - 1) : StepId(m) \in Ids(plan)
  BY <1>3, <1>4
<1>6. FreeNumber(plan) \in (L + 1) .. (2 * L + 1) /\ StepId(FreeNumber(plan)) \notin Ids(plan)
  BY <1>5 DEF FreeNumber
<1> QED
  BY <1>1, <1>6

\* A step added with the form fits in a plan that parses.
LEMMA AddedStepFits ==
  ASSUME NEW plan \in Plans, NEW manual, Parses(job, plan)
  PROVE  WellFormed(WithStep(plan, manual))
<1> DEFINE L == Len(plan.steps)
           new == WithStep(plan, manual)
           id == StepId(FreeNumber(plan))
<1>1. /\ L \in Nat /\ DOMAIN plan.steps = 1 .. L /\ plan.steps \in Seq(Steps)
      /\ DOMAIN plan = {"source", "steps", "rules"}
  BY DEF Plans
<1>2. WellFormed(plan) /\ plan.source = job.source
  BY DEF Parses, BoundTo
<1>3. id \notin {plan.steps[k].id : k \in 1 .. L}
  <2>1. id \notin Ids(plan)
    BY FreeNumberIsFree
  <2> QED
    BY <1>1, <2>1 DEF Ids, Range
<1> HIDE DEF id
<1>4. PICK step : /\ new.steps = Append(plan.steps, step) /\ new.source = plan.source
                  /\ step.id = id /\ step.source = job.source
                  /\ step.destructive => step.confirmed
                  /\ step.needs = IF L = 0 THEN {} ELSE {plan.steps[L].id}
  <2> DEFINE added == [id |-> id, operation |-> manual.operation,
               columns |-> manual.columns, source |-> job.source, sheet |-> sheet,
               enabled |-> TRUE, destructive |-> manual.operation \in Destructive,
               confirmed |-> manual.operation \in Destructive,
               needs |-> IF plan.steps = <<>> THEN {} ELSE {plan.steps[L].id}]
  <2>1. new = [plan EXCEPT !.steps = Append(@, added)]
    BY DEF WithStep, id
  <2>2. new.steps = Append(plan.steps, added) /\ new.source = plan.source
    BY <1>1, <2>1
  <2>3. (plan.steps = <<>>) <=> (L = 0)
    BY <1>1
  <2>4. added.needs = IF L = 0 THEN {} ELSE {plan.steps[L].id}
    BY <2>3
  <2>5. added.id = id /\ added.source = job.source /\ added.destructive = added.confirmed
    OBVIOUS
  <2> HIDE DEF added, new
  <2> QED
    BY <2>2, <2>4, <2>5
<1> HIDE DEF new
<1>5. /\ DOMAIN new.steps = 1 .. (L + 1) /\ new.steps[L + 1] = step
      /\ \A k \in 1 .. L : new.steps[k] = plan.steps[k]
  BY <1>1, <1>4
<1>6. ASSUME NEW k \in 1 .. (L + 1)
      PROVE  LET s == new.steps[k] IN
             /\ \A i \in 1 .. (L + 1) : new.steps[i].id = s.id => i = k
             /\ s.needs \subseteq {new.steps[i].id : i \in 1 .. (k - 1)}
             /\ s.source = new.source
             /\ s.destructive => s.confirmed
  <2>1. CASE k = L + 1
    <3>1. \A i \in 1 .. (L + 1) : new.steps[i].id = step.id => i = k
      BY <1>1, <1>3, <1>4, <1>5, <2>1
    <3>2. step.needs \subseteq {new.steps[i].id : i \in 1 .. (k - 1)}
      BY <1>1, <1>4, <1>5, <2>1
    <3> QED
      BY <1>2, <1>4, <1>5, <2>1, <3>1, <3>2
  <2>2. CASE k \in 1 .. L
    <3>1. /\ \A i \in 1 .. L : plan.steps[i].id = plan.steps[k].id => i = k
          /\ plan.steps[k].needs \subseteq {plan.steps[i].id : i \in 1 .. (k - 1)}
          /\ plan.steps[k].source = plan.source
          /\ plan.steps[k].destructive => plan.steps[k].confirmed
      BY <1>1, <1>2, <2>2 DEF WellFormed
    <3>2. {new.steps[i].id : i \in 1 .. (k - 1)} = {plan.steps[i].id : i \in 1 .. (k - 1)}
      <4>1. \A i \in 1 .. (k - 1) : new.steps[i] = plan.steps[i]
        BY <1>1, <1>5, <2>2
      <4> QED
        BY <4>1, Zenon
    <3>3. \A i \in 1 .. (L + 1) : new.steps[i].id = plan.steps[k].id => i = k
      BY <1>1, <1>3, <1>4, <1>5, <2>2, <3>1
    <3> QED
      BY <1>4, <1>5, <2>2, <3>1, <3>2, <3>3
  <2> QED
    BY <1>1, <2>1, <2>2
<1> QED
  BY <1>5, <1>6 DEF WellFormed, new

-----------------------------------------------------------------------------
(* Types. *)

\* A job comes with a sheet, an instruction and a plan, and the library has its provider.
JobTyped ==
  /\ client = "library" => job # Nothing /\ provider \in Locations
  /\ job # Nothing => sheet \in STRING /\ editor \in Plans \union {NotAPlan}
TypeInv == IInv /\ TypeOK /\ JobTyped

\* What a planner drafts with steps of the right form names only what is known.
LEMMA DraftTyped ==
  ASSUME NEW j \in PreparedJobs, NEW plan, Proposable(j, plan), plan.source \in STRING,
         NEW k \in DOMAIN plan.steps
  PROVE  /\ plan.steps[k].operation \in STRING
         /\ plan.steps[k].columns \subseteq STRING
         /\ plan.steps[k].source = j.source
<1> DEFINE step == plan.steps[k]
<1>1. step \in Range(plan.steps)
  BY DEF Range
<1> HIDE DEF step
<1>2. step.operation \in STRING
  BY <1>1, PlansAssumption DEF Proposable, Allowed
<1>3. StepTargetsAnalysed(j, step)
  BY <1>1 DEF Proposable, TargetsAnalysed
<1>4. PICK s \in Range(j.sheets) : step.columns \subseteq j.headers[s]
  <2>1. TargetedSheets(j, step) # {}
    <3>1. j.sheets \in Seq(STRING) /\ j.sheets # <<>>
      BY JobsAssumption
    <3>2. j.sheets[1] \in Range(j.sheets)
      BY <3>1 DEF Range
    <3> QED
      BY <3>2 DEF TargetedSheets
  <2> QED
    BY <1>3, <2>1 DEF StepTargetsAnalysed
<1>5. step.columns \subseteq STRING
  BY <1>4, PlansAssumption
<1> QED
  BY <1>2, <1>3, <1>5 DEF step, StepTargetsAnalysed

\* What the local rules draft is a plan.
LEMMA RulePlanTyped ==
  ASSUME NEW j \in PreparedJobs, NEW s \in STRING, NEW text \in Seq(Clauses),
         Proposable(j, RulePlan(j, s, text))
  PROVE  RulePlan(j, s, text) \in Plans
<1> DEFINE plan == RulePlan(j, s, text)
<1>1. /\ plan.source = j.source /\ plan.rules = {} /\ DOMAIN plan = {"source", "steps", "rules"}
      /\ plan.steps = [k \in DOMAIN text |-> RuleStep(j, s, text, k)]
      /\ plan = [source |-> j.source, steps |-> plan.steps, rules |-> {}]
  BY DEF RulePlan
<1>2. j.source \in STRING
  BY PlansAssumption DEF EmptyPlan, Plans
<1>3. ASSUME NEW k \in DOMAIN text
      PROVE  RuleStep(j, s, text, k) \in Steps
  <2> DEFINE step == RuleStep(j, s, text, k)
             draft == CHOOSE d \in Candidates(j, s, text[k]) : TRUE
  <2>1. k \in Nat \ {0}
    OBVIOUS
  <2> HIDE DEF draft
  <2>2. PICK harm \in BOOLEAN : harm = (draft.operation \in Destructive)
    <3>1. (draft.operation \in Destructive) \in BOOLEAN
      OBVIOUS
    <3> QED
      BY <3>1
  <2>3. PICK needs \in SUBSET StepIds : needs = IF k = 1 THEN {} ELSE {RuleId(k - 1)}
    <3>1. RuleId(k - 1) \in StepIds
      BY <2>1 DEF StepIds, RuleId
    <3>2. (IF k = 1 THEN {} ELSE {RuleId(k - 1)}) \in SUBSET StepIds
      BY <3>1
    <3> QED
      BY <3>2
  <2>4. step = [id |-> RuleId(k), operation |-> draft.operation, columns |-> draft.columns,
                source |-> j.source, sheet |-> s, enabled |-> TRUE, destructive |-> harm,
                confirmed |-> harm, needs |-> needs]
    BY <2>2, <2>3, Zenon DEF RuleStep, draft
  <2>5. plan.steps[k] = step
    BY <1>1
  <2>6. plan.source \in STRING /\ k \in DOMAIN plan.steps /\ Proposable(j, plan)
    BY <1>1, <1>2
  <2> HIDE DEF plan, step
  <2>7. draft.operation \in STRING /\ draft.columns \subseteq STRING
    BY <2>4, <2>5, <2>6, DraftTyped
  <2>8. RuleId(k) \in StepIds
    BY <2>1 DEF StepIds, RuleId
  <2> QED
    BY <1>2, <2>4, <2>7, <2>8 DEF Steps, step
<1> HIDE DEF plan
<1>4. plan.steps \in Seq(Steps)
  BY <1>1, <1>3
<1> QED
  BY <1>1, <1>2, <1>4 DEF Plans, plan

\* The form makes a plan of a plan.
LEMMA WithStepTyped ==
  ASSUME NEW plan \in Plans, NEW manual \in ManualSteps, job \in PreparedJobs, sheet \in STRING,
         Allowed(WithStep(plan, manual))
  PROVE  WithStep(plan, manual) \in Plans
<1> DEFINE new == WithStep(plan, manual)
           last == plan.steps[Len(plan.steps)]
<1>1. /\ plan.steps \in Seq(Steps) /\ plan.source \in STRING /\ plan.rules \in SUBSET STRING
      /\ plan = [source |-> plan.source, steps |-> plan.steps, rules |-> plan.rules]
  BY DEF Plans
<1>2. PICK harm \in BOOLEAN : harm = (manual.operation \in Destructive)
  <2>1. (manual.operation \in Destructive) \in BOOLEAN
    OBVIOUS
  <2> QED
    BY <2>1
<1>3. PICK needs \in SUBSET StepIds : needs = IF plan.steps = <<>> THEN {} ELSE {last.id}
  <2>1. ASSUME plan.steps # <<>>
        PROVE  last.id \in StepIds
    <3>1. last \in Steps
      BY <1>1, <2>1
    <3> QED
      BY <3>1 DEF Steps
  <2>2. (IF plan.steps = <<>> THEN {} ELSE {last.id}) \in SUBSET StepIds
    BY <2>1
  <2> QED
    BY <2>2
<1> DEFINE step == [id |-> StepId(FreeNumber(plan)), operation |-> manual.operation,
                    columns |-> manual.columns, source |-> job.source, sheet |-> sheet,
                    enabled |-> TRUE, destructive |-> harm, confirmed |-> harm, needs |-> needs]
<1> HIDE DEF last
<1>4. new = [plan EXCEPT !.steps = Append(@, step)]
  BY <1>2, <1>3, Zenon DEF WithStep, last
<1>5. new = [source |-> plan.source, steps |-> Append(plan.steps, step), rules |-> plan.rules]
  <2> HIDE DEF new, step
  <2> QED
    BY <1>1, <1>4
<1>6. manual.operation \in STRING
  <2>1. step \in Range(new.steps)
    <3> HIDE DEF new, step
    <3>1. /\ Append(plan.steps, step)[Len(plan.steps) + 1] = step
          /\ Len(plan.steps) + 1 \in DOMAIN Append(plan.steps, step)
      BY <1>1
    <3> QED
      BY <1>5, <3>1 DEF Range
  <2>2. step.operation \in Registered
    <3> HIDE DEF step
    <3> QED
      BY <2>1 DEF Allowed
  <2> QED
    BY <2>2, PlansAssumption
<1>7. StepId(FreeNumber(plan)) \in StepIds
  BY FreeNumberIsFree DEF StepId, StepIds
<1>8. manual.columns \subseteq STRING /\ job.source \in STRING
  BY PlansAssumption DEF EmptyPlan, Plans
<1>9. step \in Steps
  BY <1>6, <1>7, <1>8 DEF Steps
<1>10. Append(plan.steps, step) \in Seq(Steps)
  BY <1>1, <1>9
<1> HIDE DEF step, new
<1> QED
  BY <1>1, <1>5, <1>10 DEF Plans, new

\* The invariant holds at first.
LEMMA InitTyped == Init => TypeOK /\ JobTyped
<1> SUFFICES ASSUME Init
             PROVE  TypeOK /\ JobTyped
  OBVIOUS
<1>1. CASE PageInit
  BY <1>1 DEF Init, PageInit, NoCall, TypeOK, JobTyped
<1>2. ASSUME NEW j \in PreparedJobs, NEW id \in ProviderIds, NEW remote \in BOOLEAN,
             LibraryInit(j, id, remote)
      PROVE  TypeOK /\ JobTyped
  <2>1. EmptyPlan(j) \in Plans /\ Head(j.sheets) \in STRING
    BY JobsAssumption, PlansAssumption
  <2>2. provider \in Locations
    BY <1>2 DEF LibraryInit, Locations
  <2>3. JobTyped
    BY <1>2, <2>1, <2>2, JobsAssumption DEF LibraryInit, JobTyped
  <2>4. instruction \in Texts /\ job = j /\ client = "library"
    BY <1>2 DEF LibraryInit, Texts
  <2>5. TypeOK
    BY <2>1, <2>2, <2>3, <2>4 DEF Init, NoCall, TypeOK, JobTyped
  <2> QED
    BY <2>3, <2>5
<1> QED
  BY <1>1, <1>2 DEF Init

\* What the page does.
LEMMA PageTyped == TypeInv /\ PageAction => TypeOK' /\ JobTyped'
<1> SUFFICES ASSUME TypeInv, PageAction
             PROVE  TypeOK' /\ JobTyped'
  OBVIOUS
<1> USE DEF TypeInv, TypeOK, JobTyped
<1>1. ASSUME NEW j \in PreparedJobs, LoadJob(j)
      PROVE  TypeOK' /\ JobTyped'
  <2>1. EmptyPlan(j) \in Plans /\ Head(j.sheets) \in STRING /\ j.instruction \in Texts
    BY JobsAssumption, PlansAssumption DEF Texts
  <2> QED
    BY <1>1, <2>1 DEF LoadJob, callVars
<1>2. ASSUME NEW s, SelectSheet(s)
      PROVE  TypeOK' /\ JobTyped'
  <2>1. s \in STRING
    BY <1>2, JobsAssumption DEF SelectSheet, OnPage, Range
  <2> QED
    BY <1>2, <2>1 DEF SelectSheet, callVars, planVars
<1>3. ASSUME NEW text \in Instructions, EditInstruction(text)
      PROVE  TypeOK' /\ JobTyped'
  <2>1. JobTyped'
    BY <1>3 DEF EditInstruction, callVars
  <2>2. instruction' \in Texts
    BY <1>3 DEF EditInstruction, Texts
  <2>3. /\ approved' = Nothing /\ canApprove' = FALSE
        /\ client' = client /\ job' = job /\ sheet' = sheet /\ editor' = editor
        /\ proposal' = proposal /\ digest' = digest /\ generatedFrom' = generatedFrom
        /\ handed' = handed /\ provider' = provider /\ prepared' = prepared
        /\ decision' = decision /\ shown' = shown /\ sent' = sent
    BY <1>3 DEF EditInstruction, callVars
  <2>4. TypeOK
    OBVIOUS
  <2> HIDE DEF TypeInv, JobTyped
  <2>5. TypeOK'
    <3>1. /\ client' \in {"page", "library"} /\ job' \in PreparedJobs \union {Nothing}
          /\ sheet' \in STRING \union {Nothing} /\ instruction' \in Texts \union {Nothing}
      BY <2>2, <2>3, <2>4
    <3>2. /\ canApprove' \in BOOLEAN /\ approved' \in Plans \union {Nothing}
          /\ {proposal', digest'} \subseteq Plans \union {Nothing}
      BY <2>3, <2>4
    <3> QED
      BY <2>3, <2>4, <3>1, <3>2
  <2> QED
    BY <2>1, <2>5
<1>4. ASSUME NEW text \in EditedPlans \union {NotAPlan, editor}, EditPlan(text)
      PROVE  TypeOK' /\ JobTyped'
  <2>1. text \in Plans \union {NotAPlan}
    BY <1>4, PlansAssumption DEF EditPlan, OnPage
  <2> QED
    BY <1>4, <2>1 DEF EditPlan, Typed, callVars
<1>5. ASSUME NEW manual \in ManualSteps, AddStep(manual)
      PROVE  TypeOK' /\ JobTyped'
  <2>1. WithStep(editor, manual) \in Plans
    BY <1>5, WithStepTyped DEF AddStep, OnPage, Parses
  <2> QED
    BY <1>5, <2>1 DEF AddStep, Typed, callVars
<1>6. CASE Generate
  <2>1. RulePlan(job, sheet, instruction) \in Plans
    BY <1>6, RulePlanTyped DEF Generate, OnPage, IInv, ClientsInv
  <2> QED
    BY <1>6, <2>1 DEF Generate, Propose, callVars
<1>7. CASE ApproveGenerated
  BY <1>7 DEF ApproveGenerated, callVars
<1>8. CASE RequestPreview
  <2>1. editor \in Plans
    BY <1>8 DEF RequestPreview, OnPage, Valid, Parses
  <2> QED
    BY <1>8, <2>1 DEF RequestPreview, PreviewUnapproved, PreviewGenerated, callVars
<1>9. CASE BackToPlan
  BY <1>9 DEF BackToPlan, callVars, planVars
<1> QED
  BY <1>1, <1>2, <1>3, <1>4, <1>5, <1>6, <1>7, <1>8, <1>9 DEF PageAction

\* What a caller of the planner does.
LEMMA CallTyped == TypeInv /\ CallAction => TypeOK' /\ JobTyped'
<1> SUFFICES ASSUME TypeInv, CallAction
             PROVE  TypeOK' /\ JobTyped'
  OBVIOUS
<1> USE DEF TypeInv, TypeOK, JobTyped
<1>1. CASE ProviderChanges
  BY <1>1 DEF ProviderChanges, Locations, pageVars, planVars
<1>2. ASSUME NEW level \in Levels, NEW samples \in Samples, PrepareCall(level, samples)
      PROVE  TypeOK' /\ JobTyped'
  <2>1. ProviderRequest(level, samples) \in Requests /\ provider.remote \in BOOLEAN
    BY <1>2 DEF PrepareCall, SamplesFit, ProviderRequest, Requests, Locations, Levels, Samples
  <2> QED
    BY <1>2, <2>1 DEF PrepareCall, pageVars, planVars
<1>3. ASSUME NEW yes \in BOOLEAN, DecideCall(yes)
      PROVE  TypeOK' /\ JobTyped'
  BY <1>3 DEF DecideCall, pageVars, planVars
<1>4. ASSUME NEW response \in Responses, Dispatch(response)
      PROVE  TypeOK' /\ JobTyped'
  <2>1. CASE response # NotAPlan /\ Proposable(job, Assembled(response))
    <3>1. Assembled(response) \in Plans
      BY <2>1, <1>4, PlansAssumption DEF Dispatch, Assembled, Plans, EmptyPlan
    <3> QED
      BY <1>4, <2>1, <3>1 DEF Dispatch, Propose, pageVars
  <2>2. CASE ~(response # NotAPlan /\ Proposable(job, Assembled(response)))
    BY <1>4, <2>2 DEF Dispatch, pageVars
  <2> QED
    BY <2>1, <2>2
<1>5. ASSUME NEW plan \in EditedPlans, MutateProposal(plan)
      PROVE  TypeOK' /\ JobTyped'
  BY <1>5, PlansAssumption DEF MutateProposal, pageVars, callVars
<1>6. ASSUME NEW seen, ApproveProposal(seen)
      PROVE  TypeOK' /\ JobTyped'
  BY <1>6 DEF ApproveProposal, pageVars, callVars
<1> QED
  BY <1>1, <1>2, <1>3, <1>4, <1>5, <1>6 DEF CallAction

\* The types are an invariant.
LEMMA TypesHold == Spec => []TypeInv
<1>1. Init => TypeInv
  BY InitTyped, InitIsSound DEF TypeInv
<1>2. TypeInv /\ [Next]_vars => TypeInv'
  <2>1. CASE UNCHANGED vars
    BY <2>1, StepsAreSound DEF TypeInv, TypeOK, JobTyped, vars, pageVars, callVars, planVars
  <2> QED
    BY <2>1, StepsAreSound, PageTyped, CallTyped DEF TypeInv, Next
<1> QED
  BY <1>1, <1>2, PTL DEF Spec

\* Every plan on the page, proposed, approved or handed to the preview is a plan, whatever
\* the user types and a provider answers, and only bounded samples are ever prepared for a
\* provider (planner.py, rule_based_parser.py, plan_page.py).
THEOREM TypeCorrect == Spec => []TypeOK
<1>1. TypeInv => TypeOK
  BY DEF TypeInv
<1> QED
  BY <1>1, TypesHold, PTL

\* The form never makes a plan that contradicts itself: the search for a free number ends,
\* at an id no step has, whatever ids the user and the planners used (plan_page.py:412, 436).
THEOREM FormStepsFit == Spec => []AddedStepsFit
<1>1. TypeInv => AddedStepsFit
  <2> SUFFICES ASSUME TypeInv, OnPage, Parses(job, editor), NEW manual \in ManualSteps
               PROVE  WellFormed(WithStep(editor, manual))
    BY DEF AddedStepsFit
  <2>1. editor \in Plans
    BY DEF TypeInv, JobTyped, OnPage, Parses
  <2> QED
    BY <2>1, AddedStepFits
<1> QED
  BY <1>1, TypesHold, PTL
=============================================================================
