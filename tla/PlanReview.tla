----------------------------- MODULE PlanReview -----------------------------
(***************************************************************************)
(* How a plan comes to be trusted (sheetpilot/ai, sheetpilot/ui/pages/     *)
(* plan_page.py).  A plan is drafted by the local rules, by a planning     *)
(* provider or by hand; what a planner drafted is only a proposal until a  *)
(* human approves exactly that plan, and only then may it be previewed.    *)
(* What is sent to a provider needs consent and an approval of its own.    *)
(*                                                                         *)
(* Two clients use these pieces: the plan page, which has no provider, and *)
(* any caller of AIPlanner and approve_plan.  A behaviour is about one of  *)
(* them.  A digest is abstracted to the value it is the digest of, and an  *)
(* operation to its name, the columns it mentions and whether it destroys. *)
(***************************************************************************)
EXTENDS Naturals, Sequences, FiniteSets, Functions

CONSTANTS
  PreparedJobs,  \* analysed jobs: source, sheets, headers, privacy, first plan
  Instructions,  \* what may stand in the instruction field: sequences of clauses
  EditedPlans,   \* what the user may type into the plan editor
  ManualSteps,   \* operation and columns of a step added with the form
  Responses,     \* what a provider may answer: steps and validation columns
  Registered,    \* names of registered operations
  Destructive,   \* those whose parameters make them destructive
  Reserved,      \* column names with the application's own prefix
  ProviderIds,   \* names of providers
  MaxSteps,      \* bound on the steps of a plan built by hand
  MaxReviews,    \* bound on the different requests a human says yes to
  Nothing,       \* None
  NotAPlan,      \* text that is not JSON of an OperationPlan
  Refused        \* a rule that recognises a clause and cannot act on it

\* What the local rules read of a clause: their trigger words and the columns it names.
Words == {"clean", "all columns", "sort", "standardize", "type", "second type",
          "rows where", "condition", "duplicates", "remove", "mark", "other"}
Clauses == [words : SUBSET Words, named : SUBSET STRING]

\* A job has an analysed sheet, and what the user asks for is a sequence of clauses.
ASSUME JobsAssumption ==
  /\ Nothing \notin PreparedJobs
  /\ \A j \in PreparedJobs : j.sheets \in Seq(STRING) /\ j.sheets # <<>>
  /\ \A j \in PreparedJobs : j.instruction \in Seq(Clauses)
  /\ Instructions \subseteq Seq(Clauses)

AnySheet == "default"
Levels == {"metadata", "anonymized_samples", "raw_samples"}
Samples == {"none", "bounded", "strange"}

VARIABLES
  client,         \* "page" or "library"
  job,            \* the prepared job the plan is for
  sheet,          \* the sheet selected as the default target
  instruction,    \* text of the instruction field
  editor,         \* text of the plan editor
  proposal,       \* the plan of the PlanProposal
  digest,         \* the digest taken when it was proposed; Nothing when there is none
  generatedFrom,  \* the instruction it was drafted from
  approved,       \* ApprovedPlan
  canApprove,     \* the approve button is enabled
  handed,         \* the plan handed to the preview page, while that page is shown
  provider,       \* identity and location of the provider, at this moment
  prepared,       \* PreparedProviderCall
  decision,       \* ProviderCallApproval
  shown,          \* history: the manifests a human said yes to
  sent            \* history: what was dispatched last, and to whom

pageVars == <<sheet, instruction, editor, generatedFrom, canApprove, handed>>
callVars == <<provider, prepared, decision, shown, sent>>
planVars == <<proposal, digest, approved>>
vars == <<client, job, planVars, pageVars, callVars>>

-----------------------------------------------------------------------------
(* Validation of plans. *)

Ids(plan) == {step.id : step \in Range(plan.steps)}
EnabledIds(plan) == {step.id : step \in {x \in Range(plan.steps) : x.enabled}}

\* OperationPlan.validate_step_graph and PlanStep's own validator: ids are unique,
\* a step depends on earlier ones, targets the plan's source, and a destructive
\* one asks for confirmation.
WellFormed(plan) ==
  \A k \in DOMAIN plan.steps :
    LET step == plan.steps[k] IN
    /\ \A i \in DOMAIN plan.steps : plan.steps[i].id = step.id => i = k
    /\ step.needs \subseteq {plan.steps[i].id : i \in 1 .. (k - 1)}
    /\ step.source = plan.source
    /\ step.destructive => step.confirmed

\* PlanValidator.validate.
Allowed(plan) ==
  /\ plan.rules \intersect Reserved = {}
  /\ \A step \in Range(plan.steps) :
       /\ step.columns \intersect Reserved = {}
       /\ step.operation \in Registered
       /\ step.destructive = (step.operation \in Destructive)
       /\ step.enabled => step.needs \subseteq EnabledIds(plan)

\* PlanPage._ensure_source_binding.
BoundTo(j, plan) ==
  /\ plan.source = j.source
  /\ \A step \in Range(plan.steps) : step.sheet \in Range(j.sheets) \union {AnySheet}

\* PlanPage._parse_plan without and with its validation.
Parses(j, text) == text # NotAPlan /\ WellFormed(text) /\ BoundTo(j, text)
Valid(j, text) == Parses(j, text) /\ EnabledIds(text) # {} /\ Allowed(text)

TargetedSheets(j, step) ==
  IF step.sheet = AnySheet THEN Range(j.sheets) ELSE {step.sheet}

TargetsUnchecked(j, plan) == plan.source = j.source

\* _validate_targets: a planner may only name what was analysed.
StepTargetsAnalysed(j, step) ==
  /\ step.source = j.source
  /\ step.sheet = AnySheet => Len(j.sheets) = 1
  /\ \A s \in TargetedSheets(j, step) :
       /\ s \in Range(j.sheets)
       /\ s \in j.duplicated => step.columns = {}
       /\ step.columns \subseteq j.headers[s]

\* PlanningRequest.default_target for a validation rule that names columns.
RuleTargetsAnalysed(j, plan) ==
  plan.rules # {} => /\ Len(j.sheets) = 1
                     /\ Head(j.sheets) \notin j.duplicated
                     /\ plan.rules \subseteq j.headers[Head(j.sheets)]

TargetsAnalysed(j, plan) ==
  /\ \A step \in Range(plan.steps) : StepTargetsAnalysed(j, step)
  /\ RuleTargetsAnalysed(j, plan)

\* _proposal.
Proposable(j, plan) == WellFormed(plan) /\ Allowed(plan) /\ TargetsAnalysed(j, plan)

\* approve_plan.
Approvable(seen) == proposal = digest /\ seen = proposal

-----------------------------------------------------------------------------
(* The local rules (rule_based_parser.py). *)

Draft(operation, columns) == [operation |-> operation, columns |-> columns]

TextStep(j, s, c) ==
  LET columns == IF "all columns" \in c.words THEN j.text[s] ELSE c.named IN
  IF "clean" \notin c.words THEN {}
  ELSE IF columns = {} THEN {Refused}
  ELSE {Draft("text.clean", columns)}

SortStep(c) ==
  IF "sort" \notin c.words THEN {}
  ELSE IF c.named = {} THEN {Refused}
  ELSE {Draft("rows.sort", c.named)}

StandardizeStep(c) ==
  IF ~({"standardize", "type"} \subseteq c.words) THEN {}
  ELSE IF "second type" \in c.words \/ Cardinality(c.named) # 1 THEN {Refused}
  ELSE {Draft("values.standardize", c.named)}

\* The condition starts with one column; more names are read as its text.
FilterStep(c) ==
  IF "rows where" \notin c.words THEN {}
  ELSE IF c.named = {} \/ "condition" \notin c.words THEN {Refused}
  ELSE {Draft("rows.filter", {CHOOSE column \in c.named : TRUE})}

DuplicateStep(c) ==
  IF "duplicates" \notin c.words THEN {}
  ELSE IF ("remove" \in c.words) = ("mark" \in c.words) THEN {Refused}
  ELSE {Draft(IF "remove" \in c.words THEN "duplicates.remove" ELSE "duplicates.mark", c.named)}

\* The names in a clause are matched against the headers of the target sheet.
Mentioned(j, s, c) == [c EXCEPT !.named = @ \intersect j.headers[s]]

Candidates(j, s, clause) ==
  LET c == Mentioned(j, s, clause) IN
  DuplicateStep(c) \union FilterStep(c) \union SortStep(c)
    \union StandardizeStep(c) \union TextStep(j, s, c)

UnderstoodFirst(j, s, c) == Refused \notin Candidates(j, s, c) /\ Candidates(j, s, c) # {}

\* A clause is understood when exactly one kind of step can be made of it.
Understood(j, s, c) == Refused \notin Candidates(j, s, c) /\ Cardinality(Candidates(j, s, c)) = 1

RuleId(k) == <<"rule", k>>

RuleStep(j, s, text, k) ==
  LET draft == CHOOSE d \in Candidates(j, s, text[k]) : TRUE IN
  [id |-> RuleId(k), operation |-> draft.operation, columns |-> draft.columns,
   source |-> j.source, sheet |-> s, enabled |-> TRUE,
   destructive |-> draft.operation \in Destructive,
   confirmed |-> draft.operation \in Destructive,
   needs |-> IF k = 1 THEN {} ELSE {RuleId(k - 1)}]

\* parse_local_instruction: every clause must be understood.
Readable(j, s, text) ==
  /\ text # <<>>
  /\ s \notin j.duplicated
  /\ \A k \in DOMAIN text : Understood(j, s, text[k])

RulePlan(j, s, text) ==
  [source |-> j.source, steps |-> [k \in DOMAIN text |-> RuleStep(j, s, text, k)], rules |-> {}]

\* PlanProposal, with the digest of the plan it is made of.
Propose(plan) == proposal' = plan /\ digest' = plan

-----------------------------------------------------------------------------
(* The plan page. *)

EmptyPlan(j) == [source |-> j.source, steps |-> j.steps, rules |-> {}]

NoCall ==
  /\ prepared = Nothing
  /\ decision = Nothing
  /\ shown = {}
  /\ sent = Nothing

PageInit ==
  /\ client = "page"
  /\ job = Nothing
  /\ sheet = Nothing
  /\ instruction = Nothing
  /\ editor = Nothing
  /\ provider = Nothing

LibraryInit(j, id, remote) ==
  /\ client = "library"
  /\ job = j
  /\ sheet = Head(j.sheets)
  /\ instruction = j.instruction
  /\ editor = EmptyPlan(j)
  /\ provider = [id |-> id, remote |-> remote]

Init ==
  /\ PageInit \/ \E j \in PreparedJobs, id \in ProviderIds, remote \in BOOLEAN :
                   LibraryInit(j, id, remote)
  /\ proposal = Nothing
  /\ digest = Nothing
  /\ generatedFrom = Nothing
  /\ approved = Nothing
  /\ canApprove = FALSE
  /\ handed = Nothing
  /\ NoCall

\* The page is on the screen, with a job.
OnPage == client = "page" /\ job # Nothing /\ handed = Nothing

\* load_job: a newly analysed job takes the place of everything on the page.
LoadJob(j) ==
  /\ client = "page"
  /\ job' = j
  /\ sheet' = Head(j.sheets)
  /\ instruction' = j.instruction
  /\ editor' = EmptyPlan(j)
  /\ proposal' = Nothing
  /\ digest' = Nothing
  /\ generatedFrom' = Nothing
  /\ approved' = Nothing
  /\ canApprove' = FALSE
  /\ handed' = Nothing
  /\ UNCHANGED <<client, callVars>>

SelectSheet(s) ==
  /\ OnPage
  /\ s \in Range(job.sheets)
  /\ sheet' = s
  /\ UNCHANGED <<client, job, instruction, editor, planVars, generatedFrom,
                 canApprove, handed, callVars>>

\* _planner_instruction_changed: a proposal belongs to the text it was drafted from.
EditInstruction(text) ==
  /\ OnPage
  /\ instruction' = text
  /\ approved' = Nothing
  /\ canApprove' = FALSE
  /\ UNCHANGED <<client, job, sheet, editor, proposal, digest, generatedFrom, handed, callVars>>

TypedKeepingApproval(text) ==
  /\ editor' = text
  /\ UNCHANGED approved

\* _plan_editor_changed: any edit, even one of the layout only, ends an approval.
Typed(text) ==
  /\ editor' = text
  /\ approved' = Nothing

EditPlan(text) ==
  /\ OnPage
  /\ Typed(text)
  /\ UNCHANGED <<client, job, sheet, instruction, proposal, digest, generatedFrom, canApprove,
                 handed, callVars>>

StepId(n) == <<"step", n>>

NextNumber(plan) == Len(plan.steps) + 1

\* The first free number from the new step's own position on.
FreeNumber(plan) ==
  CHOOSE n \in (Len(plan.steps) + 1) .. (2 * Len(plan.steps) + 1) :
    /\ StepId(n) \notin Ids(plan)
    /\ \A m \in (Len(plan.steps) + 1) .. (n - 1) : StepId(m) \in Ids(plan)

\* _add_step's new step depends on the one before it, enabled or not.
WithStep(plan, manual) ==
  LET last == plan.steps[Len(plan.steps)]
      step == [id |-> StepId(FreeNumber(plan)), operation |-> manual.operation,
               columns |-> manual.columns, source |-> job.source, sheet |-> sheet,
               enabled |-> TRUE, destructive |-> manual.operation \in Destructive,
               confirmed |-> manual.operation \in Destructive,
               needs |-> IF plan.steps = <<>> THEN {} ELSE {last.id}]
  IN [plan EXCEPT !.steps = Append(@, step)]

AddStep(manual) ==
  /\ OnPage
  /\ Parses(job, editor)
  /\ Len(editor.steps) < MaxSteps
  /\ LET updated == WithStep(editor, manual) IN
     /\ WellFormed(updated)
     /\ Allowed(updated)
     /\ Typed(updated)
  /\ UNCHANGED <<client, job, sheet, instruction, proposal, digest, generatedFrom, canApprove,
                 handed, callVars>>

\* _generate_local_plan; when the rules refuse, nothing on the page changes.
Generate ==
  /\ OnPage
  /\ Readable(job, sheet, instruction)
  /\ LET plan == RulePlan(job, sheet, instruction) IN
     /\ Proposable(job, plan)
     /\ Propose(plan)
     /\ editor' = plan
  /\ approved' = Nothing
  /\ generatedFrom' = instruction
  /\ canApprove' = TRUE
  /\ UNCHANGED <<client, job, sheet, instruction, handed, callVars>>

\* _approve_generated_plan.
Confirmed ==
  /\ digest # Nothing
  /\ instruction = generatedFrom
  /\ Valid(job, editor)
  /\ editor = digest
  /\ Approvable(editor)

ApproveGenerated ==
  /\ OnPage
  /\ canApprove
  /\ approved' = IF Confirmed THEN proposal ELSE Nothing
  /\ UNCHANGED <<client, job, sheet, instruction, editor, proposal, digest, generatedFrom,
                 canApprove, handed, callVars>>

\* _request_preview: a manual plan goes to the preview once it is valid, a generated
\* one as it was approved.
PreviewUnapproved ==
  /\ approved' = approved
  /\ handed' = editor
PreviewGenerated ==
  /\ approved # Nothing
  /\ approved' = IF editor = approved THEN approved ELSE Nothing
  /\ handed' = IF editor = approved THEN approved ELSE Nothing

RequestPreview ==
  /\ OnPage
  /\ Valid(job, editor)
  /\ IF digest = Nothing THEN PreviewUnapproved ELSE PreviewGenerated
  /\ UNCHANGED <<client, job, sheet, instruction, editor, proposal, digest, generatedFrom,
                 canApprove, callVars>>

BackToPlan ==
  /\ client = "page"
  /\ handed # Nothing
  /\ handed' = Nothing
  /\ UNCHANGED <<client, job, sheet, instruction, editor, planVars, generatedFrom,
                 canApprove, callVars>>

-----------------------------------------------------------------------------
(* Planning with a provider (AIPlanner). *)

\* build_disclosed_context's consent gates.
Consented(privacy, remote, level) ==
  remote => /\ privacy.mode = "ai_assisted"
            /\ privacy.metadata
            /\ level = "raw_samples" => privacy.raw
\* _sample_payload: only bounded rows of analysed columns, and only above metadata.
SamplesFit(level, samples) == level # "metadata" => samples \notin {"none", "strange"}

RequestWithSamples(level, samples) ==
  [provider |-> provider.id, level |-> level, samples |-> samples]

ProviderRequest(level, samples) ==
  [provider |-> provider.id, level |-> level,
   samples |-> IF level = "metadata" THEN "none" ELSE samples]

\* The adapter object's attributes are its own business.
ProviderChanges ==
  /\ client = "library"
  /\ \E id \in ProviderIds, remote \in BOOLEAN : provider' = [id |-> id, remote |-> remote]
  /\ UNCHANGED <<client, job, planVars, pageVars, prepared, decision, shown, sent>>

\* prepare.
PrepareCall(level, samples) ==
  /\ client = "library"
  /\ Consented(job.privacy, provider.remote, level)
  /\ SamplesFit(level, samples)
  /\ prepared' = [request |-> ProviderRequest(level, samples), remote |-> provider.remote]
  /\ UNCHANGED <<client, job, planVars, pageVars, provider, decision, shown, sent>>

\* approve_provider_disclosure, for the call now on display.
DecideCall(yes) ==
  /\ client = "library"
  /\ prepared # Nothing
  /\ decision' = [request |-> prepared.request, approved |-> yes]
  /\ shown' = IF yes THEN shown \union {prepared.request} ELSE shown
  /\ Cardinality(shown') <= MaxReviews
  /\ UNCHANGED <<client, job, planVars, pageVars, provider, prepared, sent>>

DispatchableUnmatched ==
  /\ prepared.request.provider = provider.id
  /\ prepared.remote = provider.remote
  /\ decision.approved

DispatchableAnywhere ==
  /\ prepared.request.provider = provider.id
  /\ decision.approved
  /\ decision.request = prepared.request

\* generate's checks before anything is sent.
Dispatchable ==
  /\ prepared.request.provider = provider.id
  /\ prepared.remote = provider.remote
  /\ decision.approved
  /\ decision.request = prepared.request

\* _assemble_plan: the answer is a plan for the analysed source, whatever it says.
Assembled(response) == [source |-> job.source, steps |-> response.steps, rules |-> response.rules]

\* generate: the request is sent; an answer that is not a bounded plan is an error.
\* An older ApprovedPlan stays with the caller.
Dispatch(response) ==
  /\ client = "library"
  /\ prepared # Nothing
  /\ decision # Nothing
  /\ Dispatchable
  /\ sent' = [request |-> prepared.request, to |-> provider]
  /\ IF response # NotAPlan /\ Proposable(job, Assembled(response))
     THEN Propose(Assembled(response))
     ELSE UNCHANGED <<proposal, digest>>
  /\ UNCHANGED <<client, job, approved, pageVars, provider, prepared, decision, shown>>

\* A proposal is frozen but the plan inside it is not: its caller may change it.
MutateProposal(plan) ==
  /\ client = "library"
  /\ digest # Nothing
  /\ proposal' = plan
  /\ UNCHANGED <<client, job, digest, approved, pageVars, callVars>>

\* approve_plan, with the digest of the plan the human saw.
ApproveProposal(seen) ==
  /\ client = "library"
  /\ digest # Nothing
  /\ Approvable(seen)
  /\ approved' = proposal
  /\ UNCHANGED <<client, job, proposal, digest, pageVars, callVars>>

-----------------------------------------------------------------------------
PageAction ==
  \/ \E j \in PreparedJobs : LoadJob(j) \/ \E s \in Range(j.sheets) : SelectSheet(s)
  \/ \E text \in Instructions : EditInstruction(text)
  \/ \E text \in EditedPlans \union {NotAPlan, editor} : EditPlan(text)
  \/ \E manual \in ManualSteps : AddStep(manual)
  \/ Generate
  \/ ApproveGenerated
  \/ RequestPreview
  \/ BackToPlan

CallAction ==
  \/ ProviderChanges
  \/ \E level \in Levels, samples \in Samples : PrepareCall(level, samples)
  \/ \E yes \in BOOLEAN : DecideCall(yes)
  \/ \E response \in Responses : Dispatch(response)
  \/ \E plan \in EditedPlans : MutateProposal(plan)
  \/ \E seen \in EditedPlans \union {digest} : ApproveProposal(seen)

Next == PageAction \/ CallAction

Spec == Init /\ [][Next]_vars

-----------------------------------------------------------------------------
(* Properties. *)

StepIds == {"rule", "step"} \X Nat
Steps ==
  [id : StepIds, operation : STRING, columns : SUBSET STRING, source : STRING, sheet : STRING,
   enabled : BOOLEAN, destructive : BOOLEAN, confirmed : BOOLEAN, needs : SUBSET StepIds]
Plans == [source : STRING, steps : Seq(Steps), rules : SUBSET STRING]
Texts == Instructions \union {j.instruction : j \in PreparedJobs}
Requests == [provider : ProviderIds, level : Levels, samples : Samples \ {"strange"}]
Locations == [id : ProviderIds, remote : BOOLEAN]

\* Analysis, the JSON of a plan, the form and the JSON of an answer give typed values.
ASSUME PlansAssumption ==
  /\ Registered \subseteq STRING
  /\ \A j \in PreparedJobs :
       /\ EmptyPlan(j) \in Plans
       /\ \A s \in Range(j.sheets) : j.headers[s] \subseteq STRING
  /\ EditedPlans \subseteq Plans
  /\ \A manual \in ManualSteps : manual.columns \subseteq STRING
  /\ \A response \in Responses \ {NotAPlan} :
       response.steps \in Seq(Steps) /\ response.rules \subseteq STRING

TypeOK ==
  /\ client \in {"page", "library"}
  /\ job \in PreparedJobs \union {Nothing}
  /\ sheet \in STRING \union {Nothing}
  /\ instruction \in Texts \union {Nothing}
  /\ editor \in Plans \union {Nothing, NotAPlan}
  /\ {proposal, digest} \subseteq Plans \union {Nothing}
  /\ generatedFrom \in Texts \union {Nothing}
  /\ approved \in Plans \union {Nothing}
  /\ canApprove \in BOOLEAN
  /\ handed \in Plans \union {Nothing}
  /\ provider \in Locations \union {Nothing}
  /\ prepared \in [request : Requests, remote : BOOLEAN] \union {Nothing}
  /\ decision \in [request : Requests, approved : BOOLEAN] \union {Nothing}
  /\ shown \subseteq Requests
  /\ sent \in [request : Requests, to : Locations] \union {Nothing}

\* A human approval is never stale: what was approved passed the planner's checks for
\* this job, whatever its caller did to the proposal meanwhile, and on the page it is
\* also the plan in the editor, drafted from the instruction that still stands in the
\* field and valid (plan_page.py:325-340: whatever is changed after the approval ends it).
ApprovalIsCurrent ==
  approved # Nothing =>
    /\ Proposable(job, approved)
    /\ client = "page" => /\ approved = digest
                          /\ editor = approved
                          /\ instruction = generatedFrom
                          /\ Valid(job, approved)

\* A step added with the form always fits in the plan it is added to, whatever numbers the
\* user or a planner gave to the others: its id is new, it depends on a step before it
\* (plan_page.py:412-416, 436: the search for a free number ends, and the graph of steps is
\* never the reason why a step is not added).
AddedStepsFit ==
  OnPage /\ Parses(job, editor) =>
    \A manual \in ManualSteps : WellFormed(WithStep(editor, manual))

\* The columns that steps applied to a sheet mention.
ColumnsOn(j, plan, s) ==
  UNION {step.columns : step \in {x \in Range(plan.steps) : s \in TargetedSheets(j, x)}}

\* A planner's plan, drafted by the rules or answered by a provider, never leaves what
\* was analysed: it reads this job's source and sheets, and only columns that the profile
\* found there, on sheets where a header names one column (planner.py:166
\* _validate_targets).
ProposalsStayInsideTheAnalysis ==
  digest # Nothing =>
    /\ \A step \in Range(digest.steps) :
         step.source = job.source /\ TargetedSheets(job, step) \subseteq Range(job.sheets)
    /\ \A s \in Range(job.sheets) :
         /\ ColumnsOn(job, digest, s) \subseteq job.headers[s]
         /\ s \in job.duplicated => ColumnsOn(job, digest, s) = {}
    /\ digest.rules \subseteq UNION {job.headers[s] : s \in Range(job.sheets)}

\* What a clause asks for: the kinds of step its words name.
Families(c) ==
  {kind \in {"duplicates", "rows where", "sort", "clean"} : kind \in c.words}
    \union {kind \in {"standardize"} : {"standardize", "type"} \subseteq c.words}
FamilyOf(operation) ==
  CASE operation \in {"duplicates.remove", "duplicates.mark"} -> "duplicates"
    [] operation = "rows.filter" -> "rows where"
    [] operation = "rows.sort" -> "sort"
    [] operation = "values.standardize" -> "standardize"
    [] OTHER -> "clean"

\* Clause by clause one step of the only kind the clause names, for columns that it
\* names, in the order of the clauses.
StepFollows(plan, k, c) ==
  LET step == plan.steps[k] IN
  /\ Families(c) = {FamilyOf(step.operation)}
  /\ step.columns \subseteq c.named \/ "all columns" \in c.words
  /\ step.operation = "duplicates.remove" => "remove" \in c.words
  /\ step.needs = IF k = 1 THEN {} ELSE {plan.steps[k - 1].id}
Follows(plan, text) ==
  /\ Len(plan.steps) = Len(text)
  /\ \A k \in DOMAIN text : StepFollows(plan, k, text[k])

\* What the preview shows of a generated plan is what was asked for by the instruction
\* that is in the field when the preview is requested, and nothing else
\* (rule_based_parser.py:330; docs/planning-and-privacy.md: "The parser never guesses an
\* operation").
PreviewFollowsTheInstruction ==
  handed # Nothing /\ digest # Nothing => handed = approved /\ Follows(handed, instruction)

\* Nothing reaches a provider before a human said yes to exactly that request, made
\* for that provider (planner.py:256).
NothingIsSentUnreviewed ==
  sent # Nothing => sent.request \in shown /\ sent.request.provider = sent.to.id

\* Nothing leaves the machine without the consent its level needs, however often the
\* call was prepared again or the provider moved in between (privacy_filter.py:143).
NothingLeavesWithoutConsent ==
  sent # Nothing /\ sent.to.remote =>
    /\ job.privacy.mode = "ai_assisted"
    /\ job.privacy.metadata
    /\ sent.request.level = "raw_samples" => job.privacy.raw
    /\ sent.request.level = "metadata" => sent.request.samples = "none"
=============================================================================
