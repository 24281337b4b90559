SPECIFICATION Spec
CONSTANTS
  PreparedJobs <- MCJobs
  Instructions <- MCInstructions
  EditedPlans <- MCEdited
  ManualSteps <- MCManual
  Responses <- MCResponses
  Registered <- MCRegistered
  Destructive <- MCDestructive
  Reserved = {"_sheetpilot_row_id"}
  ProviderIds = {p1, p2}
  MaxSteps = 3
  MaxReviews = 2
  Nothing = Nothing
  NotAPlan = NotAPlan
  Refused = Refused
INVARIANT TypeOK
INVARIANT ApprovalIsCurrent
 
INVARIANT ProposalsStayInsideTheAnalysis
INVARIANT PreviewFollowsTheInstruction
INVARIANT NothingIsSentUnreviewed
INVARIANT NothingLeavesWithoutConsent
SYMMETRY ProviderSymmetry
CHECK_DEADLOCK FALSE
