SPECIFICATION FairSpec
CONSTANTS
  MaxJobs = 3
  MaxRestores = 0
  MaxRestarts = 0
  StorageFails = FALSE
INVARIANT HistoryTellsTheTruth
INVARIANT OneExecutionAtATime
INVARIANT ConflictingControlsDisabled
INVARIANT SavedPlansSucceeded
PROPERTY EveryOutcomeIsBooked
PROPERTY CommittedResultIsShown
CHECK_DEADLOCK FALSE
