SPECIFICATION Spec
CONSTANTS
  MaxJobs = 2
  MaxRestores = 1
  MaxRestarts = 0
  StorageFails = FALSE
INVARIANT ConflictingControlsDisabled
CHECK_DEADLOCK FALSE
