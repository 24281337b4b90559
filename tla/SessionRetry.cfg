SPECIFICATION FairSpec
CONSTANTS
  MaxJobs = 1
  MaxRestores = 0
  MaxRestarts = 0
  StorageFails = FALSE
PROPERTY RetryStarts
CHECK_DEADLOCK FALSE
