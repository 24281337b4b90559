SPECIFICATION Spec
CONSTANTS
  MaxJobs = 2
  MaxRestores = 1
  MaxRestarts = 1
  StorageFails = TRUE
INVARIANT TypeOK
INVARIANT SuccessIsReal
PROPERTY TerminalIsForever
CHECK_DEADLOCK FALSE
