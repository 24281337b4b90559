SPECIFICATION FairSpec
CONSTANTS
  j1 = j1
  j2 = j2
  a = a
  b = b
  c = c
  report = report
  summary = summary
  report_json = report_json
  rejected1 = rejected1
  rejected2 = rejected2
  Nobody = Nobody
  Others = Others
  Unread = Unread
  NoResult = NoResult
  Jobs = {j1}
  NumSources = 2
  Contents = {a, b, c}
  Digest <- TwoDigest
  Applicable <- TwoApplicable
  Acceptable <- TwoAcceptable
  Writable <- TwoWritable
  Reopenable <- TwoReopenable
  Paths <- OnePaths
  OutputPath <- OneOutputPath
  AuditPath <- OneAuditPath
  RejectPath <- OneRejectPath
  Platform = "posix"
  FaultSets = {{"crash"}, {"io", "crash"}, {"io", "cleanup", "quarantine", "undo", "crash"}}
  MaxEdits = 3
INVARIANT Inductive
INVARIANT StaleSourceIsNeverPublished
INVARIANT RecoverableFailuresShowNothing
INVARIANT NothingIsLeftBehind
INVARIANT FailedWorkIsRetained
PROPERTY EveryExecutionEnds
CHECK_DEADLOCK FALSE
