SPECIFICATION Spec
CONSTANTS
  j1 = j1
  j2 = j2
  a = a
  b = b
  c = c
  report = report
  summary = summary
  report_json = report_json
  rejected1 = rejected1
  rejected2 = rejected2
  Nobody = Nobody
  Others = Others
  Unread = Unread
  NoResult = NoResult
  Jobs = {j1}
  NumSources = 1
  Contents = {a, b}
  Digest <- MCDigest
  Applicable <- MCApplicable
  Acceptable <- MCAcceptable
  Writable <- MCWritable
  Reopenable <- MCReopenable
  Paths <- OnePaths
  OutputPath <- OneOutputPath
  AuditPath <- OneAuditPath
  RejectPath <- OneRejectPath
  Platform = "nt"
  FaultSets = {{"cleanup"}}
  MaxEdits = 1
INVARIANT FailedJobsShowNothing
CHECK_DEADLOCK FALSE
