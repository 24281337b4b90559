SPECIFICATION FairSpec
CONSTANTS
  j1 = j1
  j2 = j2
  a = a
  b = b
  c = c
  report = report
  summary = summary
  report_json = report_json
  rejected1 = rejected1
  rejected2 = rejected2
  Nobody = Nobody
  Others = Others
  Unread = Unread
  NoResult = NoResult
  Jobs = {j1, j2}
  NumSources = 1
  Contents = {a, b}
  Digest <- MCDigest
  Applicable <- MCApplicable
  Acceptable <- MCAcceptable
  Writable <- MCWritable
  Reopenable <- MCReopenable
  Paths <- MCPaths
  OutputPath <- MCOutputPath
  AuditPath <- MCAuditPath
  RejectPath <- MCRejectPath
  Platform = "nt"
  FaultSets = {{}, {"io"}}
  MaxEdits = 2
INVARIANT TypeOK
INVARIANT OutputIsWhatWasApproved
INVARIANT BackedUpBeforeOutput
INVARIANT FailsOnlyForCause
PROPERTY OthersFilesAreSafe
PROPERTY ImplementsContract
CHECK_DEADLOCK FALSE
