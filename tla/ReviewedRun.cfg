SPECIFICATION Spec
CONSTANTS
  TextOf <- MCTextOf
  NumberIn <- MCNumberIn
  BlankText <- Blanks
  Columns = {1, 2}
  Inputs <- TwoSheets
  Rewrites <- MCRewrites
  Mappings <- MCMappings
  Rules <- AllRules
  Validations <- PlanRules
  MaxSteps = 3
  MaxRecords = 6
  MaxRejected = 2
INVARIANT TypeOK
INVARIANT RowIdsUnique
INVARIANT LogExplainsResult
INVARIANT RejectionRestoresFirstValue
INVARIANT RejectionIsLocal
INVARIANT RowCountsBalance
INVARIANT RejectingAllRestoresSource
CHECK_DEADLOCK FALSE
