SPECIFICATION Spec
CONSTANTS
  TextOf <- MCTextOf
  NumberIn <- MCNumberIn
  BlankText <- Blanks
  Columns = {1, 2}
  Inputs <- TwoSheets
  Rewrites <- MCRewrites
  Mappings <- MCMappings
  Rules <- AllowedRule
  Validations <- NoRules
  MaxSteps = 2
  MaxRecords = 6
  MaxRejected = 2
INVARIANT GatedSheetsSatisfyTheirRule
CHECK_DEADLOCK FALSE
