SPECIFICATION Spec
CONSTANTS
  Works <- MCWorks
  Values <- MCValues
  Legacy <- MCLegacy
  Names = {n1, n2}
  Readings <- MCReadings
  MaxJobs = 2
  MaxTemplates = 2
  MaxCrashes = 1
INVARIANT TypeOK
INVARIANT StoreIsUpgraded
INVARIANT LinksResolve
INVARIANT OffersExist
INVARIANT RebindingKeepsTheReviewedWork
SYMMETRY NameSymmetry
CHECK_DEADLOCK FALSE
