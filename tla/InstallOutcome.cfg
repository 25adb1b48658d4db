SPECIFICATION FairSpec
CONSTANTS
  RepairManifest = TRUE
  NumericAppID = TRUE
  MaxLines = 3
CHECK_DEADLOCK FALSE
INVARIANTS TypeOK SuccessIsAuthoritative
PROPERTIES RemovedOnlyToRepair CancelReturns
