SPECIFICATION FairSpec
CONSTANTS
  None = None
  MaxWrites = 2
  MaxFiles = 2
  MaxCuts = 1
CHECK_DEADLOCK FALSE
INVARIANTS TypeOK StaleStays CopiedInOrder NothingSkipped DrainedBeforeReport
PROPERTIES LinesCopied
