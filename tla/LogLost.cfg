SPECIFICATION Spec
CONSTANTS
  None = None
  MaxWrites = 1
  MaxFiles = 2
  MaxCuts = 0
CHECK_DEADLOCK FALSE
INVARIANTS FinalDrainComplete
