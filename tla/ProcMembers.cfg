SPECIFICATION FairSpec
CONSTANTS
  Pids = 3
  MaxBirths = 2
  MaxExecs = 1
  Rebooted = FALSE
CHECK_DEADLOCK FALSE
INVARIANTS TypeOK ExitIsReal OnlyRecycledKilled
PROPERTIES ExitNoticed LivingAreFound
