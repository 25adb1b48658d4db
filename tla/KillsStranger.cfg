SPECIFICATION Spec
CONSTANTS
  Pids = 2
  MaxBirths = 1
  MaxExecs = 0
  Rebooted = TRUE
CHECK_DEADLOCK FALSE
INVARIANTS OnlyOursKilled
