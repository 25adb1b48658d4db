SPECIFICATION Spec
CONSTANTS
  StartId = {s1, s2}
  None = None
  Configs <- UpdatedTask
  OrphanSteamcmd = TRUE
  OverlapStarts = TRUE
  MaxCrash = 1
CHECK_DEADLOCK FALSE
INVARIANTS OneServer
