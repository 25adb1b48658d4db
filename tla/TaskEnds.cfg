SPECIFICATION FairSpec
CONSTANTS
  StartId = {s1, s2}
  None = None
  Configs <- UpdatedTask
  OrphanSteamcmd = FALSE
  OverlapStarts = FALSE
  MaxCrash = 2
CHECK_DEADLOCK FALSE
INVARIANTS NoUpdateUnderServer
PROPERTIES ExitReported DestroyedStops
