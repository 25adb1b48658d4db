SPECIFICATION Spec
CONSTANTS
  StartId = {s1, s2, s3}
  None = None
  Configs <- AnyTask
  OrphanSteamcmd = FALSE
  OverlapStarts = FALSE
  MaxCrash = 2
CHECK_DEADLOCK FALSE
SYMMETRY StartsAlike
INVARIANTS TypeOK OneServer ClosedOnce Supervised
PROPERTIES ReportStands DirHasOneUse
