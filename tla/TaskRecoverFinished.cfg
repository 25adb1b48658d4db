SPECIFICATION FairSpec
CONSTANTS
  StartId = {s1}
  None = None
  Configs <- InstallOnly
  OrphanSteamcmd = FALSE
  OverlapStarts = FALSE
  MaxCrash = 1
CHECK_DEADLOCK FALSE
PROPERTIES FinishedInstallReported
