SPECIFICATION Spec
CONSTANTS
  Volume = {v1, v2}
  None = None
  Targets = 2
  Sources = 2
  Dest = {d1, d2}
  MaxStarts = 3
  MaxMishaps = 2
CHECK_DEADLOCK FALSE
INVARIANTS TypeOK MountedAtLaunch StagedAtLaunch NeverHalf
PROPERTIES RealContentStays
