SPECIFICATION FairSpec
CONSTANTS
  Install = {i1, i2, i3}
  Configs <- OneNoneTwo
CHECK_DEADLOCK FALSE
INVARIANTS TypeOK SlotBound ElementsAreHeld
PROPERTIES InstallsReturn
