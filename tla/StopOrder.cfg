SPECIFICATION FairSpec
CONSTANTS
  Pid = {game, game2, wineserver, xvfb, child, grandchild}
  Support = {wineserver, xvfb}
  First = {game, game2, wineserver, xvfb}
  Deaf = {game, game2, xvfb}
  Stuck = {game2, xvfb}
CHECK_DEADLOCK FALSE
INVARIANTS TypeOK GoneIsGone SupportLast GraceFirst OnlyStuckSurvive
PROPERTIES Answers
