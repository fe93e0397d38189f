SPECIFICATION LaneSpec
CONSTANTS
  Contender = {feed, aws}
  Limit = 2
  MaxSlips = 1
INVARIANT NoReadGivesAWin
CHECK_DEADLOCK FALSE
