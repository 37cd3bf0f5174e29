SPECIFICATION FairSpec
CONSTANTS
  Cycle = {a}
  MaxTime = 4
  Day <- LongDay
  LiveTimes = {0, 1, 3, 4}
  SessionDays = {0, 2, 3}
  MaxAge = 1
  Horizon = 2
  MaxRecs = 2
  MaxCrashes = 1
  None = None
INVARIANTS
  RecsOnChange
PROPERTIES
  PositionSettles
CHECK_DEADLOCK FALSE
