SPECIFICATION Spec
CONSTANTS
  Cycle = {a, b}
  MaxTime = 2
  Day <- ShortDay
  LiveTimes = {0, 1, 2}
  SessionDays = {0, 1}
  MaxAge = 1
  Horizon = 1
  MaxRecs = 1
  MaxCrashes = 0
  None = None
INVARIANTS
  TypeOK
  NoLookahead
  HistoryComplete
  Chronology
PROPERTIES
  LifecycleImplemented
SYMMETRY Symmetry
CHECK_DEADLOCK FALSE
