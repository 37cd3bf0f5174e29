SPECIFICATION MCSingleSpec
CONSTANTS
  Workers = {p1}
  t1 = t1
  t2 = t2
  Targets = {t1, t2}
  TargetAt <- MCTargetAt
  Deadline <- MCDeadline
  SpyEntry = {t1}
  Offset <- MCOffset
  Spacing = 1
  TradeAge = 1
  Skew = 1
  Cooldown = 1
  ModuleCap = 3
  SharedCap = 3
  SlotTries = 2
  ReadLimit = 4
  MaxTime = 2
  MaxTrouble = 2
  None = None
PROPERTIES
  RefusalStands
  LifeImplemented
  TargetsSettle
CHECK_DEADLOCK FALSE
