SPECIFICATION Spec
CONSTANTS
  Source = {a, b}
  Key = {k}
  Times = {0, 1, 2, 3, 4}
  Window = 2
  StallTimeout = 2
  Lateness = 1
  CheckInterval = 1
  Prompt = FALSE
  MaxPrints = 2
  MaxNow = 3
  None = None
INVARIANTS
  TypeOK
  EachPrintOnce
  BucketsDisjoint
  NothingOverdue
PROPERTIES
  NoLateFalsification
  WatermarkMonotone
SYMMETRY Symmetry
CHECK_DEADLOCK FALSE
