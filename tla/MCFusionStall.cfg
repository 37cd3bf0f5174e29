SPECIFICATION Spec
CONSTANTS
  Source = {a, b}
  Key = {k}
  Times = {0}
  Window = 2
  StallTimeout = 2
  Lateness = 1
  CheckInterval = 1
  Prompt = TRUE
  MaxPrints = 8
  MaxNow = 6
  None = None
INVARIANT
  StallDetected
CHECK_DEADLOCK FALSE
