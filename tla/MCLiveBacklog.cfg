SPECIFICATION Spec
CONSTANTS
  Proc = {p1}
  t1 = t1
  t2 = t2
  a1 = a1
  a2 = a2
  Ticker = {t1, t2}
  Base = {t1}
  Alert = {a1, a2}
  TickerOf <- MCTickerOf
  DayLength = 3
  Open = {1, 2}
  Backfill = 1
  SeenCap = 1
  MaxTime = 5
  MaxTrouble = 2
  None = None
INVARIANTS
  NoFlood
CHECK_DEADLOCK FALSE
