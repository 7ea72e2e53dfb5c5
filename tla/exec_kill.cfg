SPECIFICATION Spec
CONSTANTS
  Cloids = {c1,c2}
  Callers = {a1}
  Size = 1
  Ioc = {c2}
  AckCarriesFill = FALSE
  AssetGaps = FALSE
  QueueCap = 2
  MaxFaults = 1
  MaxCancels = 0
  MaxKills = 1
  c1 = c1
  c2 = c2
  a1 = a1
INVARIANTS
  KillSweepCovers
  LiveCovered
  ClosedRowsAreClosed
CHECK_DEADLOCK FALSE
