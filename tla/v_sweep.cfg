SPECIFICATION Spec
CONSTANTS
  Cloids = {c1,c2}
  Callers = {a1}
  Size = 1
  Ioc = {}
  AckCarriesFill = FALSE
  AssetGaps = TRUE
  QueueCap = 2
  MaxFaults = 0
  MaxCancels = 0
  MaxKills = 1
  c1 = c1
  c2 = c2
  a1 = a1
INVARIANT
  ClosedRowsAreClosed
CHECK_DEADLOCK FALSE
