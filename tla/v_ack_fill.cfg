SPECIFICATION Spec
CONSTANTS
  Cloids = {c1}
  Callers = {a1}
  Size = 2
  Ioc = {}
  AckCarriesFill = TRUE
  AssetGaps = FALSE
  QueueCap = 2
  MaxFaults = 0
  MaxCancels = 0
  MaxKills = 0
  c1 = c1
  a1 = a1
INVARIANT
  LiveCovered
CHECK_DEADLOCK FALSE
