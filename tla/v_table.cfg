SPECIFICATION Spec
CONSTANTS
  Cloids = {c1}
  Callers = {a1}
  Size = 1
  Ioc = {}
  AckCarriesFill = FALSE
  AssetGaps = FALSE
  QueueCap = 2
  MaxFaults = 0
  MaxCancels = 1
  MaxKills = 0
  c1 = c1
  a1 = a1
PROPERTY
  RowsFollowTheTable
CHECK_DEADLOCK FALSE
