SPECIFICATION FairSpec
CONSTANTS
  Cloids = {c1}
  Callers = {a1}
  Size = 1
  Ioc = {}
  AckCarriesFill = FALSE
  AssetGaps = FALSE
  QueueCap = 2
  MaxFaults = 1
  MaxCancels = 1
  MaxKills = 0
  c1 = c1
  a1 = a1
PROPERTIES
  KnownPlacementResolved
  CancelTakesEffect
CHECK_DEADLOCK FALSE
