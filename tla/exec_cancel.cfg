SPECIFICATION Spec
CONSTANTS
  Cloids = {c1}
  Callers = {a1,a2}
  Size = 2
  Ioc = {}
  AckCarriesFill = FALSE
  AssetGaps = FALSE
  QueueCap = 2
  MaxFaults = 1
  MaxCancels = 1
  MaxKills = 0
  c1 = c1
  a1 = a1
  a2 = a2
INVARIANTS
  TypeOK
  AtMostOnePlacement
  LiveCovered
  ClosedRowsAreClosed
  CommandsTellTheTruth
  FillsNeverLost
  FillsNeverInvented
PROPERTIES
  NeverReopened
  KeepsPromise
CHECK_DEADLOCK FALSE
SYMMETRY CallerSymmetry
