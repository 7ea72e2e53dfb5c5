SPECIFICATION FairSpec
CONSTANTS
  Actors = {a1,a2}
  MaxFlips = 3
  MaxFaults = 1
  MaxRestarts = 1
  a1 = a1
  a2 = a2
INVARIANTS
  TypeOK
  RowFollowsLatch
PROPERTIES
  CancelOnlyHolds
  KillHalts
  ResetResumes
