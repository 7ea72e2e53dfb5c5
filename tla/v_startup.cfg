SPECIFICATION Spec
CONSTANTS
  Actors = {a1,a2}
  MaxFlips = 2
  MaxFaults = 0
  MaxRestarts = 0
  a1 = a1
  a2 = a2
INVARIANT StartupFailsClosed
