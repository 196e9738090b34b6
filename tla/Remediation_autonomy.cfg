SPECIFICATION Spec
CONSTANTS
  Rates = {0, 20, 70, 150}
  MaxPoints = 2
  MaxBuffer = 2
  Limit = 1
  Window = 2
  MaxKeys = 1
  Clients = {c1, c2}
  Settings <- MCSettings
  Watch = 1
  MaxRequests = 3
  MaxTime = 2
  MaxRestarts = 1
  MaxFaults = 1
  MaxOthers = 1
  MaxUnlogged = 1
SYMMETRY MCSymmetry
CHECK_DEADLOCK FALSE
INVARIANT ChainHolds RateHolds ChangesAreAccounted
