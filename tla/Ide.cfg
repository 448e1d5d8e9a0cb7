SPECIFICATION Spec
CONSTANTS
  BufWords = 3
  SleepMs = 2
  Lbas = {16, 17}
  SectorWords = 2
  MaxProbes = 2
  MaxReads = 2
  MaxForeign = 1
INVARIANTS
  FoundIsConnected
  SectorDelivered
  Drained
PROPERTY CallReturns
CHECK_DEADLOCK FALSE
