SPECIFICATION Spec
CONSTANTS
  HeapStart  = 1000
  MemCap     = 300
  RootSize   = 4
  Word       = 65536
  Sizes      = {2, 6, 40}
  MaxEntries = 5
  MaxRefused = 2
CHECK_DEADLOCK FALSE
INVARIANT NoOverlap
