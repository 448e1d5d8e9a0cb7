SPECIFICATION Spec
CONSTANTS
  HeapStart  = 1000
  MemCap     = 104
  RootSize   = 4
  Word       = 65536
  Sizes      = {0, 3, 3240, 20000, 65535}
  MaxEntries = 5
  MaxRefused = 1
INVARIANTS
  OwnedMatchesHeap
  DisjointUnlessMerged
  BelowCapUnlessWrapped
  HeapInv
CHECK_DEADLOCK FALSE
