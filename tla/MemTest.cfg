SPECIFICATION SpecTest
CONSTANTS
  HeapStart  = 10485760
  MemCap     = 1048576
  RootSize   = 512
  Word       = 268435456
  Sizes      = {50, 100, 150, 200}
  MaxEntries = 10
  MaxRefused = 1
INVARIANT MemoryTestPasses
CHECK_DEADLOCK FALSE
