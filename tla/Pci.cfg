SPECIFICATION Spec
CONSTANTS
  Buses = 2
  Devices = 2
  Functions = 2
  Absent = Absent
  NULL = NULL
  Hardware <- MCHardware
  Layouts <- MCLayouts
  Wanted <- MCWanted
  MaxCalls = 2
INVARIANTS
  EveryFunctionPrinted
  FirstFound
  DescriptorTrue
  BlocksLost
CHECK_DEADLOCK FALSE
