SPECIFICATION Spec
CONSTANTS
  Discs <- MCDiscs
  Paths <- MCPaths
  RootLba = 20
  SectorBytes = 4
  MaxFaults = 2
INVARIANTS
  Resolves
  FileDelivered
  OverrunBounded
  KeepsThree
PROPERTY ReadFileReturns
CHECK_DEADLOCK FALSE
