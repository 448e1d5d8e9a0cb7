SPECIFICATION Spec
CONSTANTS
  Lines = {0, 1, 14, 15}
  MaxRaised = 2
  MaxRefused = 1
INVARIANTS
  InServiceIsStacked
  NestsOnlyAtIret
  AllocatorExclusive
  ThreadInterruptible
PROPERTY EveryRequestServed
