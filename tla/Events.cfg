SPECIFICATION Spec
CONSTANT MaxEvents = 6
INVARIANTS
  FifoWhileCalm
  NeverBackwards
  LossExact
  WildOnlyAfterOverrun
  QueueInv
PROPERTY QueuedIsServed
CHECK_DEADLOCK FALSE
