SPECIFICATION Spec
CONSTANTS
  HeapStart = 1000
  MemCap = 604
  RootSize = 16
  Word = 1048576
  Sizes = {2, 12}
  MaxEntries = 60
  MaxRefused = 9
  Keys = {1, 72}
  Extended = {72}
  Wire = 2
  MaxWaiting = 2
INVARIANTS
  EventsTrue
  LostForGood
  KeysKnown
CHECK_DEADLOCK FALSE
