SPECIFICATION Spec
CONSTANTS
  Scancodes = {41, 43, 128, 28, 14, 129}
  Width = 4
  Height = 2
  OutHeight = 1
  Capacity = 4
  ShortMax = 7
  MaxKeys = 9
INVARIANTS
  CursorFollowsText
  LineHeld
  EchoShown
  SilentSpillBounded
CHECK_DEADLOCK FALSE
