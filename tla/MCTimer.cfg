SPECIFICATION Spec
CONSTANTS
  N = 3
  W = 8
  Amount = 1
  NoFn = NoFn
  Intervals = {0, 2}
  Starts <- MCStarts
  MaxTicks = 3
  MaxDepth = 2
CHECK_DEADLOCK FALSE
INVARIANTS
  TypeOK
  TableSound
PROPERTIES
  NeverEarly
  DueFire
