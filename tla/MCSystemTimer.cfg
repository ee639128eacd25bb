SPECIFICATION Spec
CONSTANTS
  r1 = r1
  r2 = r2
  r3 = r3
  Requests <- MCRequests
  Timeouts = {0, 2}
  Fraction = 2
  None = None
  MaxMillis = 4
CHECK_DEADLOCK FALSE
INVARIANTS
  NeverEarly
  DeadlineOrder
PROPERTIES
  ArmedTimersFire
