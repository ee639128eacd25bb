SPECIFICATION Spec
CONSTANTS
  N = 3
CHECK_DEADLOCK FALSE
INVARIANTS
  CountIsExact
PROPERTIES
  ImplementsJoint
