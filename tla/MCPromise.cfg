SPECIFICATION Spec
CONSTANTS
  s1 = s1
  s2 = s2
  l1 = l1
  l2 = l2
  r1 = r1
  v0 = v0
  v1 = v1
  Setters <- MCSetters
  Listeners <- MCListeners
  Capturing <- MCListeners
  Readers <- MCReaders
  Values <- MCValues
  Default = v0
  Error = Error
  Pending = Pending
  NoOne = NoOne
  Unserved <- MCUnserved
CHECK_DEADLOCK FALSE
INVARIANTS
  OutcomeWasWanted
  ReadersAgree
PROPERTIES
  ImplementsOneShot
