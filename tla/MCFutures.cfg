SPECIFICATION FuturesSpec
CONSTANTS
  v1 = v1
  v2 = v2
  MaxPromises = 4
  MaxSteps = 2
  Values <- MCValues
  Failed = Failed
  Pending = Pending
  None = None
CHECK_DEADLOCK FALSE
INVARIANTS
  FuturesTypeOK
  Explained
PROPERTIES
  FuturesEnd
