SPECIFICATION ConnectionSpec
CONSTANTS
  Modes <- MCModes
  Intervals <- MCIntervals
  DefaultInterval = 1
  CheckInterval = 1
  ReconnectTimeout = 0
  ConnectionTimeout = 1
  MaxAge = 3
  MaxStale = 1
  MaxFaults = 2
  MaxCalls = 1
INVARIANTS
  StatesAgree
PROPERTIES
  WifiSettles
  MqttComesUp
