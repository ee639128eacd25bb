SPECIFICATION Spec
CONSTANTS
  W = 8
  Amount = 4
  NoFn = NoFn
  Values = {old, new}
  Default = old
  Garbage = Garbage
  Absent = Absent
  Torn = Torn
  None = None
  ServiceInterval = 1
  SaveInterval = 4
  RestartDelay = 2
  Late = 1
  MaxRestarts = 2
  MaxCrashes = 1
INVARIANTS
  StorageTypeOK
  SavedInTime
  RestartKeepsChanges
  SavedIsOnFile
PROPERTIES
  RestartHappens
