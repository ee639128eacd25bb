SPECIFICATION Spec
CONSTANTS
  Clients = {c1, c2}
  NoClient = NoClient
  Packets <- MCPackets
  Values = {0, 1}
  Initial = 0
  Unknown = Unknown
  Size = 2
  MaxLen = 10
  Header = 3
  Byte = 8
  MaxSent = 3
  MaxChanges = 1
CHECK_DEADLOCK FALSE
INVARIANTS
  NeverNull
  InOrder
  ViewsAgree
PROPERTIES
  AllHandled
  
