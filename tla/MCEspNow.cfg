SPECIFICATION EspNowSpec
CONSTANTS
  loop = loop
  worker = worker
  f1 = f1
  f2 = f2
  f3 = f3
  hub = hub
  node = node
  Callers <- MCCallers
  Packets <- MCPackets
  Peers <- MCPeers
  MaxPeers = 1
  Nothing = Nothing
  MaxResets = 2
CHECK_DEADLOCK FALSE
INVARIANTS
  OwnFate
  NoneInvented
PROPERTIES
  AllSettle
