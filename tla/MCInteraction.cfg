SPECIFICATION Spec
CONSTANTS
  hub = hub
  node = node
  Nodes <- MCNodes
  Sizes <- MCSizes
  MaxData = 4
  IdCount = 2
  None = None
  MaxMessages = 4
  MaxLost = 1
  MaxAir = 1
SYMMETRY MCSymmetry
CHECK_DEADLOCK FALSE
INVARIANTS
  TypeOK
  Whole
  AnswersFit
  TableFits
  AllDelivered
