SPECIFICATION Spec
CONSTANTS
  Client = {c1, c2}
  NoClient = NoClient
  Doc <- FramingDocs
  Value <- MCValue
  Plain <- MCPlain
  Garbled <- MCGarbled
  DefaultIP = "192.168.1.150"
  MaxCapacity = 3
  CharMax = 1
  BufSize = 4
  MaxMessages = 2
  WholeMessages = FALSE
  Faults = {}
CHECK_DEADLOCK FALSE
SYMMETRY Symmetry
INVARIANTS
  ExecutedInOrder
