SPECIFICATION Spec
CONSTANTS
  Client = {c1, c2}
  NoClient = NoClient
  Doc <- SessionDocs
  Value <- MCValue
  Plain <- MCPlain
  Garbled <- MCGarbled
  DefaultIP = "192.168.1.150"
  MaxCapacity = 3
  CharMax = 1
  BufSize = 4
  MaxMessages = 2
  WholeMessages = TRUE
  Faults = {"startup", "accept", "handshake", "read", "write"}
CHECK_DEADLOCK FALSE
SYMMETRY Symmetry
INVARIANTS
  TypeOK
  ContextServesConnection
  NoOrphanConnection
  SessionState
  RepliesMatchRequests
  FramedRequestsServed
PROPERTIES
  ImplementsService
