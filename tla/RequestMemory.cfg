SPECIFICATION Spec
CONSTANTS
  Doc <- MCDoc
  Value <- MCValue
  Plain <- MCValue
  Garbled = "?"
  DefaultIP = "192.168.1.150"
  MaxCapacity = 3
  CharMax = 1
  Tree <- MCTree
  MaxFailures = 1
  MaxRequests = 2
  MaxSessions = 2
CHECK_DEADLOCK FALSE
INVARIANTS
  NoDanglingPointer
  ArrayHoldsRequest
  LeakPerRequest
  CrashNeedsFailure
