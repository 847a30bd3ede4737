SPECIFICATION Spec
CONSTANTS
  Key <- MCKey
  Value <- MCValue
  Capacity = 2
  Index <- MCIndex
  MaxBlocks = 12
CHECK_DEADLOCK FALSE
INVARIANTS
  HashTypeOK
  EntriesWellPlaced
  BlocksOwned
PROPERTIES
  ImplementsMap
