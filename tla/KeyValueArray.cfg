SPECIFICATION ArraySpec
CONSTANTS
  Key = {k1, k2}
  Text = {t1, t2}
  MaxCapacity = 2
  Capacities <- MCCapacities
  Missing = t1
  MaxBlocks = 9
  MaxFailures = 2
  SetsType = TRUE
CHECK_DEADLOCK FALSE
INVARIANTS
  ArrayTypeOK
  NoBadFree
  BlocksAccounted
  FirstPairWins
  CrashNeedsFailure
