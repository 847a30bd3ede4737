SPECIFICATION ArraySpec
CONSTANTS
  Key = {k1, k2}
  Text = {t1, t2}
  MaxCapacity = 2
  Capacities <- MCCapacities
  Missing = t1
  MaxBlocks = 9
  MaxFailures = 0
  SetsType = FALSE
CHECK_DEADLOCK FALSE
INVARIANTS
  NoBadFree
