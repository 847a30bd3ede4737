SPECIFICATION Spec
CONSTANTS
  MaxTests = 3
  MaxStatements = 2
  StatusRange = 3
CHECK_DEADLOCK FALSE
INVARIANTS
  RunnerTypeOK
  CountsMatchVerdicts
  OneResultPerTest
  StatusTellsFailure
PROPERTIES
  Ends
