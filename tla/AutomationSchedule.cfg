SPECIFICATION Spec
CONSTANTS
  Definitions <- MCDefinitions
  Window = 1
  None = None
  MaxTime = 4
  MaxEdits = 3
  MaxMishaps = 1
INVARIANTS
  TypeOK
  RowCoherent
  FailedBatchRests
PROPERTIES
  DueIsDecided
CHECK_DEADLOCK FALSE
