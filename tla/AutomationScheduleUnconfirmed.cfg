SPECIFICATION Spec
CONSTANTS
  Definitions <- MCDefinitions
  Window = 1
  None = None
  MaxTime = 4
  MaxEdits = 3
  MaxMishaps = 1
INVARIANTS
  EnabledAsConfirmed
CHECK_DEADLOCK FALSE
