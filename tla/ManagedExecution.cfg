SPECIFICATION Spec
CONSTANTS
  Runs = {1, 2}
  MaxDowns = 1
INVARIANTS
  TypeOK
  RunsOnce
  BusyWhileAtWork
  SuccessIsEarned
  CancelDecides
PROPERTIES
  Settles
CHECK_DEADLOCK FALSE
