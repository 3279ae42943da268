SPECIFICATION Spec
CONSTANTS
  Panes = {a, b}
  Hideable = {a}
  Preamble = FALSE
  MaxOut = 1
  RingCap = 1
  DaemonCap = 1
  MaxEpochs = 6
  MaxUpsets = 2
INVARIANTS
  SessionIdentityUnique
CHECK_DEADLOCK FALSE
