SPECIFICATION Spec
CONSTANTS
  Panes = {a}
  Hideable = {a}
  Preamble = TRUE
  MaxOut = 3
  RingCap = 2
  DaemonCap = 1
  MaxEpochs = 6
  MaxUpsets = 2
INVARIANTS
  TypeOK
  PaintedOnce
  AnchorDescribesBuffer
  CurrentSessionIsWired
PROPERTIES
  PaneCatchesUp
CHECK_DEADLOCK FALSE
