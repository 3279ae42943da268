\* Handoffs in a row, failures at every point, one daemon killed from outside.
CONSTANTS
    MaxDaemon = 3
    Shells = {s1, s2}
    MaxCrash = 1
    Stall = FALSE
SPECIFICATION FairSpec
INVARIANTS
    TypeOK
    HandoffKeepsShells
    ServingReachable
PROPERTIES
    HandoffEnds
CHECK_DEADLOCK FALSE
