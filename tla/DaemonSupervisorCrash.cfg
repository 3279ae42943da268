\* A crash after a user restart.
CONSTANTS
    MaxPid = 3
    MaxCrash = 1
    MaxRestart = 1
    MaxUpdate = 0
    MaxHostCrash = 0
    CrashBudget = 1
    MaxMet = 0
SPECIFICATION Spec
PROPERTIES
    CrashRespawns
CHECK_DEADLOCK FALSE
