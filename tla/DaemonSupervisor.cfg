\* Starts, crashes, a restart, an update and host-service restarts in any order,
\* with up to one of the circumstances.
CONSTANTS
    MaxPid = 4
    MaxCrash = 2
    MaxRestart = 1
    MaxUpdate = 1
    MaxHostCrash = 2
    CrashBudget = 1
    MaxMet = 1
SPECIFICATION FairSpec
INVARIANTS
    TypeOK
    OneKnownDaemon
PROPERTIES
    StaleInstanceCleared
CHECK_DEADLOCK FALSE
