\* One session id used by two PTYs in turn, two connections sharing them;
\* two chunks pause, three overflow.
SPECIFICATION FairSpec
CONSTANTS
    Ids = {a}
    Conns = {c1, c2}
    MaxPty = 2
    MaxChunk = 2
    BufferCap = 1
    HighWater = 1
    PauseThreshold = 1
    OutboundCap = 2
INVARIANTS
    TypeOK
    LiveReachable
    PausedHasHolder
    OverThresholdIsPaused
    ReplayThenLive
    ExitBeforeSuccessorOutput
PROPERTY
    PauseEnds
