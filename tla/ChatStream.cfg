SPECIFICATION FairSpec
CONSTANTS
    Items = {"a", "b"}
    State = "state"
    Sockets = {1, 2}
    PageSize = 2
    BootstrapLimit = 2
    MaxVersion = 3
    MaxDelta = 1
    Courses <- AllCourses
    Restarts = {"loss", "bad"}
INVARIANTS
    TypeOK
    StreamHasNoHoles
    LiveTextExtendsLatest
PROPERTIES
    ShowsOneWindow
    FollowsToTheEnd
CHECK_DEADLOCK FALSE
