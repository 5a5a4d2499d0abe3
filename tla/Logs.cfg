SPECIFICATION FairSpec
CONSTANTS
    Services = {api, db}
    Logged = api
    Readers = {r}
    ChanCap = 1
    HistoryCap = 2
    Last = 2
    RotateBytes = 2
    MaxLines = 3
    MaxSpawns = 1
    MaxSessions = 1
INVARIANTS
    ShownInOrder
    HistoryExact
    
PROPERTIES
    FollowLive
CHECK_DEADLOCK FALSE
