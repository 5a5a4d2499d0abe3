SPECIFICATION FairSpec
CONSTANTS
    MaxProcs = 3
    Main = main
    Clients = {main}
    Requests = {"stop"}
    MaxRequests = 2
    Ports = {1}
    HasHealth = FALSE
    HasWatch = TRUE
    OnFailure = "stop"
    MaxRestarts = 1
    Threshold = 2
    QueueCap = 1
    SpawnFails = TRUE
INVARIANTS
    TypeOK
    WatcherCancellable
PROPERTIES
    LockReleasedUnlessFull
CHECK_DEADLOCK FALSE
