SPECIFICATION Spec
CONSTANTS
    MaxProcs = 3
    Main = main
    Clients = {main, c1}
    Requests = {"remove"}
    MaxRequests = 2
    Ports = {1, 2}
    HasHealth = TRUE
    HasWatch = FALSE
    OnFailure = "restart"
    MaxRestarts = 1
    Threshold = 1
    QueueCap = 1
    SpawnFails = TRUE
INVARIANTS
    NoOrphan
    OneAlive
PROPERTIES
    PortPreserved
    OneLine
CHECK_DEADLOCK FALSE
