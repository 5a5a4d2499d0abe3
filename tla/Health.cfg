SPECIFICATION FairSpec
CONSTANTS
    MaxProcs = 2
    Main = main
    Clients = {main}
    Requests = {"stop", "restart"}
    MaxRequests = 2
    Ports = {1}
    HasHealth = TRUE
    HasWatch = FALSE
    OnFailure = "restart"
    MaxRestarts = 1
    Threshold = 2
    QueueCap = 1
    SpawnFails = FALSE
PROPERTIES
    RespawnOnly
    UnhealthyReplaced
CHECK_DEADLOCK FALSE
