SPECIFICATION Spec
CONSTANTS
    MaxProcs = 3
    Main = main
    Clients = {main}
    Requests = {"restart"}
    MaxRequests = 1
    Ports = {1}
    HasHealth = FALSE
    HasWatch = FALSE
    OnFailure = "restart"
    MaxRestarts = 1
    Threshold = 2
    QueueCap = 1
    SpawnFails = TRUE
PROPERTIES
    UnexpectedExitsOnly
CHECK_DEADLOCK FALSE
