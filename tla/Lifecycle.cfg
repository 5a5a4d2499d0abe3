SPECIFICATION FairSpec
CONSTANTS
    MaxProcs = 3
    Main = main
    Clients = {main}
    Requests = {"stop", "restart", "remove", "add"}
    MaxRequests = 2
    Ports = {1}
    HasHealth = FALSE
    HasWatch = FALSE
    OnFailure = "restart"
    MaxRestarts = 1
    Threshold = 1
    QueueCap = 1
    SpawnFails = FALSE
INVARIANTS
    Supervised
PROPERTIES
    TermBeforeKill
    StopCompletes
    
CHECK_DEADLOCK FALSE
