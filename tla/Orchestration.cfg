SPECIFICATION Spec
CONSTANTS
    db = db
    api = api
    web = web
    Services <- MCServices
    Configs <- MCConfigs
    Main = main
    Clients = {main, c1}
    Requests = {"stop_all", "stop_named", "restart", "reload"}
    MaxRequests = 2
    SpawnFails = TRUE
INVARIANTS
    ShutdownComplete
PROPERTIES
    DepsFirst
    DependentsStopFirst
    ReloadExact
CHECK_DEADLOCK FALSE
