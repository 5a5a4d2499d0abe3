SPECIFICATION Spec
CONSTANTS
    Services <- MCServices
    Ports <- MCPorts
    Files <- MCFiles
    MaxProcs = 4
    MaxRequests = 1
INVARIANTS
    
    ArgvExact
    
    RequestReaches
CHECK_DEADLOCK FALSE
