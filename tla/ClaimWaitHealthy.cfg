SPECIFICATION Spec
CONSTANTS
    Daemons = {d1}
    Services = {api}
    Started = {api}
    Clients = {c1}
    MaxCommands = 1
    None = none
PROPERTIES
    WaitMeansHealthy
CHECK_DEADLOCK FALSE
