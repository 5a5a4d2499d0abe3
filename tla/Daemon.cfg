SPECIFICATION FairSpec
CONSTANTS
    Daemons = {d1, d2}
    Services = {api}
    Started = {api}
    Clients = {c1}
    MaxCommands = 1
    None = none
INVARIANTS
    WaitStarted
    StaysReachable
PROPERTIES
    Reachable
    WaitReturns
    WaitSucceeds
CHECK_DEADLOCK FALSE
