SPECIFICATION Spec
CONSTANTS
    Services = {db, cache, api, web}
    Ghosts = {ghost}
    MaxDeps = 2
SYMMETRY Symmetry
INVARIANTS
    GraphTypeOK
    Topological
    WavesExact
    
    ClosureExact
    SafeAnswer
CHECK_DEADLOCK FALSE
