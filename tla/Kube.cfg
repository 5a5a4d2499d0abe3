SPECIFICATION Spec
CONSTANTS
    api = api
    db = db
    Services = {api, db}
    Configs <- MCConfigs
    MaxUps = 2
    MaxDowns = 1
    MaxChanges = 2
INVARIANTS
    RefsResolve
    DisabledNeverDeployed
    Fresh
PROPERTIES
    DepsRunFirst
CHECK_DEADLOCK FALSE
