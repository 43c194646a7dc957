SPECIFICATION PartsSpec
CONSTANTS
    MaxRuns = 3
    Workers = {w1, w2}
    NoRun = NoRun
    Documents = {1, 2}
    HeldByPolicy = {1, 2}
    RecoverLimit = 3
    MaxStops = 1
    Faults = FALSE
    Fragments = 2
    Calls = 2
    QueueLimit = 2
    ReplayLimit = 2
    MaxTroubles = 2
INVARIANTS
    ActiveIsOwned
    
PROPERTIES
    Progress
    
CHECK_DEADLOCK FALSE
