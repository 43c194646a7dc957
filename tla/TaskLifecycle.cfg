SPECIFICATION Spec
CONSTANTS
    MaxRuns = 3
    Workers = {w1, w2}
    NoRun = NoRun
    Documents = {1, 2}
    HeldByPolicy = {1, 2}
    RecoverLimit = 3
    MaxStops = 2
    Faults = TRUE
SYMMETRY WorkerSymmetry
INVARIANTS
    LineIsQueue
    StopIsForThisRun
    
PROPERTIES
    StopIsHonoured
    ImplementsRunLifecycle
CHECK_DEADLOCK FALSE
