SPECIFICATION Spec
CONSTANTS
    Procs = {p1, p2}
    MaxGeneration = 2
    MaxStops = 1
    MaxCrashes = 0
INVARIANT OneReadyChild
CHECK_DEADLOCK FALSE
ACTION_CONSTRAINT NoReconcile
