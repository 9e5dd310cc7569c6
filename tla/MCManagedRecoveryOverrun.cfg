SPECIFICATION RecoverySpec
CONSTANTS
    MaxAttempts = 2
    MaxStartCalls = 2
    MaxStopCalls = 0
    MaxLaunches = 5
    MaxSlots = 3
    MayShutDown = FALSE
    TimersOutlastStops = TRUE
CHECK_DEADLOCK FALSE
INVARIANT RecoveryBounded
