SPECIFICATION RecoverySpec
CONSTANTS
    MaxAttempts = 2
    MaxStartCalls = 1
    MaxStopCalls = 1
    MaxLaunches = 2
    MaxSlots = 2
    MayShutDown = FALSE
    TimersOutlastStops = TRUE
CHECK_DEADLOCK FALSE
INVARIANT StopTold
