SPECIFICATION RecoverySpec
CONSTANTS
    MaxAttempts = 1
    MaxStartCalls = 1
    MaxStopCalls = 0
    MaxLaunches = 3
    MaxSlots = 2
    MayShutDown = FALSE
    TimersOutlastStops = TRUE
CHECK_DEADLOCK FALSE
INVARIANT RunningIsReal
