SPECIFICATION RecoverySpec
CONSTANTS
    MaxAttempts = 2
    MaxStartCalls = 1
    MaxStopCalls = 1
    MaxLaunches = 3
    MaxSlots = 2
    MayShutDown = FALSE
    TimersOutlastStops = FALSE
CHECK_DEADLOCK FALSE
INVARIANT StopWins
