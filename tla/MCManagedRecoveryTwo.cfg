SPECIFICATION RecoverySpec
CONSTANTS
    MaxAttempts = 2
    MaxStartCalls = 2
    MaxStopCalls = 1
    MaxLaunches = 4
    MaxSlots = 3
    MayShutDown = TRUE
    TimersOutlastStops = TRUE
CHECK_DEADLOCK FALSE
INVARIANTS RecoveryTypeOK OneChild StopWins ShutdownFinal
