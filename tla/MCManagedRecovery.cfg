SPECIFICATION FairRecoverySpec
CONSTANTS
    MaxAttempts = 2
    MaxStartCalls = 1
    MaxStopCalls = 1
    MaxLaunches = 5
    MaxSlots = 3
    MayShutDown = TRUE
    TimersOutlastStops = TRUE
CHECK_DEADLOCK FALSE
INVARIANTS OneChild StopWins RecoveryBounded ShutdownFinal
PROPERTIES StopsEnd FailureAnswered
