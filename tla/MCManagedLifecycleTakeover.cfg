SPECIFICATION FairSpec
CONSTANTS
    Procs = {p1, p2}
    MaxGeneration = 2
    MaxStops = 0
    MaxCrashes = 0
PROPERTY TakenOverEnds
CHECK_DEADLOCK FALSE
