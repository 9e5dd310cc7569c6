SPECIFICATION FairSpec
CONSTANTS
    Procs = {p1, p2}
    MaxGeneration = 2
    MaxStops = 2
    MaxCrashes = 1
INVARIANTS TypeOK VerifiedMeansExited CurrentIsOwned SingleWinner
PROPERTIES OverEnds ExitNoticed
CHECK_DEADLOCK FALSE
