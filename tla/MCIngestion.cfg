SPECIFICATION Spec
CONSTANTS
    c1 = c1  c2 = c2  w1 = w1  w2 = w2
    NoCall = NoCall
    Calls = {c1}
    Workers = {w1, w2}
    Steady = w1
    LastDay = 2
    MaxProgress = 1
    MaxFaults = 1
INVARIANTS
    EveryLineCounted
    LatestRecordShown
    MemberOnce
PROPERTIES
    EveryCallSettles
CHECK_DEADLOCK FALSE
