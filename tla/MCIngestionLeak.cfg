SPECIFICATION Spec
CONSTANTS
    c1 = c1  c2 = c2  w1 = w1  w2 = w2
    NoCall = NoCall
    Calls = {c1}
    Workers = {w1}
    Steady = w1
    LastDay = 1
    MaxProgress = 1
    MaxFaults = 0
INVARIANT InFlightBalanced
CHECK_DEADLOCK FALSE
