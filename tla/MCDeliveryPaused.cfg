SPECIFICATION FairSpec
CONSTANTS
    s1 = s1
    s2 = s2
    d1 = d1
    d2 = d2
    d3 = d3
    Workers = {w1}
    Subs = {s1, s2}
    Deliveries = {d1, d2, d3}
    SubOf <- LastOnly
    Window = 2
    Wave = 1
    MaxAttempts = 1
    MaxReplays = 0
    MaxUpdates = 2
    MaxStalls = 0
    None = None
PROPERTIES RunnableIsServed
CHECK_DEADLOCK FALSE
