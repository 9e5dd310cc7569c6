SPECIFICATION FairSpec
CONSTANTS
    s1 = s1
    s2 = s2
    d1 = d1
    d2 = d2
    d3 = d3
    Workers = {w1, w2}
    Subs = {s1}
    Deliveries = {d1}
    SubOf <- OneSub
    Window = 2
    Wave = 2
    MaxAttempts = 2
    MaxReplays = 1
    MaxUpdates = 2
    MaxStalls = 1
    None = None
INVARIANTS AttemptHistory DeferralIsFree DeletedIsSilent
PROPERTIES PostedByLatestClaim RunnableIsServed KeepsPromise
CHECK_DEADLOCK FALSE
