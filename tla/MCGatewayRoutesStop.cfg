SPECIFICATION Spec
CONSTANTS
    a1 = a1  a2 = a2  d1 = d1  d2 = d2  s1 = s1  r1 = r1  r2 = r2
    Assets = {a1}
    Revisions = {r1, r2}
    Deploys = {d1}
    Stops = {s1}
    AssetOf <- Alone
    None = None
    Unset = Unset
    MaxCrashes = 0
CHECK_DEADLOCK FALSE
INVARIANT StoppedStaysDown
