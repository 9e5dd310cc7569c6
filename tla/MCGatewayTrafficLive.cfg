SPECIFICATION BusySpec
CONSTANTS
    q1 = q1  q2 = q2  q3 = q3  ra = ra  rb = rb
    shared = shared  asset = asset  own = own
    Requests = {q1, q2}
    Routes = {ra, rb}
    Breakers = {shared}
    BreakerOf <- Shared
    Buckets = {asset}
    RateLimit <- Unlimited
    WindowOf <- LongWindow
    Pools = {asset}
    ConcurrencyLimit <- Unlimited
    FailureThreshold = 2
    HalfOpenMax = 1
    Cooldown = 2
    MaxAttempts = 3
    Detours = {}
    ObservabilityFails = TRUE
PROPERTIES HalfOpenEnds OpenEnds
