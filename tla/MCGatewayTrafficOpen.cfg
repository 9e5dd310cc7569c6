SPECIFICATION Spec
CONSTANTS
    q1 = q1  q2 = q2  q3 = q3  ra = ra  rb = rb
    shared = shared  asset = asset  own = own
    Requests = {q1, q2}
    Routes = {ra}
    Breakers = {shared}
    BreakerOf <- Shared
    Buckets = {asset}
    RateLimit <- Unlimited
    WindowOf <- LongWindow
    Pools = {asset}
    ConcurrencyLimit <- Unlimited
    FailureThreshold = 1
    HalfOpenMax = 1
    Cooldown = 1
    MaxAttempts = 1
    Detours = {}
    ObservabilityFails = FALSE
PROPERTY OpenPassesNone
