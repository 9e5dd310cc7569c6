SPECIFICATION Spec
CONSTANTS
    q1 = q1  q2 = q2  q3 = q3  ra = ra  rb = rb
    shared = shared  asset = asset  own = own
    Requests = {q1, q2, q3}
    Routes = {ra, rb}
    Breakers = {shared}
    BreakerOf <- Shared
    Buckets = {asset, own}
    RateLimit <- Rates
    WindowOf <- Windows
    Pools = {asset, own}
    ConcurrencyLimit <- Limits
    FailureThreshold = 2
    HalfOpenMax = 1
    Cooldown = 1
    MaxAttempts = 2
    Detours = {"prepare", "cache", "abort"}
    ObservabilityFails = TRUE
SYMMETRY Symmetry
INVARIANTS ConcurrencyConserved PeriodBounded
PROPERTIES WindowHeld
