--------------------------- MODULE GatewayTraffic ---------------------------
(***************************************************************************)
(* Admission of one HTTP request after another by the gateway: the circuit *)
(* breaker, the rate-limit windows and the concurrency counters of         *)
(* GatewayTrafficControlService, driven by the forwarding loop of          *)
(* GatewayRuntimeService.                                                   *)
(*                                                                         *)
(* Node runs the handlers one at a time, so an action is the code between  *)
(* two awaits.  The state of the service is in process memory and is       *)
(* shared by all requests: what one request read before an await may have  *)
(* changed when it goes on.                                                *)
(*                                                                         *)
(* Time is abstract: an open breaker has an age and a rate window has a    *)
(* time left, both moved by Tick.  The age stops at Cooldown and the       *)
(* failure count at FailureThreshold, which is all the code compares them  *)
(* with.                                                                   *)
(***************************************************************************)
EXTENDS Naturals, FiniteSets

CONSTANTS
    Requests,            \* request slots; a slot serves one request at a time
    Routes,              \* published route bindings
    Breakers,            \* breaker keys
    BreakerOf,           \* [Routes -> Breakers]: routes may share a breaker
    Buckets,             \* rate-limit keys (global, runtime, route, consumer ...)
    RateLimit,           \* [Routes -> functions from some buckets to limits]
    WindowOf,            \* [Routes -> window length in ticks]
    Pools,               \* concurrency keys (runtime asset, route)
    ConcurrencyLimit,    \* [Routes -> functions from some pools to limits]
    FailureThreshold, HalfOpenMax, Cooldown,
    MaxAttempts,         \* attempts of one request (resolveMaxAttempts: at most 3)
    Detours,             \* ways to end without an attempt: see LeaveUnsent
    ObservabilityFails   \* whether writing a policy event may fail

ASSUME LimitsAssumption ==
    /\ FailureThreshold \in Nat \ {0}
    /\ HalfOpenMax \in Nat \ {0}
    /\ Cooldown \in Nat \ {0}
    /\ MaxAttempts \in 1..3
    /\ Detours \subseteq {"prepare", "cache", "abort"}
    /\ ObservabilityFails \in BOOLEAN

ASSUME PolicyAssumption ==
    /\ IsFiniteSet(Requests)
    /\ BreakerOf \in [Routes -> Breakers]
    /\ WindowOf \in [Routes -> Nat \ {0}]
    /\ \A r \in Routes :
        /\ DOMAIN RateLimit[r] \subseteq Buckets
        /\ \A b \in DOMAIN RateLimit[r] : RateLimit[r][b] \in Nat \ {0}
        /\ DOMAIN ConcurrencyLimit[r] \subseteq Pools
        /\ \A p \in DOMAIN ConcurrencyLimit[r] : ConcurrencyLimit[r][p] \in Nat \ {0}

VARIABLES
    breaker,   \* breakerStates: state, failures, age since openedAt, half-open slots
    bucket,    \* rateLimitCounters: time left, window length, count
    pool,      \* concurrencyCounters
    req,       \* where each request is: phase, route, attempt
    granted    \* history: half-open slots given out since the breaker went half open

vars == <<breaker, bucket, pool, req, granted>>

Phases == {"idle", "announcing", "admitting", "admitted", "forwarding",
           "recovering", "failed", "opening", "backoff", "releasing"}

Breaker == [state : {"closed", "open", "half_open"}, failures : 0..FailureThreshold,
            age : 0..Cooldown, inFlight : 0..HalfOpenMax]

ClosedBreaker == [state |-> "closed", failures |-> 0, age |-> 0, inFlight |-> 0]
NoWindow      == [left |-> 0, window |-> 0, count |-> 0]

Init ==
    /\ breaker = [k \in Breakers |-> ClosedBreaker]
    /\ bucket = [b \in Buckets |-> NoWindow]
    /\ pool = [p \in Pools |-> 0]
    /\ req \in [Requests -> {[phase |-> "idle", route |-> r, attempt |-> 1] : r \in Routes}]
    /\ granted = [k \in Breakers |-> 0]

MoveTo(q, phase) == req' = [req EXCEPT ![q].phase = phase]

BreakerKey(q) == BreakerOf[req[q].route]

-----------------------------------------------------------------------------
(* beforeAttempt: the first attempt calls it from admit, a retry from      *)
(* forwardWithRetry.  A refused first attempt ends the request; a refused  *)
(* retry is caught and recorded as a failed attempt.                       *)

AfterRefusal(attempt) == IF attempt = 1 THEN "idle" ELSE "failed"
AfterPass(attempt)    == IF attempt = 1 THEN "admitting" ELSE "forwarding"

Cooled(k) == breaker[k].age >= Cooldown

Asking(q, route, attempt, phase) ==
    req' = [req EXCEPT ![q] = [phase |-> phase, route |-> route, attempt |-> attempt]]

TakeSlot(k) ==
    /\ breaker' = [breaker EXCEPT ![k].inFlight = @ + 1]
    /\ granted' = [granted EXCEPT ![k] = @ + 1]

\* The check of the half-open slots, on the state as it is now.
EnterBreaker(q, route, attempt) ==
    LET k == BreakerOf[route] IN
    \/ /\ breaker[k].state = "half_open"
       /\ breaker[k].inFlight >= HalfOpenMax
       /\ Asking(q, route, attempt, AfterRefusal(attempt))
       /\ UNCHANGED <<breaker, granted>>
    \/ /\ breaker[k].state = "half_open"
       /\ breaker[k].inFlight < HalfOpenMax
       /\ Asking(q, route, attempt, AfterPass(attempt))
       /\ TakeSlot(k)
    \/ /\ breaker[k].state # "half_open"
       /\ Asking(q, route, attempt, AfterPass(attempt))
       /\ UNCHANGED <<breaker, granted>>

HalfOpen(k) ==
    /\ breaker' = [breaker EXCEPT ![k].state = "half_open", ![k].inFlight = 0]
    /\ granted' = [granted EXCEPT ![k] = 0]

BeforeAttempt(q, route, attempt) ==
    LET k == BreakerOf[route] IN
    /\ \/ /\ breaker[k].state = "open"
          /\ ~Cooled(k)
          /\ Asking(q, route, attempt, AfterRefusal(attempt))
          /\ UNCHANGED <<breaker, granted>>
       \/ /\ breaker[k].state = "open"
          /\ Cooled(k)
          /\ HalfOpen(k)
          /\ Asking(q, route, attempt, "announcing")
       \/ /\ breaker[k].state # "open"
          /\ EnterBreaker(q, route, attempt)
    /\ UNCHANGED <<bucket, pool>>

\* An authorized request reaches admit.
Arrive(q) ==
    /\ req[q].phase = "idle"
    /\ \E r \in Routes : BeforeAttempt(q, r, 1)

\* Slip: the slots are cleared after the event is written, not before.
AnnouncedThenCleared(q) ==
    LET k == BreakerKey(q) IN
    /\ req[q].phase = "announcing"
    /\ Asking(q, req[q].route, req[q].attempt, AfterPass(req[q].attempt))
    /\ IF breaker[k].state = "half_open"
       THEN /\ breaker' = [breaker EXCEPT ![k].inFlight = 1]
            /\ granted' = [granted EXCEPT ![k] = @ + 1]
       ELSE UNCHANGED <<breaker, granted>>
    /\ UNCHANGED <<bucket, pool>>

\* The half-open event is written (or its write fails): beforeAttempt goes on
\* with the shared state object, which others may have changed meanwhile.
Announced(q) ==
    /\ req[q].phase = "announcing"
    /\ \/ EnterBreaker(q, req[q].route, req[q].attempt)
       \/ /\ ObservabilityFails
          /\ MoveTo(q, AfterRefusal(req[q].attempt))
          /\ UNCHANGED <<breaker, granted>>
    /\ UNCHANGED <<bucket, pool>>

-----------------------------------------------------------------------------
(* enforceRateLimit and acquireConcurrency run with no await between them.  *)

Live(b) == bucket[b].left > 0

\* Slip: every request renews the window's deadline.
RenewedWindow(b, r) ==
    [left |-> WindowOf[r], window |-> WindowOf[r], count |-> bucket[b].count]

\* The window a request of the route counts in: the live one, or a fresh one.
Window(b, r) ==
    IF Live(b) THEN bucket[b]
    ELSE [left |-> WindowOf[r], window |-> WindowOf[r], count |-> 0]

Conflict(b, r) == Live(b) /\ bucket[b].window # WindowOf[r]

WithinRate(r) ==
    \A b \in DOMAIN RateLimit[r] :
        /\ ~Conflict(b, r)
        /\ Window(b, r).count + 1 <= RateLimit[r][b]

ChargeRate(r) ==
    bucket' = [b \in Buckets |->
                 IF b \in DOMAIN RateLimit[r]
                 THEN [Window(b, r) EXCEPT !.count = @ + 1]
                 ELSE bucket[b]]

WithinConcurrency(r) ==
    \A p \in DOMAIN ConcurrencyLimit[r] : pool[p] + 1 <= ConcurrencyLimit[r][p]

Acquire(r) ==
    pool' = [p \in Pools |-> IF p \in DOMAIN ConcurrencyLimit[r] THEN pool[p] + 1 ELSE pool[p]]

Admit(q) ==
    LET r == req[q].route IN
    /\ req[q].phase = "admitting"
    /\ \/ /\ ~WithinRate(r)
          /\ MoveTo(q, "idle")
          /\ UNCHANGED <<bucket, pool>>
       \/ /\ WithinRate(r)
          /\ ChargeRate(r)
          /\ \/ /\ WithinConcurrency(r)
                /\ Acquire(r)
                /\ MoveTo(q, "admitted")
             \/ /\ ~WithinConcurrency(r)
                /\ MoveTo(q, "idle")
                /\ UNCHANGED pool
    /\ UNCHANGED <<breaker, granted>>

\* release of the admission, called in the finally block.
ReleasePool(r) ==
    pool' = [p \in Pools |->
               IF p \in DOMAIN ConcurrencyLimit[r]
               THEN IF pool[p] <= 1 THEN 0 ELSE pool[p] - 1
               ELSE pool[p]]

Release(q) ==
    /\ req[q].phase = "releasing"
    /\ ReleasePool(req[q].route)
    /\ MoveTo(q, "idle")
    /\ UNCHANGED <<breaker, bucket, granted>>

-----------------------------------------------------------------------------
(* The forwarding loop.                                                    *)

\* Slip: an early end skips the release.
LeaveUnreleased(q) ==
    /\ req[q].phase = "admitted"
    /\ MoveTo(q, "idle")
    /\ UNCHANGED <<breaker, bucket, pool, granted>>

\* An admitted request ends before its first attempt: the upstream request
\* cannot be prepared, the cache answers, or the client is gone.
LeaveUnsent(q) ==
    /\ req[q].phase = "admitted"
    /\ Detours # {}
    /\ MoveTo(q, "releasing")
    /\ UNCHANGED <<breaker, bucket, pool, granted>>

Forward(q) ==
    /\ req[q].phase = "admitted"
    /\ MoveTo(q, "forwarding")
    /\ UNCHANGED <<breaker, bucket, pool, granted>>

CloseBreaker(k) == breaker' = [breaker EXCEPT ![k] = ClosedBreaker]

\* recordAttemptSuccess closes the breaker from every state; it writes the
\* recovery event unless the breaker was closed.
AttemptSucceeds(q) ==
    LET k == BreakerKey(q) IN
    /\ req[q].phase = "forwarding"
    /\ CloseBreaker(k)
    /\ MoveTo(q, IF breaker[k].state = "closed" THEN "releasing" ELSE "recovering")
    /\ UNCHANGED <<bucket, pool, granted>>

\* A recovery event that cannot be written throws inside the attempt's try; the
\* answer is out (headersSent), so that this attempt is the request's last.
Recovered(q) ==
    /\ req[q].phase = "recovering"
    /\ \/ MoveTo(q, "releasing")
       \/ ObservabilityFails /\ Asking(q, req[q].route, MaxAttempts, "failed")
    /\ UNCHANGED <<breaker, bucket, pool, granted>>

Failures(k) ==
    IF breaker[k].failures < FailureThreshold THEN breaker[k].failures + 1 ELSE FailureThreshold

Trips(k) == breaker[k].state = "half_open" \/ Failures(k) >= FailureThreshold

OpenBreaker(k) ==
    breaker' = [breaker EXCEPT ![k] =
        [state |-> "open", failures |-> Failures(k), age |-> 0, inFlight |-> 0]]

CountFailure(k) == breaker' = [breaker EXCEPT ![k].failures = Failures(k)]

\* After a recorded failure the loop gives up, or waits and tries again.
AfterFailure(q) == {"releasing"} \cup (IF req[q].attempt < MaxAttempts THEN {"backoff"} ELSE {})

\* recordAttemptFailure, for a failed attempt or a refused retry.  Giving back a
\* half-open slot is not seen: the same step opens the breaker and clears them.
AttemptFails(q) ==
    LET k == BreakerKey(q) IN
    /\ req[q].phase \in {"forwarding", "failed"}
    /\ \/ Trips(k) /\ OpenBreaker(k) /\ MoveTo(q, "opening")
       \/ ~Trips(k) /\ CountFailure(k) /\ \E p \in AfterFailure(q) : MoveTo(q, p)
    /\ UNCHANGED <<bucket, pool, granted>>

\* The open event is written, or its write throws out of the loop.
Opened(q) ==
    /\ req[q].phase = "opening"
    /\ \/ \E p \in AfterFailure(q) : MoveTo(q, p)
       \/ ObservabilityFails /\ MoveTo(q, "releasing")
    /\ UNCHANGED <<breaker, bucket, pool, granted>>

\* The retry delay is over: the client may be gone, else the breaker is asked.
TryAgain(q) ==
    /\ req[q].phase = "backoff"
    /\ \/ /\ "abort" \in Detours
          /\ MoveTo(q, "releasing")
          /\ UNCHANGED <<breaker, bucket, pool, granted>>
       \/ BeforeAttempt(q, req[q].route, req[q].attempt + 1)

-----------------------------------------------------------------------------
(* Time.  A window that ends is as good as absent: the sweep or the next   *)
(* request drops it.                                                       *)

Aged(k) ==
    IF breaker[k].state = "open" /\ breaker[k].age < Cooldown
    THEN [breaker[k] EXCEPT !.age = @ + 1] ELSE breaker[k]

Elapsed(b) ==
    IF bucket[b].left > 1 THEN [bucket[b] EXCEPT !.left = @ - 1] ELSE NoWindow

Tick ==
    /\ breaker' = [k \in Breakers |-> Aged(k)]
    /\ bucket' = [b \in Buckets |-> Elapsed(b)]
    /\ UNCHANGED <<pool, req, granted>>

Serve(q) ==
    \/ Announced(q) \/ Admit(q) \/ LeaveUnsent(q) \/ Forward(q)
    \/ AttemptSucceeds(q) \/ Recovered(q) \/ AttemptFails(q) \/ Opened(q)
    \/ TryAgain(q) \/ Release(q)

Next == Tick \/ \E q \in Requests : Arrive(q) \/ Serve(q)

Spec == Init /\ [][Next]_vars

\* A request in the handlers goes on (every attempt has a deadline), time
\* passes and clients keep asking.
BusySpec ==
    /\ Spec
    /\ WF_vars(Tick)
    /\ \A q \in Requests : WF_vars(Serve(q)) /\ WF_vars(Arrive(q))

-----------------------------------------------------------------------------
(* Typing: no release takes a pool or a breaker's half-open count below zero. *)
TypeOK ==
    /\ breaker \in [Breakers -> Breaker]
    /\ bucket \in [Buckets -> [left : Nat, window : Nat, count : Nat]]
    /\ pool \in [Pools -> Nat]
    /\ req \in [Requests -> [phase : Phases, route : Routes, attempt : 1..MaxAttempts]]
    /\ granted \in [Breakers -> Nat]

\* A request owes a release from its admission to the finally block, through
\* every retry and every refusal of a retry.
Holds(q, p) ==
    /\ p \in DOMAIN ConcurrencyLimit[req[q].route]
    /\ \/ req[q].phase \notin {"idle", "announcing", "admitting"}
       \/ req[q].phase = "announcing" /\ req[q].attempt > 1

\* A concurrency counter is the number of admitted requests that have not left
\* yet, whatever way they take out of the forwarding loop (acquireConcurrency,
\* release in the finally block), and is within the limit of some route.
ConcurrencyConserved ==
    \A p \in Pools :
        /\ pool[p] = Cardinality({q \in Requests : Holds(q, p)})
        /\ pool[p] > 0 => \E r \in Routes : p \in DOMAIN ConcurrencyLimit[r]
                                            /\ pool[p] <= ConcurrencyLimit[r][p]

\* One half-open period gives out at most HalfOpenMax slots, whoever resumes
\* from writing the half-open event in the middle of it and whatever late
\* outcomes of older attempts arrive (beforeAttempt, recordAttemptFailure).
PeriodBounded == \A k \in Breakers : granted[k] <= HalfOpenMax

\* A live rate window keeps its deadline and its count until it ends, also when
\* a route with another window length reaches the same bucket; and a request is
\* counted in all of its buckets or in none (enforceRateLimit).
WindowHeld ==
    [][/\ \A b \in Buckets : Live(b) /\ bucket'[b] # NoWindow =>
            /\ bucket'[b].left \in {bucket[b].left, bucket[b].left - 1}
            /\ bucket'[b].window = bucket[b].window
            /\ bucket'[b].count >= bucket[b].count
       /\ \A q \in Requests : req[q].phase = "admitting" /\ req'[q] # req[q] =>
            \/ bucket' = bucket
            \/ \A b \in DOMAIN RateLimit[req[q].route] :
                  bucket'[b].count = Window(b, req[q].route).count + 1]_vars

\* While the breaker is open no attempt passes it (beforeAttempt).
OpenPassesNone ==
    [][\A q \in Requests :
         /\ req[q].phase \in {"idle", "announcing", "backoff"}
         /\ req'[q].phase \in {"admitting", "forwarding"}
         => breaker[BreakerOf[req'[q].route]].state # "open"]_vars

\* As long as requests come, a half-open breaker is decided in the end.
HalfOpenEnds ==
    \A k \in Breakers : breaker[k].state = "half_open" ~> breaker[k].state # "half_open"

\* As long as requests come, an open breaker is probed or closed in the end:
\* refused retries cannot postpone the probe for ever.
OpenEnds ==
    \A k \in Breakers : breaker[k].state = "open" ~> breaker[k].state # "open"

=============================================================================
