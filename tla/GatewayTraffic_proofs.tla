----------------------- MODULE GatewayTraffic_proofs -----------------------
(***************************************************************************)
(* Proofs about GatewayTraffic, for any number of requests, routes, keys   *)
(* and limits.                                                             *)
(*                                                                         *)
(* A concurrency counter is a number of requests: a step moves one request *)
(* and leaves the set of those that owe a release as it is, but for the    *)
(* admission, which adds it, and the release, which takes it out.  A       *)
(* half-open period counts its slots twice, in the breaker and in the      *)
(* history, and the two agree while it lasts.                              *)
(***************************************************************************)
EXTENDS GatewayTraffic, TLAPS, FiniteSetTheorems

\* A request that owes a release, by its phase and attempt (Holds).
Owing(phase, attempt) ==
    \/ phase \notin {"idle", "announcing", "admitting"}
    \/ phase = "announcing" /\ attempt > 1

Holders(p) == {q \in Requests : Holds(q, p)}

\* Only a request that may try once more waits for it (AfterFailure).
Retrying == \A q \in Requests : req[q].phase = "backoff" => req[q].attempt < MaxAttempts

\* The slots of the period under way are those the breaker counts.
Period ==
    \A k \in Breakers :
        /\ granted[k] <= HalfOpenMax
        /\ breaker[k].state = "half_open" => granted[k] = breaker[k].inFlight

IInv == TypeOK /\ Retrying /\ Period /\ ConcurrencyConserved

-----------------------------------------------------------------------------
BreakersTyped == breaker \in [Breakers -> Breaker] /\ granted \in [Breakers -> Nat]
RequestsTyped == req \in [Requests -> [phase : Phases, route : Routes, attempt : 1..MaxAttempts]]
BucketsTyped == bucket \in [Buckets -> [left : Nat, window : Nat, count : Nat]]
PoolsTyped == pool \in [Pools -> Nat]

\* The type invariant, one variable at a time.
LEMMA Typing == TypeOK <=> BreakersTyped /\ RequestsTyped /\ BucketsTyped /\ PoolsTyped
BY DEF TypeOK, BreakersTyped, RequestsTyped, BucketsTyped, PoolsTyped

\* Who owes a release is told by route, phase and attempt.
LEMMA HoldsIsOwing ==
    \A q, p : Holds(q, p) <=> /\ p \in DOMAIN ConcurrencyLimit[req[q].route]
                              /\ Owing(req[q].phase, req[q].attempt)
BY DEF Holds, Owing

\* A move to another phase keeps route and attempt (MoveTo).
LEMMA MoveAsks ==
    ASSUME TypeOK, NEW q \in Requests, NEW phase, MoveTo(q, phase)
    PROVE  Asking(q, req[q].route, req[q].attempt, phase)
<1>1. req[q] \in [phase : Phases, route : Routes, attempt : 1..MaxAttempts]
  BY Typing DEF RequestsTyped
<1>2. [req[q] EXCEPT !.phase = phase] =
        [phase |-> phase, route |-> req[q].route, attempt |-> req[q].attempt]
  BY <1>1
<1>3. req' = [req EXCEPT ![q] = [req[q] EXCEPT !.phase = phase]]
  BY DEF MoveTo
<1> QED
  BY <1>2, <1>3 DEF Asking

\* What a request that moves becomes; the others stay.
LEMMA Asked ==
    ASSUME TypeOK, NEW q \in Requests, NEW route \in Routes, NEW phase \in Phases,
           NEW attempt \in 1..MaxAttempts, Asking(q, route, attempt, phase)
    PROVE  /\ RequestsTyped'
           /\ req'[q].phase = phase /\ req'[q].route = route /\ req'[q].attempt = attempt
           /\ \A o \in Requests \ {q} : req'[o] = req[o]
BY Typing DEF Asking, RequestsTyped

\* A request that moves without an admission or a release disturbs no counter.
LEMMA AskingKeeps ==
    ASSUME TypeOK, Retrying, ConcurrencyConserved, UNCHANGED pool,
           NEW q \in Requests, NEW route \in Routes, NEW phase \in Phases,
           NEW attempt \in 1..MaxAttempts, Asking(q, route, attempt, phase),
           phase = "backoff" => attempt < MaxAttempts,
           Owing(phase, attempt) <=> Owing(req[q].phase, req[q].attempt),
           Owing(phase, attempt) => route = req[q].route
    PROVE  RequestsTyped' /\ Retrying' /\ ConcurrencyConserved'
<1>1. /\ RequestsTyped'
      /\ req'[q].phase = phase /\ req'[q].route = route /\ req'[q].attempt = attempt
      /\ \A o \in Requests \ {q} : req'[o] = req[o]
  BY Asked
<1>2. Retrying'
  BY <1>1 DEF Retrying
<1>3. \A o \in Requests : \A p \in Pools : Holds(o, p)' <=> Holds(o, p)
  BY <1>1 DEF Holds, Owing
<1>4. \A p \in Pools : {o \in Requests : Holds(o, p)}' = {o \in Requests : Holds(o, p)}
  BY <1>3
<1>5. ConcurrencyConserved'
  BY <1>4 DEF ConcurrencyConserved
<1> QED
  BY <1>1, <1>2, <1>5

-----------------------------------------------------------------------------
(* The breaker.                                                            *)

\* One half-open slot more.
LEMMA TakeSlotKeeps ==
    ASSUME TypeOK, Period, NEW k \in Breakers, breaker[k].state = "half_open",
           breaker[k].inFlight < HalfOpenMax, TakeSlot(k)
    PROVE  BreakersTyped' /\ Period'
<1>1. /\ breaker[k] \in Breaker /\ breaker[k].inFlight + 1 \in 0..HalfOpenMax
      /\ granted[k] \in Nat /\ granted[k] = breaker[k].inFlight
  BY Typing, LimitsAssumption DEF BreakersTyped, Breaker, Period
<1>2. /\ breaker'[k].inFlight = breaker[k].inFlight + 1
      /\ breaker'[k].state = breaker[k].state /\ granted'[k] = granted[k] + 1
      /\ \A j \in Breakers \ {k} : breaker'[j] = breaker[j] /\ granted'[j] = granted[j]
  BY <1>1, Typing DEF BreakersTyped, Breaker, TakeSlot
<1>3. BreakersTyped'
  BY <1>1, Typing DEF BreakersTyped, Breaker, TakeSlot
<1>4. Period'
  BY <1>1, <1>2, LimitsAssumption DEF Period
<1> QED
  BY <1>3, <1>4

\* A new period begins.
LEMMA HalfOpenKeeps ==
    ASSUME TypeOK, Period, NEW k \in Breakers, HalfOpen(k)
    PROVE  BreakersTyped' /\ Period'
<1>1. breaker[k] \in Breaker /\ 0 \in 0..HalfOpenMax
  BY Typing, LimitsAssumption DEF BreakersTyped
<1>2. /\ breaker'[k].inFlight = 0 /\ granted'[k] = 0
      /\ \A j \in Breakers \ {k} : breaker'[j] = breaker[j] /\ granted'[j] = granted[j]
  BY <1>1, Typing DEF BreakersTyped, Breaker, HalfOpen
<1>3. BreakersTyped'
  BY <1>1, Typing DEF BreakersTyped, Breaker, HalfOpen
<1>4. Period'
  BY <1>2, LimitsAssumption DEF Period
<1> QED
  BY <1>3, <1>4

\* beforeAttempt from its check of the slots.
LEMMA EnterBreakerKeeps ==
    ASSUME TypeOK, Period, NEW q \in Requests, NEW route \in Routes, NEW attempt,
           EnterBreaker(q, route, attempt)
    PROVE  /\ BreakersTyped' /\ Period'
           /\ \E phase \in {AfterRefusal(attempt), AfterPass(attempt)} :
                 Asking(q, route, attempt, phase)
<1>1. BreakerOf[route] \in Breakers
  BY PolicyAssumption
<1>2. BreakersTyped' /\ Period'
  <2>1. CASE UNCHANGED <<breaker, granted>>
    BY <2>1, Typing DEF BreakersTyped, Period
  <2>2. CASE ~UNCHANGED <<breaker, granted>>
    BY <2>2, <1>1, TakeSlotKeeps DEF EnterBreaker
  <2> QED
    BY <2>1, <2>2
<1>3. \E phase \in {AfterRefusal(attempt), AfterPass(attempt)} : Asking(q, route, attempt, phase)
  BY DEF EnterBreaker
<1> QED
  BY <1>2, <1>3

\* beforeAttempt as a whole.
LEMMA BeforeAttemptKeeps ==
    ASSUME TypeOK, Period, NEW q \in Requests, NEW route \in Routes, NEW attempt,
           BeforeAttempt(q, route, attempt)
    PROVE  /\ BreakersTyped' /\ Period' /\ UNCHANGED <<bucket, pool>>
           /\ \E phase \in {AfterRefusal(attempt), AfterPass(attempt), "announcing"} :
                 Asking(q, route, attempt, phase)
<1>1. BreakerOf[route] \in Breakers
  BY PolicyAssumption
<1>2. CASE breaker[BreakerOf[route]].state # "open"
  <2>1. EnterBreaker(q, route, attempt)
    BY <1>2 DEF BeforeAttempt
  <2> QED
    BY <2>1, EnterBreakerKeeps DEF BeforeAttempt
<1>3. CASE breaker[BreakerOf[route]].state = "open" /\ ~Cooled(BreakerOf[route])
  BY <1>3, Typing DEF BeforeAttempt, BreakersTyped, Period
<1>4. CASE breaker[BreakerOf[route]].state = "open" /\ Cooled(BreakerOf[route])
  BY <1>1, <1>4, HalfOpenKeeps DEF BeforeAttempt
<1> QED
  BY <1>2, <1>3, <1>4

\* Where beforeAttempt leads is a phase; a first attempt owes no release there,
\* a later one does.
LEMMA AfterAsking ==
    ASSUME NEW attempt \in 1..MaxAttempts,
           NEW phase \in {AfterRefusal(attempt), AfterPass(attempt), "announcing"}
    PROVE  /\ phase \in Phases /\ phase # "backoff"
           /\ Owing(phase, attempt) <=> attempt > 1
BY LimitsAssumption DEF AfterRefusal, AfterPass, Phases, Owing

\* A success closes the breaker.
LEMMA CloseBreakerKeeps ==
    ASSUME TypeOK, Period, NEW k \in Breakers, CloseBreaker(k), UNCHANGED granted
    PROVE  BreakersTyped' /\ Period'
BY Typing, LimitsAssumption DEF BreakersTyped, Breaker, Period, CloseBreaker, ClosedBreaker

\* A failure opens the breaker, or is counted.
LEMMA FailureKeeps ==
    ASSUME TypeOK, Period, NEW k \in Breakers, UNCHANGED granted,
           (Trips(k) /\ OpenBreaker(k)) \/ (~Trips(k) /\ CountFailure(k))
    PROVE  BreakersTyped' /\ Period'
<1>1. Failures(k) \in 0..FailureThreshold
  BY Typing, LimitsAssumption DEF BreakersTyped, Breaker, Failures
<1>2. CASE Trips(k) /\ OpenBreaker(k)
  BY <1>1, <1>2, Typing, LimitsAssumption DEF BreakersTyped, Breaker, Period, OpenBreaker
<1>3. CASE ~Trips(k) /\ CountFailure(k)
  BY <1>1, <1>3, Typing, LimitsAssumption DEF BreakersTyped, Breaker, Period, CountFailure, Trips
<1> QED
  BY <1>2, <1>3

-----------------------------------------------------------------------------
(* Admission and release.                                                  *)

\* The bucket a request is charged in is a window of its route.
LEMMA WindowTyped ==
    ASSUME TypeOK, NEW b \in Buckets, NEW r \in Routes
    PROVE  Window(b, r) \in [left : Nat, window : Nat, count : Nat]
BY Typing, PolicyAssumption DEF BucketsTyped, Window

\* A request charged in a bucket adds one to its window.
LEMMA Charged ==
    ASSUME TypeOK, NEW r \in Routes, ChargeRate(r)
    PROVE  /\ BucketsTyped'
           /\ \A b \in DOMAIN RateLimit[r] :
                 /\ bucket'[b].left = Window(b, r).left
                 /\ bucket'[b].window = Window(b, r).window
                 /\ bucket'[b].count = Window(b, r).count + 1
           /\ \A b \in Buckets \ DOMAIN RateLimit[r] : bucket'[b] = bucket[b]
<1>1. DOMAIN RateLimit[r] \subseteq Buckets
  BY PolicyAssumption
<1>2. ASSUME NEW b \in DOMAIN RateLimit[r]
      PROVE  /\ bucket'[b].left = Window(b, r).left
             /\ bucket'[b].window = Window(b, r).window
             /\ bucket'[b].count = Window(b, r).count + 1
             /\ bucket'[b] \in [left : Nat, window : Nat, count : Nat]
  <2>1. Window(b, r) \in [left : Nat, window : Nat, count : Nat]
    BY <1>1, WindowTyped
  <2>2. bucket'[b] = [Window(b, r) EXCEPT !.count = @ + 1]
    BY <1>1 DEF ChargeRate
  <2> DEFINE w == Window(b, r)
  <2> HIDE DEF w
  <2>3. w \in [left : Nat, window : Nat, count : Nat] /\ bucket'[b] = [w EXCEPT !.count = @ + 1]
    BY <2>1, <2>2 DEF w
  <2>4. /\ bucket'[b].left = w.left /\ bucket'[b].window = w.window
        /\ bucket'[b].count = w.count + 1
        /\ bucket'[b] \in [left : Nat, window : Nat, count : Nat]
    BY <2>3
  <2> QED
    BY <2>4 DEF w
<1>3. \A b \in Buckets \ DOMAIN RateLimit[r] : bucket'[b] = bucket[b]
  BY DEF ChargeRate
<1>4. ASSUME NEW b \in Buckets PROVE bucket'[b] \in [left : Nat, window : Nat, count : Nat]
  <2>1. CASE b \in DOMAIN RateLimit[r]
    BY <2>1, <1>2
  <2>2. CASE b \notin DOMAIN RateLimit[r]
    BY <2>2, <1>3, Typing DEF BucketsTyped
  <2> QED
    BY <2>1, <2>2
<1>5. bucket' = [b \in Buckets |-> bucket'[b]]
  BY DEF ChargeRate
<1>6. BucketsTyped'
  BY <1>4, <1>5 DEF BucketsTyped
<1>7. \A b \in DOMAIN RateLimit[r] :
         /\ bucket'[b].left = Window(b, r).left
         /\ bucket'[b].window = Window(b, r).window
         /\ bucket'[b].count = Window(b, r).count + 1
  BY <1>2
<1> QED
  BY <1>3, <1>6, <1>7

\* One more of the finitely many requests owes a release.
LEMMA OneMore ==
    ASSUME NEW p, NEW q \in Requests, ~Holds(q, p), Holds(q, p)',
           \A o \in Requests \ {q} : Holds(o, p)' <=> Holds(o, p)
    PROVE  Cardinality({o \in Requests : Holds(o, p)})' =
             Cardinality({o \in Requests : Holds(o, p)}) + 1
<1>1. IsFiniteSet({o \in Requests : Holds(o, p)})
  BY FS_Subset, PolicyAssumption
<1>2. {o \in Requests : Holds(o, p)}' = {o \in Requests : Holds(o, p)} \cup {q}
  OBVIOUS
<1> QED
  BY <1>1, <1>2, FS_AddElement

\* One fewer does.
LEMMA OneFewer ==
    ASSUME NEW p, NEW q \in Requests, Holds(q, p), ~Holds(q, p)',
           \A o \in Requests \ {q} : Holds(o, p)' <=> Holds(o, p)
    PROVE  /\ Cardinality({o \in Requests : Holds(o, p)}) \in Nat \ {0}
           /\ Cardinality({o \in Requests : Holds(o, p)})' =
                Cardinality({o \in Requests : Holds(o, p)}) - 1
<1>1. IsFiniteSet({o \in Requests : Holds(o, p)})
  BY FS_Subset, PolicyAssumption
<1>2. {o \in Requests : Holds(o, p)}' = {o \in Requests : Holds(o, p)} \ {q}
  OBVIOUS
<1>3. {o \in Requests : Holds(o, p)} # {}
  OBVIOUS
<1>4. Cardinality({o \in Requests : Holds(o, p)}) \in Nat
  BY <1>1, FS_CardinalityType
<1>5. Cardinality({o \in Requests : Holds(o, p)}) # 0
  BY <1>1, <1>3, FS_EmptySet
<1>6. Cardinality({o \in Requests : Holds(o, p)} \ {q}) =
        Cardinality({o \in Requests : Holds(o, p)}) - 1
  BY <1>1, FS_RemoveElement
<1> QED
  BY <1>2, <1>4, <1>5, <1>6

\* The admission: a counter goes up with the request that it counts.
LEMMA AcquireKeeps ==
    ASSUME IInv, NEW q \in Requests, req[q].phase = "admitting",
           WithinConcurrency(req[q].route), Acquire(req[q].route), MoveTo(q, "admitted")
    PROVE  RequestsTyped' /\ PoolsTyped' /\ Retrying' /\ ConcurrencyConserved'
<1> DEFINE r == req[q].route
<1>1. r \in Routes /\ req[q].attempt \in 1..MaxAttempts /\ TypeOK
  BY Typing DEF IInv, RequestsTyped
<1>2. Asking(q, r, req[q].attempt, "admitted")
  BY <1>1, MoveAsks
<1>3. /\ RequestsTyped' /\ req'[q].phase = "admitted" /\ req'[q].route = r
      /\ \A o \in Requests \ {q} : req'[o] = req[o]
  BY <1>1, <1>2, Asked DEF Phases
<1>4. Retrying'
  BY <1>3 DEF IInv, Retrying
<1>5. /\ PoolsTyped'
      /\ \A p \in Pools :
           pool'[p] = IF p \in DOMAIN ConcurrencyLimit[r] THEN pool[p] + 1 ELSE pool[p]
  <2>1. PoolsTyped
    BY <1>1, Typing
  <2> QED
    BY <2>1 DEF PoolsTyped, Acquire
<1>6. ASSUME NEW p \in Pools
      PROVE  /\ pool'[p] = Cardinality({o \in Requests : Holds(o, p)})'
             /\ pool'[p] > 0 => \E s \in Routes : p \in DOMAIN ConcurrencyLimit[s]
                                                  /\ pool'[p] <= ConcurrencyLimit[s][p]
  <2>1. \A o \in Requests \ {q} : Holds(o, p)' <=> Holds(o, p)
    BY <1>3 DEF Holds
  <2>2. CASE p \in DOMAIN ConcurrencyLimit[r]
    <3>1. ~Holds(q, p) /\ Holds(q, p)'
      BY <2>2, <1>3 DEF Holds
    <3>2. pool'[p] <= ConcurrencyLimit[r][p]
      BY <1>5, <2>2 DEF WithinConcurrency
    <3> QED
      BY <1>1, <1>5, <2>1, <2>2, <3>1, <3>2, OneMore DEF IInv, ConcurrencyConserved
  <2>3. CASE p \notin DOMAIN ConcurrencyLimit[r]
    <3>1. ~Holds(q, p) /\ ~Holds(q, p)'
      BY <2>3, <1>3 DEF Holds
    <3>2. {o \in Requests : Holds(o, p)}' = {o \in Requests : Holds(o, p)}
      BY <2>1, <3>1
    <3> QED
      BY <1>5, <2>3, <3>2 DEF IInv, ConcurrencyConserved
  <2> QED
    BY <2>2, <2>3
<1>7. ConcurrencyConserved'
  BY <1>6 DEF ConcurrencyConserved
<1> QED
  BY <1>3, <1>4, <1>5, <1>7

\* The release: a counter goes down with the request that it counted, and
\* never meets the floor of the code.
LEMMA ReleaseKeeps ==
    ASSUME IInv, NEW q \in Requests, Release(q) PROVE IInv'
<1> DEFINE r == req[q].route
<1>1. r \in Routes /\ req[q].attempt \in 1..MaxAttempts /\ TypeOK /\ req[q].phase = "releasing"
  BY Typing DEF IInv, RequestsTyped, Release
<1>2. Asking(q, r, req[q].attempt, "idle")
  BY <1>1, MoveAsks DEF Release
<1>3. /\ RequestsTyped' /\ req'[q].phase = "idle"
      /\ \A o \in Requests \ {q} : req'[o] = req[o]
  BY <1>1, <1>2, Asked DEF Phases
<1>4. Retrying'
  BY <1>3 DEF IInv, Retrying
<1>5. \A p \in Pools : pool'[p] = IF p \in DOMAIN ConcurrencyLimit[r]
                                  THEN IF pool[p] <= 1 THEN 0 ELSE pool[p] - 1
                                  ELSE pool[p]
  BY DEF Release, ReleasePool
<1>6. PoolsTyped'
  BY <1>1, Typing DEF PoolsTyped, Release, ReleasePool
<1>7. ASSUME NEW p \in Pools
      PROVE  /\ pool'[p] = Cardinality({o \in Requests : Holds(o, p)})'
             /\ pool'[p] > 0 => \E s \in Routes : p \in DOMAIN ConcurrencyLimit[s]
                                                  /\ pool'[p] <= ConcurrencyLimit[s][p]
  <2>1. \A o \in Requests \ {q} : Holds(o, p)' <=> Holds(o, p)
    BY <1>3 DEF Holds
  <2>2. CASE p \in DOMAIN ConcurrencyLimit[r]
    <3>1. Holds(q, p) /\ ~Holds(q, p)'
      BY <2>2, <1>1, <1>3 DEF Holds
    <3>2. /\ pool[p] \in Nat \ {0}
          /\ Cardinality({o \in Requests : Holds(o, p)})' = pool[p] - 1
      <4>1. pool[p] = Cardinality({o \in Requests : Holds(o, p)})
        BY DEF IInv, ConcurrencyConserved
      <4> QED
        BY <4>1, <2>1, <3>1, OneFewer
    <3>3. PICK s \in Routes : p \in DOMAIN ConcurrencyLimit[s] /\ pool[p] <= ConcurrencyLimit[s][p]
      <4>1. pool[p] > 0
        BY <3>2
      <4>2. pool[p] > 0 => \E s \in Routes : /\ p \in DOMAIN ConcurrencyLimit[s]
                                            /\ pool[p] <= ConcurrencyLimit[s][p]
        BY DEF IInv, ConcurrencyConserved
      <4> QED
        BY <4>1, <4>2
    <3>4. ConcurrencyLimit[s][p] \in Nat /\ pool'[p] = pool[p] - 1
      BY <3>2, <3>3, <1>5, <2>2, PolicyAssumption
    <3> QED
      BY <3>2, <3>3, <3>4
  <2>3. CASE p \notin DOMAIN ConcurrencyLimit[r]
    <3>1. ~Holds(q, p) /\ ~Holds(q, p)'
      BY <2>3, <1>3 DEF Holds
    <3>2. {o \in Requests : Holds(o, p)}' = {o \in Requests : Holds(o, p)}
      BY <2>1, <3>1
    <3> QED
      BY <1>5, <2>3, <3>2 DEF IInv, ConcurrencyConserved
  <2> QED
    BY <2>2, <2>3
<1>8. ConcurrencyConserved'
  BY <1>7 DEF ConcurrencyConserved
<1>9. BreakersTyped' /\ BucketsTyped' /\ Period'
  BY <1>1, Typing DEF Release, IInv, Period, BreakersTyped, BucketsTyped
<1>10. TypeOK'
  BY <1>3, <1>6, <1>9, Typing DEF TypeOK, BreakersTyped, RequestsTyped, BucketsTyped, PoolsTyped
<1> QED
  BY <1>4, <1>8, <1>9, <1>10 DEF IInv

-----------------------------------------------------------------------------
(* Every step keeps the invariant.                                         *)

\* A handler that moves its request and touches neither counter nor window.
LEMMA MovingKeeps ==
    ASSUME IInv, BreakersTyped', Period', UNCHANGED <<bucket, pool>>,
           NEW q \in Requests, NEW route \in Routes, NEW phase \in Phases,
           NEW attempt \in 1..MaxAttempts, Asking(q, route, attempt, phase),
           phase = "backoff" => attempt < MaxAttempts,
           Owing(phase, attempt) <=> Owing(req[q].phase, req[q].attempt),
           Owing(phase, attempt) => route = req[q].route
    PROVE  IInv'
<1>1. TypeOK /\ Retrying /\ ConcurrencyConserved
  BY DEF IInv
<1>2. RequestsTyped' /\ Retrying' /\ ConcurrencyConserved'
  BY <1>1, AskingKeeps
<1>3. BucketsTyped' /\ PoolsTyped'
  BY <1>1, Typing DEF BucketsTyped, PoolsTyped
<1>4. TypeOK'
  BY <1>2, <1>3 DEF TypeOK, BreakersTyped, RequestsTyped, BucketsTyped, PoolsTyped
<1> QED
  BY <1>2, <1>4 DEF IInv

\* The same, of a request that goes on with its attempt and its release.
LEMMA GoingOnKeeps ==
    ASSUME IInv, BreakersTyped', Period', UNCHANGED <<bucket, pool>>,
           NEW q \in Requests, req[q].phase \notin {"idle", "announcing", "admitting"},
           NEW phase \in Phases \ {"idle", "announcing", "admitting"}, MoveTo(q, phase),
           phase = "backoff" => req[q].attempt < MaxAttempts
    PROVE  IInv'
<1>1. req[q].route \in Routes /\ req[q].attempt \in 1..MaxAttempts
  BY Typing DEF IInv, RequestsTyped
<1>2. Asking(q, req[q].route, req[q].attempt, phase)
  BY MoveAsks DEF IInv
<1>3. Owing(phase, req[q].attempt) /\ Owing(req[q].phase, req[q].attempt)
  BY DEF Owing
<1> QED
  BY <1>1, <1>2, <1>3, MovingKeeps

\* A request reaches admit and asks the breaker.
LEMMA ArriveKeeps ==
    ASSUME IInv, NEW q \in Requests, Arrive(q) PROVE IInv'
<1>1. PICK route \in Routes : BeforeAttempt(q, route, 1)
  BY DEF Arrive
<1>2. /\ BreakersTyped' /\ Period' /\ UNCHANGED <<bucket, pool>>
      /\ \E phase \in {AfterRefusal(1), AfterPass(1), "announcing"} : Asking(q, route, 1, phase)
  BY <1>1, BeforeAttemptKeeps DEF IInv
<1>3. PICK phase \in {AfterRefusal(1), AfterPass(1), "announcing"} : Asking(q, route, 1, phase)
  BY <1>2
<1>4. 1 \in 1..MaxAttempts
  BY LimitsAssumption
<1>5. phase \in Phases /\ phase # "backoff" /\ ~Owing(phase, 1)
  BY <1>4, AfterAsking
<1>6. ~Owing(req[q].phase, req[q].attempt)
  BY DEF Arrive, Owing
<1> QED
  BY <1>2, <1>3, <1>4, <1>5, <1>6, MovingKeeps

\* The half-open event is written, or its write throws.
LEMMA AnnouncedKeeps ==
    ASSUME IInv, NEW q \in Requests, Announced(q) PROVE IInv'
<1> DEFINE a == req[q].attempt
<1>1. req[q].route \in Routes /\ a \in 1..MaxAttempts /\ req[q].phase = "announcing"
  BY Typing DEF IInv, RequestsTyped, Announced
<1>2. /\ BreakersTyped' /\ Period'
      /\ \E phase \in {AfterRefusal(a), AfterPass(a)} : Asking(q, req[q].route, a, phase)
  <2>1. CASE EnterBreaker(q, req[q].route, a)
    BY <2>1, <1>1, EnterBreakerKeeps DEF IInv
  <2>2. CASE MoveTo(q, AfterRefusal(a)) /\ UNCHANGED <<breaker, granted>>
    BY <2>2, MoveAsks, Typing DEF IInv, BreakersTyped, Period
  <2> QED
    BY <2>1, <2>2 DEF Announced
<1>3. PICK phase \in {AfterRefusal(a), AfterPass(a)} : Asking(q, req[q].route, a, phase)
  BY <1>2
<1>4. phase \in Phases /\ phase # "backoff" /\ (Owing(phase, a) <=> a > 1)
  BY <1>1, AfterAsking
<1>5. Owing(req[q].phase, a) <=> a > 1
  BY <1>1 DEF Owing
<1>6. UNCHANGED <<bucket, pool>>
  BY DEF Announced
<1> QED
  BY <1>1, <1>2, <1>3, <1>4, <1>5, <1>6, MovingKeeps

\* The limits are enforced: the request is refused, or admitted.
LEMMA AdmitKeeps ==
    ASSUME IInv, NEW q \in Requests, Admit(q) PROVE IInv'
<1>1. /\ req[q].route \in Routes /\ req[q].attempt \in 1..MaxAttempts /\ TypeOK
      /\ req[q].phase = "admitting"
  BY Typing DEF IInv, RequestsTyped, Admit
<1>2. BreakersTyped' /\ Period'
  BY <1>1, Typing DEF Admit, IInv, Period, BreakersTyped
<1>3. BucketsTyped'
  <2>1. CASE UNCHANGED bucket
    BY <2>1, <1>1, Typing DEF BucketsTyped
  <2>2. CASE ChargeRate(req[q].route)
    BY <2>2, <1>1, Charged
  <2> QED
    BY <2>1, <2>2 DEF Admit
<1>4. RequestsTyped' /\ PoolsTyped' /\ Retrying' /\ ConcurrencyConserved'
  <2>1. CASE MoveTo(q, "idle") /\ UNCHANGED pool
    <3>1. Asking(q, req[q].route, req[q].attempt, "idle")
      BY <1>1, <2>1, MoveAsks
    <3>2. ~Owing("idle", req[q].attempt) /\ ~Owing(req[q].phase, req[q].attempt)
      BY <1>1 DEF Owing
    <3>3. "idle" \in Phases
      BY DEF Phases
    <3> QED
      BY <1>1, <2>1, <3>1, <3>2, <3>3, AskingKeeps, Typing DEF IInv, PoolsTyped
  <2>2. CASE /\ WithinConcurrency(req[q].route)
             /\ Acquire(req[q].route)
             /\ MoveTo(q, "admitted")
    BY <1>1, <2>2, AcquireKeeps
  <2> QED
    BY <2>1, <2>2 DEF Admit
<1>5. TypeOK'
  BY <1>2, <1>3, <1>4 DEF TypeOK, BreakersTyped, RequestsTyped, BucketsTyped, PoolsTyped
<1> QED
  BY <1>2, <1>4, <1>5 DEF IInv

\* A handler that leaves breaker, windows and counters alone moves on.
LEMMA IdleBreakers ==
    ASSUME IInv, UNCHANGED <<breaker, granted>> PROVE BreakersTyped' /\ Period'
BY Typing DEF IInv, BreakersTyped, Period

\* An admitted request is forwarded, or ends before its first attempt.
LEMMA LeaveKeeps ==
    ASSUME IInv, NEW q \in Requests, LeaveUnsent(q) \/ Forward(q) PROVE IInv'
<1>1. /\ UNCHANGED <<breaker, granted, bucket, pool>> /\ req[q].phase = "admitted"
      /\ \E phase \in {"releasing", "forwarding"} : MoveTo(q, phase)
  BY DEF LeaveUnsent, Forward
<1> QED
  BY <1>1, IdleBreakers, GoingOnKeeps DEF Phases

\* An attempt succeeds.
LEMMA AttemptSucceedsKeeps ==
    ASSUME IInv, NEW q \in Requests, AttemptSucceeds(q) PROVE IInv'
<1>1. BreakerKey(q) \in Breakers
  BY Typing, PolicyAssumption DEF IInv, RequestsTyped, BreakerKey
<1>2. BreakersTyped' /\ Period'
  BY <1>1, CloseBreakerKeeps DEF IInv, AttemptSucceeds
<1>3. /\ UNCHANGED <<bucket, pool>> /\ req[q].phase = "forwarding"
      /\ \E phase \in {"releasing", "recovering"} : MoveTo(q, phase)
  BY DEF AttemptSucceeds
<1> QED
  BY <1>2, <1>3, GoingOnKeeps DEF Phases

\* The recovery event is written, or its write throws into the attempt's catch.
LEMMA RecoveredKeeps ==
    ASSUME IInv, NEW q \in Requests, Recovered(q) PROVE IInv'
<1>1. /\ UNCHANGED <<breaker, granted, bucket, pool>> /\ req[q].phase = "recovering"
      /\ MoveTo(q, "releasing") \/ Asking(q, req[q].route, MaxAttempts, "failed")
  BY DEF Recovered
<1>2. BreakersTyped' /\ Period'
  BY <1>1, IdleBreakers
<1>3. CASE MoveTo(q, "releasing")
  BY <1>1, <1>2, <1>3, GoingOnKeeps DEF Phases
<1>4. CASE Asking(q, req[q].route, MaxAttempts, "failed")
  <2>1. req[q].route \in Routes /\ MaxAttempts \in 1..MaxAttempts
    BY Typing, LimitsAssumption DEF IInv, RequestsTyped
  <2>2. Owing("failed", MaxAttempts) /\ Owing(req[q].phase, req[q].attempt)
    BY <1>1 DEF Owing
  <2>3. "failed" \in Phases
    BY DEF Phases
  <2> QED
    BY <1>1, <1>2, <1>4, <2>1, <2>2, <2>3, MovingKeeps
<1> QED
  BY <1>1, <1>3, <1>4

\* A retry follows only while attempts are left.
LEMMA AfterFailurePhases ==
    ASSUME NEW q \in Requests, NEW phase \in AfterFailure(q)
    PROVE  /\ phase \in {"releasing", "backoff"}
           /\ phase = "backoff" => req[q].attempt < MaxAttempts
BY DEF AfterFailure

\* An attempt fails.
LEMMA AttemptFailsKeeps ==
    ASSUME IInv, NEW q \in Requests, AttemptFails(q) PROVE IInv'
<1>1. BreakerKey(q) \in Breakers
  BY Typing, PolicyAssumption DEF IInv, RequestsTyped, BreakerKey
<1>2. BreakersTyped' /\ Period'
  BY <1>1, FailureKeeps DEF IInv, AttemptFails
<1>3. /\ UNCHANGED <<bucket, pool>> /\ req[q].phase \in {"forwarding", "failed"}
      /\ \E phase \in {"opening"} \cup AfterFailure(q) : MoveTo(q, phase)
  BY DEF AttemptFails
<1>4. PICK phase \in {"opening"} \cup AfterFailure(q) : MoveTo(q, phase)
  BY <1>3
<1>5. /\ phase \in Phases \ {"idle", "announcing", "admitting"}
      /\ phase = "backoff" => req[q].attempt < MaxAttempts
  BY AfterFailurePhases DEF Phases
<1> QED
  BY <1>2, <1>3, <1>4, <1>5, GoingOnKeeps

\* The open event is written, or its write throws out of the loop.
LEMMA OpenedKeeps ==
    ASSUME IInv, NEW q \in Requests, Opened(q) PROVE IInv'
<1>1. /\ UNCHANGED <<breaker, granted, bucket, pool>> /\ req[q].phase = "opening"
      /\ \E phase \in {"releasing"} \cup AfterFailure(q) : MoveTo(q, phase)
  BY DEF Opened
<1>2. BreakersTyped' /\ Period'
  BY <1>1, IdleBreakers
<1>3. PICK phase \in {"releasing"} \cup AfterFailure(q) : MoveTo(q, phase)
  BY <1>1
<1>4. /\ phase \in Phases \ {"idle", "announcing", "admitting"}
      /\ phase = "backoff" => req[q].attempt < MaxAttempts
  BY AfterFailurePhases DEF Phases
<1> QED
  BY <1>1, <1>2, <1>3, <1>4, GoingOnKeeps

\* A retry asks the breaker, unless the client is gone.
LEMMA TryAgainKeeps ==
    ASSUME IInv, NEW q \in Requests, TryAgain(q) PROVE IInv'
<1> DEFINE a == req[q].attempt + 1
<1>1. /\ req[q].phase = "backoff" /\ req[q].route \in Routes
      /\ a \in 1..MaxAttempts /\ a > 1
  BY Typing, LimitsAssumption DEF IInv, RequestsTyped, TryAgain, Retrying
<1>2. Owing(req[q].phase, req[q].attempt)
  BY <1>1 DEF Owing
<1>3. CASE MoveTo(q, "releasing") /\ UNCHANGED <<breaker, bucket, pool, granted>>
  BY <1>1, <1>3, IdleBreakers, GoingOnKeeps DEF Phases
<1>4. CASE BeforeAttempt(q, req[q].route, a)
  <2>1. /\ BreakersTyped' /\ Period' /\ UNCHANGED <<bucket, pool>>
        /\ \E phase \in {AfterRefusal(a), AfterPass(a), "announcing"} :
              Asking(q, req[q].route, a, phase)
    BY <1>1, <1>4, BeforeAttemptKeeps DEF IInv
  <2>2. PICK phase \in {AfterRefusal(a), AfterPass(a), "announcing"} :
              Asking(q, req[q].route, a, phase)
    BY <2>1
  <2>3. phase \in Phases /\ phase # "backoff" /\ Owing(phase, a)
    BY <1>1, AfterAsking
  <2> HIDE DEF a
  <2> QED
    BY <1>1, <1>2, <2>1, <2>2, <2>3, MovingKeeps
<1> QED
  BY <1>3, <1>4 DEF TryAgain

\* Time passes: an open breaker ages, a window runs.
LEMMA TickKeeps ==
    ASSUME IInv, Tick PROVE IInv'
<1>1. \A k \in Breakers : Aged(k) \in Breaker /\ Aged(k).state = breaker[k].state
                          /\ Aged(k).inFlight = breaker[k].inFlight
  BY Typing, LimitsAssumption DEF IInv, BreakersTyped, Breaker, Aged
<1>2. BreakersTyped' /\ Period'
  BY <1>1, Typing DEF IInv, BreakersTyped, Period, Tick
<1>3. \A b \in Buckets : Elapsed(b) \in [left : Nat, window : Nat, count : Nat]
  BY Typing DEF IInv, BucketsTyped, Elapsed, NoWindow
<1>4. BucketsTyped'
  BY <1>3 DEF BucketsTyped, Tick
<1>5. RequestsTyped' /\ PoolsTyped' /\ Retrying'
  BY Typing DEF IInv, RequestsTyped, PoolsTyped, Retrying, Tick
<1>6. ConcurrencyConserved'
  BY DEF IInv, ConcurrencyConserved, Holds, Tick
<1>7. TypeOK'
  BY <1>2, <1>4, <1>5 DEF TypeOK, BreakersTyped, RequestsTyped, BucketsTyped, PoolsTyped
<1> QED
  BY <1>2, <1>5, <1>6, <1>7 DEF IInv

\* Every step keeps the invariant.
LEMMA InvariantStep == IInv /\ [Next]_vars => IInv'
<1> SUFFICES ASSUME IInv, [Next]_vars PROVE IInv'
  OBVIOUS
<1>1. ASSUME NEW q \in Requests, Arrive(q) \/ Serve(q) PROVE IInv'
  BY <1>1, ArriveKeeps, AnnouncedKeeps, AdmitKeeps, LeaveKeeps, AttemptSucceedsKeeps,
     RecoveredKeeps, AttemptFailsKeeps, OpenedKeeps, TryAgainKeeps, ReleaseKeeps DEF Serve
<1>2. CASE UNCHANGED vars
  BY <1>2 DEF vars, IInv, TypeOK, Retrying, Period, ConcurrencyConserved, Holds
<1> QED
  BY <1>1, <1>2, TickKeeps DEF Next

\* At first no request is in the handlers.
LEMMA InvariantInit == Init => IInv
<1> SUFFICES ASSUME Init PROVE IInv
  OBVIOUS
<1>1. TypeOK
  BY LimitsAssumption
     DEF Init, TypeOK, ClosedBreaker, NoWindow, Breaker, Phases
<1>2. \A q \in Requests : req[q].phase = "idle"
  BY DEF Init
<1>3. Retrying /\ Period
  BY <1>2, LimitsAssumption DEF Init, Retrying, Period, ClosedBreaker
<1>4. \A p \in Pools : {q \in Requests : Holds(q, p)} = {}
  BY <1>2 DEF Holds
<1>5. \A p \in Pools : Cardinality({q \in Requests : Holds(q, p)}) = 0
  BY <1>4, FS_EmptySet
<1>6. \A p \in Pools : pool[p] = 0
  BY DEF Init
<1>7. ConcurrencyConserved
  BY <1>5, <1>6 DEF ConcurrencyConserved
<1> QED
  BY <1>1, <1>3, <1>7 DEF IInv

\* The invariant holds in every reachable state.
LEMMA InvariantHolds == Spec => []IInv
BY InvariantInit, InvariantStep, PTL DEF Spec

\* No counter, window or breaker of the traffic control leaves its range.
THEOREM TypeCorrect == Spec => []TypeOK
<1>1. IInv => TypeOK
  BY DEF IInv
<1> QED
  BY <1>1, InvariantHolds, PTL

\* A concurrency counter is the number of admitted requests that have not left,
\* by whatever way they leave the forwarding loop.
THEOREM ConcurrencyConservedHolds == Spec => []ConcurrencyConserved
<1>1. IInv => ConcurrencyConserved
  BY DEF IInv
<1> QED
  BY <1>1, InvariantHolds, PTL

\* A half-open period gives out no more slots than configured, whoever resumes
\* in it and whatever late outcomes arrive.
THEOREM PeriodBoundedHolds == Spec => []PeriodBounded
<1>1. IInv => PeriodBounded
  BY DEF IInv, Period, PeriodBounded
<1> QED
  BY <1>1, InvariantHolds, PTL

-----------------------------------------------------------------------------
(* The rate windows.                                                       *)

\* A request is charged in the windows as they are.
LEMMA ChargeHolds ==
    ASSUME TypeOK, NEW r \in Routes, WithinRate(r), ChargeRate(r)
    PROVE  /\ \A b \in Buckets : Live(b) =>
                /\ bucket'[b].left = bucket[b].left /\ bucket'[b].window = bucket[b].window
                /\ bucket'[b].count >= bucket[b].count
           /\ \A b \in DOMAIN RateLimit[r] : bucket'[b].count = Window(b, r).count + 1
<1>1. \A b \in Buckets : bucket[b].count \in Nat
  BY Typing DEF BucketsTyped
<1>2. \A b \in Buckets : Live(b) => Window(b, r) = bucket[b]
  BY DEF Window
<1>3. ASSUME NEW b \in Buckets, Live(b)
      PROVE  /\ bucket'[b].left = bucket[b].left /\ bucket'[b].window = bucket[b].window
             /\ bucket'[b].count >= bucket[b].count
  <2>1. CASE b \in DOMAIN RateLimit[r]
    BY <2>1, <1>1, <1>2, <1>3, Charged
  <2>2. CASE b \notin DOMAIN RateLimit[r]
    BY <2>2, <1>1, Charged
  <2> QED
    BY <2>1, <2>2
<1> QED
  BY <1>3, Charged

\* A live window keeps deadline and count until it ends, and a request is
\* counted in all of its windows or in none.
THEOREM WindowHeldHolds == Spec => WindowHeld
<1> DEFINE Held ==
      /\ \A b \in Buckets : Live(b) /\ bucket'[b] # NoWindow =>
            /\ bucket'[b].left \in {bucket[b].left, bucket[b].left - 1}
            /\ bucket'[b].window = bucket[b].window
            /\ bucket'[b].count >= bucket[b].count
      /\ \A q \in Requests : req[q].phase = "admitting" /\ req'[q] # req[q] =>
            \/ bucket' = bucket
            \/ \A b \in DOMAIN RateLimit[req[q].route] :
                  bucket'[b].count = Window(b, req[q].route).count + 1
<1>1. ASSUME IInv, [Next]_vars PROVE Held
  <2>1. \A b \in Buckets : bucket[b].count \in Nat
    BY <1>1, Typing DEF IInv, BucketsTyped
  <2>2. CASE UNCHANGED bucket
    BY <2>1, <2>2
  <2>3. CASE Tick
    <3>1. \A b \in Buckets : Live(b) /\ bucket'[b] # NoWindow =>
            /\ bucket'[b].left \in {bucket[b].left, bucket[b].left - 1}
            /\ bucket'[b].window = bucket[b].window
            /\ bucket'[b].count >= bucket[b].count
      BY <1>1, <2>1, <2>3, Typing DEF IInv, BucketsTyped, Tick, Elapsed
    <3>2. UNCHANGED req
      BY <2>3 DEF Tick
    <3> QED
      BY <3>1, <3>2
  <2>4. ASSUME NEW q \in Requests, Admit(q), ~UNCHANGED bucket PROVE Held
    <3>1. /\ req[q].route \in Routes /\ TypeOK
          /\ WithinRate(req[q].route) /\ ChargeRate(req[q].route)
          /\ \E phase : MoveTo(q, phase)
      BY <1>1, <2>4, Typing DEF IInv, RequestsTyped, Admit
    <3>2. \A o \in Requests \ {q} : req'[o] = req[o]
      BY <3>1, Typing DEF MoveTo, RequestsTyped
    <3> QED
      BY <3>1, <3>2, ChargeHolds
  <2>5. ASSUME NEW q \in Requests, Arrive(q) \/ Serve(q), ~Admit(q) PROVE UNCHANGED bucket
    BY <2>5 DEF Arrive, Serve, BeforeAttempt, Announced, LeaveUnsent, Forward, AttemptSucceeds,
                Recovered, AttemptFails, Opened, TryAgain, Release
  <2> QED
    BY <1>1, <2>2, <2>3, <2>4, <2>5 DEF Next, vars
<1>2. IInv /\ [Next]_vars => [Held]_vars
  BY <1>1
<1> QED
  BY <1>2, InvariantHolds, PTL DEF Spec, WindowHeld
=============================================================================
