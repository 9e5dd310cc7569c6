------------------------------ MODULE Delivery ------------------------------
(***************************************************************************)
(* Webhook delivery of the call observability events:                      *)
(*   call-observability-delivery.worker.ts     claim, preflight, send,     *)
(*                                             complete                    *)
(*   call-observability-subscriptions.service.ts  update and remove        *)
(*   call-observability-deliveries.service.ts     createTest, manual retry *)
(*                                                                         *)
(* A store transaction is one action; a worker's wave spans four of them   *)
(* with DNS, an authorization read and HTTP in between, while other        *)
(* workers, administrators and the clock go on.                            *)
(*                                                                         *)
(* Time is a choice: a lease runs low, then over; a retry falls due; an    *)
(* event expires.  A lease whose worker has lost its wave may be over at   *)
(* once.  Only remove() revokes revisions, and it revokes all of them, so  *)
(* a revision is revoked exactly when its subscription is deleted.         *)
(*                                                                         *)
(* Operators that precede a definition and that nothing uses (MatchesStatus*)
(* before Matches, ...) are slips of that definition: substituted for it,  *)
(* each makes a property fail.                                             *)
(***************************************************************************)
EXTENDS Naturals, Sequences, FiniteSets, SequencesExt

CONSTANTS
    Workers,        \* processes that run the delivery worker
    Subs,           \* subscriptions
    Deliveries,     \* delivery rows that may come to exist
    SubOf,          \* the subscription of a delivery
    Window,         \* rows one claim reads: take(32)
    Wave,           \* SEND_CONCURRENCY
    MaxAttempts,    \* MAX_ATTEMPTS
    MaxReplays,     \* bound: manual retries of a delivery
    MaxUpdates,     \* bound: versions of a subscription
    MaxStalls,      \* bound: worker stalls that use up a lease, and stops
    None

ASSUME DeliveryAssumption ==
    /\ SubOf \in [Deliveries -> Subs]
    /\ Window \in Nat \ {0} /\ Wave \in Nat \ {0} /\ MaxAttempts \in Nat \ {0}
    /\ MaxReplays \in Nat /\ MaxUpdates \in Nat /\ MaxStalls \in Nat
    /\ None \notin Workers

VARIABLES
    sub,        \* subscription rows: state and version
    authorized, \* the owner's role still covers the subscription
    row,        \* delivery rows
    due,        \* deliveries with nextAttemptAt <= now, in the order of nextAttemptAt
    expired,    \* what has expired of a delivery: its event, its row
    attempts,   \* attempt rows of a delivery, by attemptNo
    pc,         \* a worker's step
    stopping,   \* a worker's stopping flag
    wave,       \* a worker's claims: a function on the deliveries it claimed
    granted,    \* subscriptions whose authorization the wave has read
    posts,      \* history: requests sent in the current replay generation
    abandoned,  \* history: claims of the current generation lost with their worker
    base,       \* history: attemptCount at the start of the current generation
    stalls      \* bound: stalls and stops so far

tables  == <<sub, authorized, row, due, expired, attempts>>
history == <<posts, abandoned, base>>
workers == <<pc, stopping, wave, granted>>
vars == <<tables, workers, history, stalls>>

Active == {"pending", "in_flight", "retry_wait"}
Settled == {"succeeded", "dead", "cancelled"}
Fates == Settled \cup {"claimed", "send", "posted", "retry", "deferred"}

Claims ==
    [version : Nat, attemptNo : Nat, generation : Nat, genAttempt : Nat,
     prevStatus : {"pending", "retry_wait"}, prevAttempt : Nat,
     lease : {"ample", "low", "over"}, fate : Fates]

Row ==
    [status : Active \cup Settled \cup {"none"}, version : Nat, owner : Workers \cup {None},
     generation : Nat, attemptCount : Nat, genAttempt : Nat]

TablesTyped ==
    /\ sub \in [Subs -> [state : {"enabled", "paused", "deleted"}, version : Nat]]
    /\ authorized \in [Subs -> BOOLEAN]
    /\ row \in [Deliveries -> Row]
    /\ expired \in [Deliveries -> SUBSET {"event", "row"}]
    /\ attempts \in [Deliveries -> Seq(Nat)]

WavesTyped ==
    /\ pc \in [Workers -> {"idle", "claimed", "authorized", "sending"}]
    /\ stopping \in [Workers -> BOOLEAN]
    /\ DOMAIN wave = Workers
    /\ \A w \in Workers :
          /\ DOMAIN wave[w] \subseteq Deliveries
          /\ wave[w] \in [DOMAIN wave[w] -> Claims]
    /\ granted \in [Workers -> SUBSET Subs]

(* Typing: rows hold the states and counters their entity allows, a wave only *)
(* claims of existing deliveries.                                             *)
TypeOK ==
    /\ TablesTyped /\ WavesTyped
    /\ due \in Seq(Deliveries)
    /\ posts \in [Deliveries -> Nat] /\ abandoned \in [Deliveries -> Nat]
    /\ base \in [Deliveries -> Nat]
    /\ stalls \in Nat

NoClaims == [d \in {} |-> None]

Init ==
    /\ sub = [s \in Subs |-> [state |-> "enabled", version |-> 1]]
    /\ authorized = [s \in Subs |-> TRUE]
    /\ row = [d \in Deliveries |-> [status |-> "none", version |-> 0, owner |-> None,
                                    generation |-> 0, attemptCount |-> 0, genAttempt |-> 0]]
    /\ due = <<>>
    /\ expired = [d \in Deliveries |-> {}]
    /\ attempts = [d \in Deliveries |-> <<>>]
    /\ pc = [w \in Workers |-> "idle"] /\ stopping = [w \in Workers |-> FALSE]
    /\ wave = [w \in Workers |-> NoClaims] /\ granted = [w \in Workers |-> {}]
    /\ posts = [d \in Deliveries |-> 0] /\ abandoned = [d \in Deliveries |-> 0]
    /\ base = [d \in Deliveries |-> 0]
    /\ stalls = 0

-----------------------------------------------------------------------------
(* matchesClaim: the row is still the one this claim wrote. *)
MatchesStatus(w, d) == row[d].status = "in_flight"
Matches(w, d) ==
    /\ row[d].status = "in_flight"
    /\ row[d].owner = w
    /\ row[d].version = wave[w][d].version
    /\ row[d].generation = wave[w][d].generation
    /\ row[d].attemptCount + 1 = wave[w][d].attemptNo

State(d) == sub[SubOf[d]].state
Without(D) == SelectSeq(due, LAMBDA d : d \notin D)

(* A claim in flight may be taken over once its lease is over. *)
LeaseOver(d) ==
    \A w \in Workers :
        d \in DOMAIN wave[w] /\ Matches(w, d) => wave[w][d].lease = "over"

-----------------------------------------------------------------------------
(* Administration. *)

(* createTest, or an event materialized by the outbox. *)
Enqueue(d) ==
    /\ row[d].status = "none"
    /\ State(d) # "deleted"
    /\ row' = [row EXCEPT ![d].status = "pending", ![d].version = 1]
    /\ due' = Append(due, d)
    /\ UNCHANGED <<sub, authorized, expired, attempts, workers, history, stalls>>

(* update(): pause or resume; the deliveries keep their rows. *)
UpdateSubscription(s) ==
    /\ sub[s].state # "deleted"
    /\ sub[s].version < MaxUpdates
    /\ sub' = [sub EXCEPT ![s] =
                 [state   |-> IF @.state = "enabled" THEN "paused" ELSE "enabled",
                  version |-> @.version + 1]]
    /\ UNCHANGED <<authorized, row, due, expired, attempts, workers, history, stalls>>

(* remove(): revokes every revision and cancels what is not settled. *)
ReadyOnly == {"pending", "retry_wait"}
Cancellable == Active
CancelledRow(d) ==
    [row[d] EXCEPT !.status = "cancelled", !.owner = None, !.version = @ + 1, !.genAttempt = 0]
RemoveSubscription(s) ==
    /\ sub[s].state # "deleted"
    /\ sub' = [sub EXCEPT ![s] = [state |-> "deleted", version |-> @.version + 1]]
    /\ LET cancelled == {d \in Deliveries : SubOf[d] = s /\ row[d].status \in Cancellable}
       IN /\ row' = [d \in Deliveries |->
                       IF d \in cancelled
                       THEN CancelledRow(d) ELSE row[d]]
          /\ due' = Without(cancelled)
    /\ UNCHANGED <<authorized, expired, attempts, workers, history, stalls>>

(* retryDelivery(): a dead or cancelled delivery becomes another generation.  *)
(* A revision of a deleted subscription is revoked; a cancelled delivery goes *)
(* on only under the current revision of an enabled subscription.             *)
RetriedRow(d) ==
    [row[d] EXCEPT !.status = "pending", !.version = @ + 1, !.generation = @ + 1,
                   !.owner = None, !.genAttempt = 0]
ManualRetry(d) ==
    /\ row[d].status \in {"dead", "cancelled"}
    /\ row[d].generation < MaxReplays
    /\ "event" \notin expired[d]
    /\ State(d) # "deleted"
    /\ row[d].status = "cancelled" => State(d) = "enabled"
    /\ row' = [row EXCEPT ![d] = RetriedRow(d)]
    /\ due' = Append(due, d)
    /\ posts' = [posts EXCEPT ![d] = 0]
    /\ abandoned' = [abandoned EXCEPT ![d] = 0]
    /\ base' = [base EXCEPT ![d] = row[d].attemptCount]
    /\ UNCHANGED <<sub, authorized, expired, attempts, workers, stalls>>

(* The owner's role loses or regains the subscription's scope. *)
ChangeRole(s) ==
    /\ authorized' = [authorized EXCEPT ![s] = ~@]
    /\ UNCHANGED <<sub, row, due, expired, attempts, workers, history, stalls>>

-----------------------------------------------------------------------------
(* Time. *)

Expire(d, part) ==
    /\ row[d].status # "none"
    /\ part \notin expired[d]
    /\ expired' = [expired EXCEPT ![d] = @ \cup {part}]
    /\ UNCHANGED <<sub, authorized, row, due, attempts, workers, history, stalls>>

FallDue(d) ==
    /\ row[d].status = "retry_wait"
    /\ ~Contains(due, d)
    /\ due' = Append(due, d)
    /\ UNCHANGED <<sub, authorized, row, expired, attempts, workers, history, stalls>>

(* A worker that stalls uses up the lease of a claim: first the reserve is *)
(* all that is left, then nothing.                                         *)
LeaseRuns(w, d) ==
    /\ d \in DOMAIN wave[w]
    /\ \/ /\ wave[w][d].lease = "ample" /\ stalls < MaxStalls
          /\ wave' = [wave EXCEPT ![w][d].lease = "low"]
          /\ stalls' = stalls + 1
       \/ /\ wave[w][d].lease = "low"
          /\ wave' = [wave EXCEPT ![w][d].lease = "over"]
          /\ UNCHANGED stalls
    /\ UNCHANGED <<tables, pc, stopping, granted, history>>

-----------------------------------------------------------------------------
(* The worker: one wave of run(). *)

(* claimBatch reads the first rows that are due, whatever their subscription. *)
ReadyRow(d) == "row" \notin expired[d] /\ row[d].status \in {"pending", "retry_wait"}
Claimable(d) ==
    /\ "row" \notin expired[d]
    /\ \/ row[d].status \in {"pending", "retry_wait"}
       \/ row[d].status = "in_flight" /\ LeaseOver(d)

Before(d, e) == \E j \in DOMAIN due : due[j] = e /\ \E i \in 1..(j - 1) : due[i] = d
First(n, D) == {d \in D : Cardinality({e \in D : Before(e, d)}) < n}

Candidates == First(Window, {d \in Deliveries : Contains(due, d) /\ Claimable(d)})

Verdict(d) ==
    CASE State(d) = "deleted" -> "cancelled"
      [] State(d) = "paused" -> "skip"
      [] State(d) = "enabled" /\ "event" \in expired[d] -> "dead"
      [] State(d) = "enabled" /\ "event" \notin expired[d] ->
            IF row[d].genAttempt + 1 > MaxAttempts THEN "dead" ELSE "claim"

Taken == First(Wave, {d \in Candidates : Verdict(d) = "claim"})

(* The loop stops at the claim that fills the wave: a candidate is reached if *)
(* the ones before it leave room.                                             *)
Closed == {d \in Candidates :
             /\ Verdict(d) \in {"cancelled", "dead"}
             /\ Cardinality({e \in Taken : Before(e, d)}) < Wave}

(* A claim uses up one attempt of the generation; only deferral gives it back. *)
UncountedClaim(d) == IF row[d].status = "in_flight" THEN row[d].genAttempt
                     ELSE row[d].genAttempt + 1
ClaimAttempt(d) == row[d].genAttempt + 1

ClaimedRow(w, d) ==
    [row[d] EXCEPT !.status = "in_flight", !.owner = w, !.version = @ + 1,
                   !.genAttempt = ClaimAttempt(d)]
ClosedRow(d) ==
    [row[d] EXCEPT !.status = Verdict(d), !.owner = None, !.version = @ + 1, !.genAttempt = 0]
NewClaim(d) ==
    [version |-> row[d].version + 1, attemptNo |-> row[d].attemptCount + 1,
     generation |-> row[d].generation, genAttempt |-> ClaimAttempt(d),
     prevStatus |-> IF row[d].status = "retry_wait" THEN "retry_wait" ELSE "pending",
     prevAttempt |-> row[d].genAttempt, lease |-> "ample", fate |-> "claimed"]

Claim(w) ==
    /\ pc[w] = "idle" /\ ~stopping[w]
    /\ Taken # {} \/ Closed # {}
    /\ row' = [d \in Deliveries |-> IF d \in Taken THEN ClaimedRow(w, d)
                                   ELSE IF d \in Closed THEN ClosedRow(d) ELSE row[d]]
    /\ due' = Without(Closed)
    /\ wave' = [wave EXCEPT ![w] = [d \in Taken |-> NewClaim(d)]]
    /\ abandoned' = [d \in Deliveries |->
          IF d \in Taken /\ row[d].status = "in_flight" THEN abandoned[d] + 1 ELSE abandoned[d]]
    /\ pc' = [pc EXCEPT ![w] = IF Taken = {} THEN "idle" ELSE "claimed"]
    /\ UNCHANGED <<sub, authorized, expired, attempts, stopping, granted, posts, base, stalls>>

(* authorization(): the owners' roles, read before the preflight snapshot. *)
Authorize(w) ==
    /\ pc[w] = "claimed"
    /\ granted' = [granted EXCEPT ![w] =
                     {s \in Subs : authorized[s] /\ \E d \in DOMAIN wave[w] : SubOf[d] = s}]
    /\ pc' = [pc EXCEPT ![w] = "authorized"]
    /\ UNCHANGED <<tables, wave, stopping, history, stalls>>

(* preflightBatch, or else what prepare() came to: an address or a secret that *)
(* is refused, a failed lookup, or a request ready to be sent.                 *)
Preflight(w, d, prepared) ==
    CASE ~Matches(w, d) -> "deferred"
      [] Matches(w, d) /\ State(d) = "deleted" -> "cancelled"
      [] Matches(w, d) /\ State(d) # "deleted" /\ SubOf[d] \notin granted[w] -> "cancelled"
      [] OTHER ->
            IF expired[d] # {} THEN "dead"
            ELSE IF State(d) = "paused" \/ stopping[w] \/ wave[w][d].lease # "ample"
                 THEN "deferred" ELSE prepared

PreflightBatch(w) ==
    /\ pc[w] = "authorized"
    /\ \E prepared \in [DOMAIN wave[w] -> {"send", "retry", "dead"}] :
          wave' = [wave EXCEPT ![w] = [d \in DOMAIN @ |->
                     [@[d] EXCEPT !.fate = Preflight(w, d, prepared[d])]]]
    /\ pc' = [pc EXCEPT ![w] = "sending"]
    /\ UNCHANGED <<tables, stopping, granted, history, stalls>>

(* sendPrepared: the checks right before the request goes out. *)
SendRegardless(w, d) == TRUE
LeaseAllows(w, d) == ~stopping[w] /\ wave[w][d].lease = "ample"

Send(w, d) ==
    /\ d \in DOMAIN wave[w] /\ wave[w][d].fate = "send"
    /\ LET fate == IF expired[d] # {} THEN "dead"
                   ELSE IF ~LeaseAllows(w, d) THEN "deferred" ELSE "posted"
       IN /\ wave' = [wave EXCEPT ![w][d].fate = fate]
          /\ posts' = IF fate = "posted" THEN [posts EXCEPT ![d] = @ + 1] ELSE posts
    /\ UNCHANGED <<tables, pc, stopping, granted, abandoned, base, stalls>>

(* The receiver's response, or the failure of the request. *)
Answer(w, d, result) ==
    /\ d \in DOMAIN wave[w] /\ wave[w][d].fate = "posted"
    /\ wave' = [wave EXCEPT ![w][d].fate = result]
    /\ UNCHANGED <<tables, pc, stopping, granted, history, stalls>>

(* completeBatch.  "late" are the retries whose delay passes their deadline. *)
FinalStatus(c, late) ==
    IF c.fate # "retry" THEN c.fate
    ELSE IF c.genAttempt >= MaxAttempts \/ late THEN "dead" ELSE "retry_wait"

DeferCounted(c) == c.genAttempt
DeferAttempt(c) == c.prevAttempt

Completed(r, c, late) ==
    IF c.fate = "deferred"
    THEN [r EXCEPT !.status = c.prevStatus, !.owner = None, !.version = @ + 1,
                   !.genAttempt = DeferAttempt(c)]
    ELSE LET status == FinalStatus(c, late)
         IN [r EXCEPT !.status = status, !.owner = None, !.version = @ + 1,
                      !.genAttempt = IF status = "succeeded" THEN 0 ELSE c.genAttempt,
                      !.attemptCount = c.attemptNo]

CompleteBatch(w) ==
    /\ pc[w] = "sending"
    /\ \A d \in DOMAIN wave[w] : wave[w][d].fate \in Settled \cup {"retry", "deferred"}
    /\ LET mine == {d \in DOMAIN wave[w] : Matches(w, d)}
           tried == {d \in mine : wave[w][d].fate # "deferred"}
       IN /\ \E late \in SUBSET {d \in mine : wave[w][d].fate = "retry"} :
                row' = [d \in Deliveries |->
                          IF d \in mine THEN Completed(row[d], wave[w][d], d \in late) ELSE row[d]]
          /\ attempts' = [d \in Deliveries |->
                IF d \in tried THEN Append(attempts[d], wave[w][d].attemptNo) ELSE attempts[d]]
          /\ due' = Without(tried)
    /\ wave' = [wave EXCEPT ![w] = NoClaims]
    /\ granted' = [granted EXCEPT ![w] = {}]
    /\ pc' = [pc EXCEPT ![w] = "idle"]
    /\ UNCHANGED <<sub, authorized, expired, stopping, history, stalls>>

(* The process dies, or a transaction of the wave fails and run() throws. *)
LoseWave(w) ==
    /\ pc[w] # "idle"
    /\ pc' = [pc EXCEPT ![w] = "idle"]
    /\ wave' = [wave EXCEPT ![w] = NoClaims]
    /\ granted' = [granted EXCEPT ![w] = {}]
    /\ UNCHANGED <<tables, stopping, history, stalls>>

(* onModuleDestroy waits for the wave; the next process starts afresh. *)
Stop(w) ==
    /\ ~stopping[w] /\ stalls < MaxStalls
    /\ stopping' = [stopping EXCEPT ![w] = TRUE]
    /\ stalls' = stalls + 1
    /\ UNCHANGED <<tables, pc, wave, granted, history>>

Restart(w) ==
    /\ stopping[w] /\ pc[w] = "idle"
    /\ stopping' = [stopping EXCEPT ![w] = FALSE]
    /\ UNCHANGED <<tables, pc, wave, granted, history, stalls>>

-----------------------------------------------------------------------------
Answers == {"succeeded", "retry", "dead"}

WaveStep(w) ==
    \/ Authorize(w) \/ PreflightBatch(w) \/ CompleteBatch(w)
    \/ \E d \in DOMAIN wave[w] :
          Send(w, d) \/ \E result \in Answers : Answer(w, d, result)

Next ==
    \/ \E d \in Deliveries :
          \/ Enqueue(d) \/ ManualRetry(d) \/ FallDue(d)
          \/ \E part \in {"event", "row"} : Expire(d, part)
    \/ \E s \in Subs : UpdateSubscription(s) \/ RemoveSubscription(s) \/ ChangeRole(s)
    \/ \E w \in Workers :
          \/ Claim(w) \/ WaveStep(w) \/ LoseWave(w) \/ Stop(w) \/ Restart(w)
          \/ \E d \in DOMAIN wave[w] : LeaseRuns(w, d)

Spec == Init /\ [][Next]_vars

(* Fairness: a worker keeps ticking and carries its wave through unless it is  *)
(* lost (post() has an absolute deadline, so a request always ends); a stopped *)
(* process is started again; backoff ends.  Nobody promises an administrator.  *)
Fairness ==
    /\ \A w \in Workers : WF_vars(Claim(w)) /\ WF_vars(WaveStep(w)) /\ WF_vars(Restart(w))
    /\ \A d \in Deliveries : WF_vars(FallDue(d))

FairSpec == Spec /\ Fairness

-----------------------------------------------------------------------------
(* Properties. *)

(* The attempt history of a delivery is 1, 2, ..., attemptCount: no worker     *)
(* that lost its claim adds a row, and no attempt is lost or numbered twice,   *)
(* over lease takeovers, deferrals and manual retries.                         *)
AttemptHistory ==
    \A d \in Deliveries : attempts[d] = [i \in 1..row[d].attemptCount |-> i]

(* A receiver gets at most MAX_ATTEMPTS requests for one replay generation,    *)
(* also when workers die after sending and before completing.                  *)
GenerationBudget == \A d \in Deliveries : posts[d] <= MaxAttempts

(* Pausing, stopping and a short lease return a delivery without using up an   *)
(* attempt: what a waiting row has used is exactly its recorded attempts and   *)
(* the claims that were lost.                                                  *)
DeferralIsFree ==
    \A d \in Deliveries :
        row[d].status \in {"pending", "retry_wait"} =>
            row[d].genAttempt = row[d].attemptCount - base[d] + abandoned[d]

(* Nothing of a deleted subscription is waiting or in flight, whatever was     *)
(* claimed, completed, retried or enqueued around the deletion.                *)
DeletedIsSilent ==
    \A d \in Deliveries : State(d) = "deleted" => row[d].status \notin Active

(* A request goes out only from the latest claim of a delivery: a worker that  *)
(* slept through its lease does not send beside the one that took over.        *)
PostedByLatestClaim ==
    [][\A w, v \in Workers : \A d \in DOMAIN wave[w] \cap DOMAIN wave[v] :
          /\ d \in DOMAIN wave'[w]
          /\ wave[w][d].fate = "send" /\ wave'[w][d].fate = "posted"
          => wave[v][d].version <= wave[w][d].version]_vars

(* What the worker, the subscriptions and the manual retry come to: each       *)
(* delivery moves as DeliveryPromise allows.  It is settled once a round, as   *)
(* succeeded only when a request of that round was sent, and never sent again  *)
(* after that; a row is written back by no claim that has lost it.             *)
Phase(d) ==
    IF row[d].status \in Active THEN "open"
    ELSE IF row[d].status = "none" THEN "absent" ELSE row[d].status
Promised == INSTANCE DeliveryPromise WITH
    phase <- [d \in Deliveries |-> Phase(d)],
    requests <- posts,
    gone <- {s \in Subs : sub[s].state = "deleted"}
KeepsPromise == Promised!Spec

(* A delivery that may be sent is sooner or later settled, or its subscription *)
(* is paused, or it expires.                                                   *)
Runnable(d) ==
    row[d].status \in Active /\ State(d) = "enabled" /\ expired[d] = {}
RunnableIsServed == \A d \in Deliveries : Runnable(d) ~> ~Runnable(d)
=============================================================================
