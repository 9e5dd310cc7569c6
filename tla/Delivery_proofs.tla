-------------------------- MODULE Delivery_proofs --------------------------
(***************************************************************************)
(* Proofs about the webhook delivery worker, for any number of workers,    *)
(* subscriptions and deliveries and for every window, wave and retry       *)
(* bound.                                                                  *)
(*   - A row is put back into the queue only by the claim that still owns  *)
(*     it, and remove() takes every unsettled row away from its claim.     *)
(*   - An attempt is recorded only by the claim that still owns the row,   *)
(*     whose number is the next one.                                       *)
(*   - A claim whose lease still runs owns its row, or its subscription is *)
(*     deleted; it is the latest claim and the only running one.  So a     *)
(*     request, which needs a running lease, uses the attempt that its     *)
(*     claim took, and a deferral gives back no more than that (Ledger).   *)
(*   - Hence the whole implements DeliveryPromise: what is settled stays   *)
(*     settled unless it is reopened by hand, and succeeds only when sent. *)
(***************************************************************************)
EXTENDS Delivery, TLAPS

Typed == TablesTyped /\ WavesTyped

-----------------------------------------------------------------------------
(* Types *)

\* Before anything has happened the tables and the waves are well typed.
LEMMA InitTyped == Init => Typed
BY DeliveryAssumption DEF Init, Typed, TablesTyped, WavesTyped, Row, Claims, NoClaims, Active, Settled

\* The updates of a row and of a claim that the steps are made of.
LEMMA RowUpdate ==
    ASSUME NEW r \in Row, NEW status \in Active \cup Settled, NEW owner \in Workers \cup {None},
           NEW version \in Nat, NEW genAttempt \in Nat
    PROVE  [r EXCEPT !.status = status, !.owner = owner, !.version = version,
                     !.genAttempt = genAttempt] \in Row
BY DEF Row

\* A completion also writes the attempt count.
LEMMA RowRecorded ==
    ASSUME NEW r \in Row, NEW status \in Active \cup Settled,
           NEW version \in Nat, NEW genAttempt \in Nat, NEW attemptCount \in Nat
    PROVE  [r EXCEPT !.status = status, !.owner = None, !.version = version,
                     !.genAttempt = genAttempt, !.attemptCount = attemptCount] \in Row
BY DEF Row

\* createTest and the outbox write a waiting row.
LEMMA RowEnqueued ==
    ASSUME NEW r \in Row
    PROVE  [r EXCEPT !.status = "pending", !.version = 1] \in Row
<1>1. "pending" \in Active
  BY DEF Active
<1>2. \A status \in Active : [r EXCEPT !.status = status, !.version = 1] \in Row
  BY DEF Row
<1> QED
  BY <1>1, <1>2

\* retryDelivery opens another generation.
LEMMA RowRetried ==
    ASSUME NEW r \in Row, NEW version \in Nat, NEW generation \in Nat
    PROVE  [r EXCEPT !.status = "pending", !.version = version, !.generation = generation,
                     !.owner = None, !.genAttempt = 0] \in Row
<1>1. "pending" \in Active
  BY DEF Active
<1>2. \A status \in Active :
        [r EXCEPT !.status = status, !.version = version, !.generation = generation,
                  !.owner = None, !.genAttempt = 0] \in Row
  BY DEF Row
<1> QED
  BY <1>1, <1>2

\* The fields of a row, one by one.
LEMMA RowFields ==
    ASSUME NEW r \in Row
    PROVE  /\ r.status \in Active \cup Settled \cup {"none"}
           /\ r.version \in Nat /\ r.generation \in Nat
           /\ r.attemptCount \in Nat /\ r.genAttempt \in Nat
BY DEF Row

\* What completeBatch writes is a row.
LEMMA CompletedTyped ==
    ASSUME NEW r \in Row, NEW c \in Claims, NEW late,
           c.fate \in Settled \cup {"retry", "deferred"}
    PROVE  Completed(r, c, late) \in Row
<1>1. r.version + 1 \in Nat /\ None \in Workers \cup {None}
  BY RowFields
<1>2. /\ c.prevStatus \in Active \cup Settled /\ c.prevAttempt \in Nat
      /\ c.attemptNo \in Nat /\ c.genAttempt \in Nat
  BY DEF Claims, Active
<1>3. CASE c.fate = "deferred"
  <2>1. Completed(r, c, late) = [r EXCEPT !.status = c.prevStatus, !.owner = None,
                                          !.version = r.version + 1, !.genAttempt = c.prevAttempt]
    BY <1>3 DEF Completed, DeferAttempt
  <2>2. [r EXCEPT !.status = c.prevStatus, !.owner = None, !.version = r.version + 1,
                  !.genAttempt = c.prevAttempt] \in Row
    BY <1>1, <1>2, RowUpdate
  <2> QED
    BY <2>1, <2>2
<1>4. CASE c.fate # "deferred"
  <2> DEFINE status == FinalStatus(c, late)
             genAttempt == IF status = "succeeded" THEN 0 ELSE c.genAttempt
  <2>1. status \in Active \cup Settled
    BY <1>4 DEF FinalStatus, Active, Settled
  <2>2. genAttempt \in Nat
    BY <1>2
  <2>3. Completed(r, c, late) = [r EXCEPT !.status = status, !.owner = None,
            !.version = r.version + 1, !.genAttempt = genAttempt, !.attemptCount = c.attemptNo]
    BY <1>4 DEF Completed
  <2> HIDE DEF status, genAttempt
  <2>4. [r EXCEPT !.status = status, !.owner = None, !.version = r.version + 1,
                  !.genAttempt = genAttempt, !.attemptCount = c.attemptNo] \in Row
    BY <1>1, <1>2, <2>1, <2>2, RowRecorded
  <2> QED
    BY <2>3, <2>4
<1> QED
  BY <1>3, <1>4

\* What claimBatch remembers of a row is a claim.
LEMMA NewClaimTyped ==
    ASSUME NEW d, row[d] \in Row
    PROVE  NewClaim(d) \in Claims
BY RowFields DEF NewClaim, Claims, ClaimAttempt, Fates

\* A claim with another fate is a claim.
LEMMA ClaimFate ==
    ASSUME NEW c \in Claims, NEW fate \in Fates
    PROVE  [c EXCEPT !.fate = fate] \in Claims
BY DEF Claims

\* A claim whose lease has run down is a claim.
LEMMA ClaimLease ==
    ASSUME NEW c \in Claims, NEW lease \in {"ample", "low", "over"}
    PROVE  [c EXCEPT !.lease = lease] \in Claims
BY DEF Claims

\* Claims and completions keep the types of rows and attempts.
LEMMA ClaimTyped ==
    ASSUME Typed, NEW w \in Workers, Claim(w)
    PROVE  Typed'
<1> USE DEF Typed
<1>1. Taken \subseteq Deliveries /\ \A d \in Taken : row[d].status \in Active
  BY DEF Taken, First, Candidates, Claimable, Active
<1>2. Closed \subseteq Deliveries /\ \A d \in Closed : Verdict(d) \in {"cancelled", "dead"}
  BY DEF Closed, Candidates, First
<1>3. \A d \in Deliveries : row[d] \in Row
  BY DEF TablesTyped
<1>4. \A d \in Taken : ClaimedRow(w, d) \in Row /\ NewClaim(d) \in Claims
  <2>1. SUFFICES ASSUME NEW d \in Taken PROVE ClaimedRow(w, d) \in Row /\ NewClaim(d) \in Claims
    OBVIOUS
  <2>2. row[d] \in Row /\ row[d].version + 1 \in Nat /\ ClaimAttempt(d) \in Nat
    BY <1>1, <1>3, RowFields DEF ClaimAttempt
  <2>3. "in_flight" \in Active \cup Settled /\ w \in Workers \cup {None}
    BY DEF Active
  <2> QED
    BY <2>2, <2>3, RowUpdate, NewClaimTyped DEF ClaimedRow
<1>5. \A d \in Closed : ClosedRow(d) \in Row
  <2>1. SUFFICES ASSUME NEW d \in Closed PROVE ClosedRow(d) \in Row
    OBVIOUS
  <2>2. row[d] \in Row /\ row[d].version + 1 \in Nat
    BY <1>2, <1>3, RowFields
  <2>3. Verdict(d) \in Active \cup Settled /\ None \in Workers \cup {None} /\ 0 \in Nat
    BY <1>2 DEF Settled
  <2> QED
    BY <2>2, <2>3, RowUpdate DEF ClosedRow
<1>6. row' \in [Deliveries -> Row]
  BY <1>3, <1>4, <1>5 DEF Claim
<1>7. TablesTyped'
  BY <1>6 DEF TablesTyped, Claim
<1>8. wave'[w] \in [Taken -> Claims]
  BY <1>4 DEF Claim, WavesTyped
<1>9. WavesTyped'
  BY <1>1, <1>8 DEF WavesTyped, Claim
<1> QED
  BY <1>7, <1>9

\* completeBatch keeps the types.
LEMMA CompleteTyped ==
    ASSUME Typed, NEW w \in Workers, CompleteBatch(w)
    PROVE  Typed'
<1> USE DEF Typed
<1> DEFINE mine == {d \in DOMAIN wave[w] : Matches(w, d)}
           tried == {d \in mine : wave[w][d].fate # "deferred"}
<1>1. PICK late \in SUBSET {d \in mine : wave[w][d].fate = "retry"} :
         row' = [d \in Deliveries |->
                   IF d \in mine THEN Completed(row[d], wave[w][d], d \in late) ELSE row[d]]
  BY DEF CompleteBatch
<1>2. \A d \in mine : wave[w][d] \in Claims /\ wave[w][d].fate \in Settled \cup {"retry", "deferred"}
  BY DEF WavesTyped, CompleteBatch
<1>3. row' \in [Deliveries -> Row]
  <2>1. SUFFICES ASSUME NEW d \in Deliveries, d \in mine
                 PROVE  Completed(row[d], wave[w][d], d \in late) \in Row
    BY <1>1 DEF TablesTyped
  <2>2. row[d] \in Row /\ wave[w][d] \in Claims
    BY <1>2, <2>1 DEF TablesTyped
  <2> QED
    BY <1>2, <2>1, <2>2, CompletedTyped
<1>4. attempts' \in [Deliveries -> Seq(Nat)]
  <2>1. SUFFICES ASSUME NEW d \in Deliveries, d \in tried
                 PROVE  Append(attempts[d], wave[w][d].attemptNo) \in Seq(Nat)
    BY DEF CompleteBatch, TablesTyped
  <2>2. wave[w][d].attemptNo \in Nat /\ attempts[d] \in Seq(Nat)
    BY <1>2, <2>1 DEF TablesTyped, Claims
  <2> QED
    BY <2>2
<1>5. TablesTyped'
  BY <1>3, <1>4 DEF TablesTyped, CompleteBatch
<1>6. WavesTyped'
  BY DEF WavesTyped, CompleteBatch, NoClaims
<1> QED
  BY <1>5, <1>6

\* The other steps of a wave change the claims' lease and fate only.
LEMMA WaveTyped ==
    ASSUME Typed, NEW w \in Workers,
           \/ WaveStep(w) /\ ~CompleteBatch(w)
           \/ LoseWave(w) \/ Stop(w) \/ Restart(w)
           \/ \E d \in DOMAIN wave[w] : LeaseRuns(w, d)
    PROVE  Typed'
<1> USE DEF Typed
<1>1. CASE Authorize(w) \/ Stop(w) \/ Restart(w)
  <2>1. TablesTyped' /\ wave' = wave
    BY <1>1 DEF Authorize, Stop, Restart, TablesTyped, tables
  <2>2. CASE Authorize(w)
    <3>1. granted' \in [Workers -> SUBSET Subs]
      BY <2>2 DEF Authorize, WavesTyped
    <3>2. pc' \in [Workers -> {"idle", "claimed", "authorized", "sending"}] /\ stopping' = stopping
      BY <2>2 DEF Authorize, WavesTyped
    <3> QED
      BY <2>1, <3>1, <3>2 DEF WavesTyped
  <2>3. CASE Stop(w) \/ Restart(w)
    BY <2>1, <2>3 DEF Stop, Restart, WavesTyped
  <2> QED
    BY <1>1, <2>2, <2>3
<1>2. CASE LoseWave(w)
  BY <1>2 DEF LoseWave, TablesTyped, WavesTyped, tables, NoClaims
<1>3. CASE PreflightBatch(w)
  <2>1. PICK prepared \in [DOMAIN wave[w] -> {"send", "retry", "dead"}] :
           wave' = [wave EXCEPT ![w] = [d \in DOMAIN @ |->
                      [@[d] EXCEPT !.fate = Preflight(w, d, prepared[d])]]]
    BY <1>3 DEF PreflightBatch
  <2>2. wave'[w] = [d \in DOMAIN wave[w] |-> [wave[w][d] EXCEPT !.fate = Preflight(w, d, prepared[d])]]
    BY <2>1 DEF WavesTyped
  <2>3. \A d \in DOMAIN wave[w] : Preflight(w, d, prepared[d]) \in Fates
    BY DEF Preflight, Fates, Settled
  <2>4. \A d \in DOMAIN wave[w] : wave[w][d] \in Claims
    BY DEF WavesTyped
  <2>5. wave'[w] \in [DOMAIN wave[w] -> Claims]
    BY <2>2, <2>3, <2>4, ClaimFate
  <2> QED
    BY <1>3, <2>1, <2>5 DEF PreflightBatch, TablesTyped, WavesTyped, tables
<1>4. ASSUME NEW d \in DOMAIN wave[w], NEW c \in Claims,
             wave' = [wave EXCEPT ![w] = [@ EXCEPT ![d] = c]],
             UNCHANGED <<sub, authorized, row, expired, attempts, pc, stopping, granted>>
      PROVE  Typed'
  <2>1. wave'[w] = [wave[w] EXCEPT ![d] = c] /\ DOMAIN wave' = Workers
    BY <1>4 DEF WavesTyped
  <2>2. DOMAIN wave'[w] = DOMAIN wave[w] /\ wave'[w] \in [DOMAIN wave[w] -> Claims]
    BY <2>1 DEF WavesTyped
  <2>3. \A v \in Workers : v # w => wave'[v] = wave[v]
    BY <1>4 DEF WavesTyped
  <2>4. WavesTyped'
    BY <1>4, <2>1, <2>2, <2>3 DEF WavesTyped
  <2> QED
    BY <1>4, <2>4 DEF TablesTyped
<1>5. ASSUME NEW d \in DOMAIN wave[w], NEW fate \in Fates,
             wave' = [wave EXCEPT ![w][d].fate = fate],
             UNCHANGED <<sub, authorized, row, expired, attempts, pc, stopping, granted>>
      PROVE  Typed'
  <2>1. [wave[w][d] EXCEPT !.fate = fate] \in Claims
    BY ClaimFate DEF WavesTyped
  <2> QED
    BY <1>4, <1>5, <2>1
<1>6. CASE \E d \in DOMAIN wave[w] : Send(w, d)
  <2>1. PICK d \in DOMAIN wave[w] : Send(w, d)
    BY <1>6
  <2>2. PICK fate \in {"dead", "deferred", "posted"} : wave' = [wave EXCEPT ![w][d].fate = fate]
    BY <2>1 DEF Send
  <2>3. fate \in Fates
    BY DEF Fates, Settled
  <2> QED
    BY <1>5, <2>1, <2>2, <2>3 DEF Send, tables
<1>7. CASE \E d \in DOMAIN wave[w] : \E result \in Answers : Answer(w, d, result)
  <2>1. PICK d \in DOMAIN wave[w], fate \in Answers : Answer(w, d, fate)
    BY <1>7
  <2>2. fate \in Fates
    BY DEF Answers, Fates, Settled
  <2> QED
    BY <1>5, <2>1, <2>2 DEF Answer, tables
<1>8. CASE \E d \in DOMAIN wave[w] : LeaseRuns(w, d)
  <2>1. PICK d \in DOMAIN wave[w] : LeaseRuns(w, d)
    BY <1>8
  <2>2. PICK lease \in {"low", "over"} : wave' = [wave EXCEPT ![w][d].lease = lease]
    BY <2>1 DEF LeaseRuns
  <2>3. [wave[w][d] EXCEPT !.lease = lease] \in Claims
    BY ClaimLease DEF WavesTyped
  <2> QED
    BY <1>4, <2>1, <2>2, <2>3 DEF LeaseRuns, tables
<1> QED
  BY <1>1, <1>2, <1>3, <1>6, <1>7, <1>8 DEF WaveStep

\* Administrators and the clock keep the types.
LEMMA AdministrationTyped ==
    ASSUME Typed,
           \/ \E d \in Deliveries : \/ Enqueue(d) \/ ManualRetry(d) \/ FallDue(d)
                                    \/ \E part \in {"event", "row"} : Expire(d, part)
           \/ \E s \in Subs : UpdateSubscription(s) \/ RemoveSubscription(s) \/ ChangeRole(s)
    PROVE  Typed'
<1> USE DEF Typed
<1>1. ASSUME NEW d \in Deliveries, Enqueue(d) \/ ManualRetry(d) \/ FallDue(d) PROVE Typed'
  <2>1. row[d] \in Row /\ row[d].version + 1 \in Nat /\ row[d].generation + 1 \in Nat
    BY RowFields DEF TablesTyped
  <2>2. row' \in [Deliveries -> Row]
    <3>1. CASE Enqueue(d)
      BY <2>1, <3>1, RowEnqueued DEF Enqueue, TablesTyped
    <3>2. CASE ManualRetry(d)
      <4>1. RetriedRow(d) \in Row
        BY <2>1, RowRetried DEF RetriedRow
      <4> QED
        BY <3>2, <4>1 DEF ManualRetry, TablesTyped
    <3> QED
      BY <1>1, <3>1, <3>2 DEF FallDue, TablesTyped
  <2> QED
    BY <1>1, <2>2 DEF Enqueue, ManualRetry, FallDue, TablesTyped, WavesTyped, workers
<1>2. ASSUME NEW d \in Deliveries, NEW part \in {"event", "row"}, Expire(d, part) PROVE Typed'
  BY <1>2 DEF Expire, TablesTyped, WavesTyped, workers
<1>3. ASSUME NEW s \in Subs, UpdateSubscription(s) \/ ChangeRole(s) PROVE Typed'
  <2>1. UNCHANGED <<row, expired, attempts, pc, stopping, wave, granted>>
    BY <1>3 DEF UpdateSubscription, ChangeRole, workers
  <2>2. WavesTyped'
    BY <2>1 DEF WavesTyped
  <2>3. sub' \in [Subs -> [state : {"enabled", "paused", "deleted"}, version : Nat]]
    <3>1. sub \in [Subs -> [state : {"enabled", "paused", "deleted"}, version : Nat]]
      BY DEF TablesTyped
    <3>2. CASE ChangeRole(s)
      BY <3>1, <3>2 DEF ChangeRole
    <3>3. CASE UpdateSubscription(s)
      <4>1. PICK state \in {"enabled", "paused"} :
               sub' = [sub EXCEPT ![s] = [state |-> state, version |-> sub[s].version + 1]]
        BY <3>3 DEF UpdateSubscription
      <4>2. sub[s].version + 1 \in Nat
        BY <3>1
      <4> QED
        BY <3>1, <4>1, <4>2
    <3> QED
      BY <1>3, <3>2, <3>3
  <2>4. authorized' \in [Subs -> BOOLEAN]
    BY <1>3 DEF UpdateSubscription, ChangeRole, TablesTyped
  <2> QED
    BY <2>1, <2>2, <2>3, <2>4 DEF TablesTyped
<1>4. ASSUME NEW s \in Subs, RemoveSubscription(s) PROVE Typed'
  <2>1. \A d \in Deliveries : row[d] \in Row /\ CancelledRow(d) \in Row
    <3>1. SUFFICES ASSUME NEW d \in Deliveries PROVE row[d] \in Row /\ CancelledRow(d) \in Row
      OBVIOUS
    <3>2. row[d] \in Row /\ row[d].version + 1 \in Nat
      BY RowFields DEF TablesTyped
    <3>3. "cancelled" \in Active \cup Settled /\ None \in Workers \cup {None} /\ 0 \in Nat
      BY DEF Settled
    <3> QED
      BY <3>2, <3>3, RowUpdate DEF CancelledRow
  <2>2. row' \in [Deliveries -> Row]
    BY <1>4, <2>1 DEF RemoveSubscription
  <2> QED
    BY <1>4, <2>2 DEF RemoveSubscription, TablesTyped, WavesTyped, workers
<1> QED
  BY <1>1, <1>2, <1>3, <1>4

\* So does every step.
LEMMA NextTyped == Typed /\ [Next]_vars => Typed'
<1> SUFFICES ASSUME Typed, [Next]_vars PROVE Typed'
  OBVIOUS
<1>1. CASE UNCHANGED vars
  BY <1>1 DEF vars, tables, workers, Typed, TablesTyped, WavesTyped
<1>2. CASE \E w \in Workers : Claim(w)
  BY <1>2, ClaimTyped
<1>3. CASE \E w \in Workers : CompleteBatch(w)
  BY <1>3, CompleteTyped
<1>4. CASE \E w \in Workers : \/ WaveStep(w) /\ ~CompleteBatch(w)
                              \/ LoseWave(w) \/ Stop(w) \/ Restart(w)
                              \/ \E d \in DOMAIN wave[w] : LeaseRuns(w, d)
  BY <1>4, WaveTyped
<1>5. CASE \/ \E d \in Deliveries : \/ Enqueue(d) \/ ManualRetry(d) \/ FallDue(d)
                                    \/ \E part \in {"event", "row"} : Expire(d, part)
           \/ \E s \in Subs : UpdateSubscription(s) \/ RemoveSubscription(s) \/ ChangeRole(s)
  BY <1>5, AdministrationTyped
<1> QED
  BY <1>1, <1>2, <1>3, <1>4, <1>5 DEF Next

\* Every reachable row, attempt list and claim is well typed, whatever the
\* bounds of the queue (claimBatch, completeBatch and the administration).
THEOREM TypedHolds == Spec => [](TablesTyped /\ WavesTyped)
BY InitTyped, NextTyped, PTL DEF Spec, Typed

-----------------------------------------------------------------------------
(* Deleted subscriptions, and the attempt history *)

\* What completeBatch writes: a settled or waiting row, and its attempt count.
LEMMA CompletedFields ==
    ASSUME NEW r \in Row, NEW c \in Claims, NEW late
    PROVE  Completed(r, c, late).attemptCount =
             IF c.fate = "deferred" THEN r.attemptCount ELSE c.attemptNo
<1>1. DOMAIN r = {"status", "version", "owner", "generation", "attemptCount", "genAttempt"}
  BY DEF Row
<1> DEFINE status == FinalStatus(c, late)
           genAttempt == IF status = "succeeded" THEN 0 ELSE c.genAttempt
<1>2. CASE c.fate = "deferred"
  BY <1>1, <1>2 DEF Completed, Row
<1>3. CASE c.fate # "deferred"
  <2>1. Completed(r, c, late) = [r EXCEPT !.status = status, !.owner = None,
            !.version = r.version + 1, !.genAttempt = genAttempt, !.attemptCount = c.attemptNo]
    BY <1>3 DEF Completed
  <2> HIDE DEF status, genAttempt
  <2> QED
    BY <1>1, <1>3, <2>1
<1> QED
  BY <1>2, <1>3

\* Every step that is not a completion keeps the attempt counts of all rows.
LEMMA CountsKept ==
    ASSUME Typed, [Next]_vars, \A w \in Workers : ~CompleteBatch(w)
    PROVE  \A d \in Deliveries :
             /\ attempts'[d] = attempts[d]
             /\ row'[d].attemptCount = row[d].attemptCount
<1>1. \A d \in Deliveries : row[d] \in Row
  BY DEF Typed, TablesTyped
<1>2. CASE UNCHANGED <<row, attempts>>
  BY <1>2
<1>3. ASSUME NEW d \in Deliveries, Enqueue(d) \/ ManualRetry(d)
      PROVE  \A e \in Deliveries : /\ attempts'[e] = attempts[e]
                                   /\ row'[e].attemptCount = row[e].attemptCount
  <2>1. row \in [Deliveries -> Row]
    BY DEF Typed, TablesTyped
  <2>2. CASE Enqueue(d)
    BY <2>1, <2>2 DEF Enqueue, Row
  <2>3. CASE ManualRetry(d)
    BY <2>1, <2>3 DEF ManualRetry, RetriedRow, Row
  <2> QED
    BY <1>3, <2>2, <2>3
<1>4. ASSUME NEW s \in Subs, RemoveSubscription(s)
      PROVE  \A e \in Deliveries : /\ attempts'[e] = attempts[e]
                                   /\ row'[e].attemptCount = row[e].attemptCount
  BY <1>1, <1>4 DEF RemoveSubscription, CancelledRow, Row
<1>5. ASSUME NEW w \in Workers, Claim(w)
      PROVE  \A e \in Deliveries : /\ attempts'[e] = attempts[e]
                                   /\ row'[e].attemptCount = row[e].attemptCount
  BY <1>1, <1>5 DEF Claim, ClaimedRow, ClosedRow, Row
<1>6. CASE Next /\ ~UNCHANGED <<row, attempts>>
  <2>1. /\ ~\E d \in Deliveries : FallDue(d) \/ \E part \in {"event", "row"} : Expire(d, part)
        /\ ~\E s \in Subs : UpdateSubscription(s) \/ ChangeRole(s)
    BY <1>6 DEF FallDue, Expire, UpdateSubscription, ChangeRole
  <2>2. ~\E w \in Workers :
            \/ Authorize(w) \/ PreflightBatch(w) \/ LoseWave(w) \/ Stop(w) \/ Restart(w)
            \/ \E d \in DOMAIN wave[w] :
                  \/ Send(w, d) \/ LeaseRuns(w, d)
                  \/ \E result \in Answers : Answer(w, d, result)
    BY <1>6 DEF Authorize, PreflightBatch, Send, Answer, LoseWave, Stop, Restart, LeaseRuns, tables
  <2> QED
    BY <1>3, <1>4, <1>5, <1>6, <2>1, <2>2 DEF Next, WaveStep
<1> QED
  BY <1>2, <1>6 DEF vars, tables

\* The attempt history stays 1, 2, 3, ... over every step.
LEMMA HistoryStep == Typed /\ AttemptHistory /\ [Next]_vars => AttemptHistory'
<1> SUFFICES ASSUME Typed, AttemptHistory, [Next]_vars PROVE AttemptHistory'
  OBVIOUS
<1>1. CASE \A w \in Workers : ~CompleteBatch(w)
  BY <1>1, CountsKept DEF AttemptHistory
<1>2. ASSUME NEW w \in Workers, CompleteBatch(w) PROVE AttemptHistory'
  <2> DEFINE mine == {d \in DOMAIN wave[w] : Matches(w, d)}
             tried == {d \in mine : wave[w][d].fate # "deferred"}
  <2>1. PICK late \in SUBSET {d \in mine : wave[w][d].fate = "retry"} :
           row' = [d \in Deliveries |->
                     IF d \in mine THEN Completed(row[d], wave[w][d], d \in late) ELSE row[d]]
    BY <1>2 DEF CompleteBatch
  <2>2. SUFFICES ASSUME NEW d \in Deliveries
                 PROVE  attempts'[d] = [i \in 1..row'[d].attemptCount |-> i]
    BY DEF AttemptHistory
  <2>3. /\ attempts'[d] = IF d \in tried THEN Append(attempts[d], wave[w][d].attemptNo)
                          ELSE attempts[d]
        /\ attempts[d] = [i \in 1..row[d].attemptCount |-> i]
        /\ row[d] \in Row /\ row[d].attemptCount \in Nat
    BY <1>2, RowFields DEF CompleteBatch, AttemptHistory, Typed, TablesTyped
  <2>4. CASE d \notin mine
    BY <2>1, <2>3, <2>4
  <2>5. ASSUME d \in mine
        PROVE  row'[d].attemptCount = IF d \in tried THEN row[d].attemptCount + 1
                                      ELSE row[d].attemptCount
    <3>1. wave[w][d] \in Claims /\ wave[w][d].attemptNo = row[d].attemptCount + 1
      BY <2>5 DEF Matches, Typed, WavesTyped
    <3>2. row'[d] = Completed(row[d], wave[w][d], d \in late)
      BY <2>1, <2>5
    <3>3. row'[d].attemptCount = IF wave[w][d].fate = "deferred" THEN row[d].attemptCount
                                 ELSE wave[w][d].attemptNo
      BY <2>3, <3>1, <3>2, CompletedFields
    <3> QED
      BY <2>5, <3>1, <3>3
  <2>6. CASE d \in mine /\ d \notin tried
    BY <2>3, <2>5, <2>6
  <2>7. CASE d \in tried
    <3>1. wave[w][d].attemptNo = row[d].attemptCount + 1
      BY <2>7 DEF Matches
    <3>2. row'[d].attemptCount = row[d].attemptCount + 1
      BY <2>5, <2>7
    <3> DEFINE n == row[d].attemptCount
    <3>3. n \in Nat /\ attempts'[d] = Append([i \in 1..n |-> i], n + 1)
      BY <2>3, <2>7, <3>1
    <3>4. Append([i \in 1..n |-> i], n + 1) = [i \in 1..(n + 1) |-> i]
      <4> HIDE DEF n
      <4>1. \A m \in Nat : Append([i \in 1..m |-> i], m + 1) = [i \in 1..(m + 1) |-> i]
        OBVIOUS
      <4> QED
        BY <3>3, <4>1
    <3> QED
      BY <3>2, <3>3, <3>4
  <2> QED
    BY <2>4, <2>6, <2>7
<1> QED
  BY <1>1, <1>2

\* A deleted subscription stays silent over every step.
LEMMA SilentStep == Typed /\ DeletedIsSilent /\ [Next]_vars => DeletedIsSilent'
<1> SUFFICES ASSUME Typed, DeletedIsSilent, [Next]_vars,
                    NEW d \in Deliveries, State(d)' = "deleted"
             PROVE  row'[d].status \notin Active
  BY DEF DeletedIsSilent
<1>1. row \in [Deliveries -> Row] /\ row[d] \in Row /\ SubOf[d] \in Subs
  BY DeliveryAssumption DEF Typed, TablesTyped
<1>2. State(d) = "deleted" => row[d].status \notin Active
  BY DEF DeletedIsSilent
<1>3. CASE UNCHANGED <<sub, row>>
  BY <1>2, <1>3 DEF State
<1>4. ASSUME NEW e \in Deliveries, Enqueue(e) \/ ManualRetry(e) PROVE row'[d].status \notin Active
  BY <1>1, <1>2, <1>4 DEF Enqueue, ManualRetry, State
<1>5. ASSUME NEW s \in Subs, UpdateSubscription(s) \/ ChangeRole(s) PROVE row'[d].status \notin Active
  <2>1. State(d) = "deleted" /\ row' = row
    <3>1. CASE ChangeRole(s)
      BY <3>1 DEF ChangeRole, State
    <3>2. CASE UpdateSubscription(s)
      <4>1. PICK state \in {"enabled", "paused"} :
               sub' = [sub EXCEPT ![s] = [state |-> state, version |-> sub[s].version + 1]]
        BY <3>2 DEF UpdateSubscription
      <4>2. sub'[SubOf[d]].state = "deleted" /\ SubOf[d] \in DOMAIN sub
        BY <1>1 DEF State, Typed, TablesTyped
      <4>3. sub'[SubOf[d]] = sub[SubOf[d]]
        BY <4>1, <4>2
      <4> QED
        BY <3>2, <4>2, <4>3 DEF UpdateSubscription, State
    <3> QED
      BY <1>5, <3>1, <3>2
  <2> QED
    BY <1>2, <2>1
<1>6. ASSUME NEW s \in Subs, RemoveSubscription(s) PROVE row'[d].status \notin Active
  <2>1. CASE SubOf[d] = s /\ row[d].status \in Active
    <3>1. row'[d] = CancelledRow(d)
      BY <1>6, <2>1 DEF RemoveSubscription, Cancellable
    <3>2. CancelledRow(d).status = "cancelled"
      BY <1>1 DEF CancelledRow, Row
    <3> QED
      BY <3>1, <3>2 DEF Active
  <2>2. CASE ~(SubOf[d] = s /\ row[d].status \in Active)
    <3>1. row'[d] = row[d]
      BY <1>6, <2>2 DEF RemoveSubscription, Cancellable
    <3>2. SubOf[d] = s \/ State(d) = "deleted"
      BY <1>1, <1>6 DEF RemoveSubscription, State, Typed, TablesTyped
    <3> QED
      BY <1>2, <2>2, <3>1, <3>2
  <2> QED
    BY <2>1, <2>2
<1>7. ASSUME NEW w \in Workers, Claim(w) PROVE row'[d].status \notin Active
  <2>1. State(d) = "deleted" /\ row[d].status \notin Active
    BY <1>2, <1>7 DEF Claim, State
  <2>2. d \notin Taken
    BY <2>1 DEF Taken, First, Candidates, Claimable, Active
  <2>3. CASE d \in Closed
    <3>1. row'[d] = ClosedRow(d)
      BY <1>7, <2>2, <2>3 DEF Claim
    <3>2. ClosedRow(d).status = Verdict(d) /\ Verdict(d) \in {"cancelled", "dead"}
      BY <1>1, <2>3 DEF ClosedRow, Row, Closed
    <3> QED
      BY <3>1, <3>2 DEF Active
  <2>4. CASE d \notin Closed
    BY <1>7, <2>1, <2>2, <2>4 DEF Claim
  <2> QED
    BY <2>3, <2>4
<1>8. ASSUME NEW w \in Workers, CompleteBatch(w) PROVE row'[d].status \notin Active
  <2>1. State(d) = "deleted" /\ row[d].status \notin Active
    BY <1>2, <1>8 DEF CompleteBatch, State
  <2>2. ~Matches(w, d)
    BY <2>1 DEF Matches, Active
  <2>3. row'[d] = row[d]
    BY <1>8, <2>2 DEF CompleteBatch
  <2> QED
    BY <2>1, <2>3
<1>9. CASE Next /\ ~UNCHANGED <<sub, row>>
  <2>1. ~\E e \in Deliveries : FallDue(e) \/ \E part \in {"event", "row"} : Expire(e, part)
    BY <1>9 DEF FallDue, Expire
  <2>2. ~\E w \in Workers :
            \/ Authorize(w) \/ PreflightBatch(w) \/ LoseWave(w) \/ Stop(w) \/ Restart(w)
            \/ \E e \in DOMAIN wave[w] :
                  \/ Send(w, e) \/ LeaseRuns(w, e)
                  \/ \E result \in Answers : Answer(w, e, result)
    BY <1>9 DEF Authorize, PreflightBatch, Send, Answer, LoseWave, Stop, Restart, LeaseRuns, tables
  <2> QED
    BY <1>4, <1>5, <1>6, <1>7, <1>8, <1>9, <2>1, <2>2 DEF Next, WaveStep
<1> QED
  BY <1>3, <1>9 DEF vars, tables

\* Whatever was claimed, completed, retried or enqueued around a deletion,
\* remove() leaves nothing of the subscription waiting or in flight.
THEOREM DeletedIsSilentHolds == Spec => []DeletedIsSilent
<1>1. Init => DeletedIsSilent
  BY DeliveryAssumption DEF Init, DeletedIsSilent, State, Active
<1>2. Init => Typed
  BY InitTyped
<1>3. Typed /\ DeletedIsSilent /\ [Next]_vars => Typed' /\ DeletedIsSilent'
  BY NextTyped, SilentStep
<1> QED
  BY <1>1, <1>2, <1>3, PTL DEF Spec

\* completeBatch numbers the attempts of a delivery 1, 2, 3, ... over lease
\* takeovers, lost workers, deferrals and manual retries.
THEOREM AttemptHistoryHolds == Spec => []AttemptHistory
<1>1. Init => AttemptHistory
  BY DEF Init, AttemptHistory
<1>2. Init => Typed
  BY InitTyped
<1>3. Typed /\ AttemptHistory /\ [Next]_vars => Typed' /\ AttemptHistory'
  BY NextTyped, HistoryStep
<1> QED
  BY <1>1, <1>2, <1>3, PTL DEF Spec

-----------------------------------------------------------------------------
(* The attempts of a generation *)

Live(w, d) == d \in DOMAIN wave[w] /\ wave[w][d].lease # "over"
Unsent == {"claimed", "send", "deferred"}
Sent == {"posted", "succeeded"}
Running(d) == IF row[d].status = "in_flight" THEN 1 ELSE 0

HistoryTyped ==
    /\ posts \in [Deliveries -> Nat] /\ abandoned \in [Deliveries -> Nat]
    /\ base \in [Deliveries -> Nat]

\* A claim whose lease still runs has the row, unless remove() took it away; a
\* claim that may still be sent or deferred has the attempt it took to itself;
\* one that was sent was sent in the generation of the row it has.
ClaimGood(w, d) ==
    /\ pc[w] # "sending" => wave[w][d].fate = "claimed"
    /\ 0 < wave[w][d].version /\ wave[w][d].version <= row[d].version
    /\ wave[w][d].genAttempt = wave[w][d].prevAttempt + 1
    /\ wave[w][d].genAttempt <= MaxAttempts
    /\ Matches(w, d) => row[d].genAttempt = wave[w][d].genAttempt
    /\ Live(w, d) /\ ~Matches(w, d) => State(d) = "deleted" /\ row[d].status = "cancelled"
    /\ Matches(w, d) /\ wave[w][d].fate \in Sent => posts[d] # 0
    /\ (Matches(w, d) \/ Live(w, d)) /\ wave[w][d].fate \in Unsent
          => posts[d] <= wave[w][d].prevAttempt

\* A claim whose lease still runs is the latest, and the only one.
Alone(w, d) ==
    Live(w, d) => \A v \in Workers \ {w} :
        d \in DOMAIN wave[v] => ~Live(v, d) /\ wave[v][d].version <= wave[w][d].version

\* What a row has used up: the recorded attempts, the lost claims, the running one.
RowGood(d) ==
    /\ posts[d] <= MaxAttempts
    /\ row[d].status = "none" => row[d].version = 0
    /\ row[d].status \in Active \cup {"none"} =>
          /\ posts[d] <= row[d].genAttempt
          /\ row[d].genAttempt + base[d] = row[d].attemptCount + abandoned[d] + Running(d)

ClaimsGood == \A w \in Workers : \A d \in DOMAIN wave[w] : ClaimGood(w, d) /\ Alone(w, d)
RowsGood == \A d \in Deliveries : RowGood(d)

Ledger == Typed /\ HistoryTyped /\ DeletedIsSilent /\ ClaimsGood /\ RowsGood

\* Before anything has happened the ledger is good.
LEMMA InitLedger == Init => Ledger
<1> SUFFICES ASSUME Init PROVE Ledger
  OBVIOUS
<1>1. Typed /\ HistoryTyped
  BY InitTyped DEF Init, HistoryTyped
<1>2. DeletedIsSilent
  BY DeliveryAssumption DEF Init, DeletedIsSilent, State, Active
<1>3. ClaimsGood
  BY DEF Init, ClaimsGood, NoClaims
<1>4. RowsGood
  BY DeliveryAssumption DEF Init, RowsGood, RowGood, Running
<1> QED
  BY <1>1, <1>2, <1>3, <1>4 DEF Ledger

\* What a claim is, as far as the proofs below look at it.
LEMMA ClaimFields ==
    ASSUME Typed, NEW w \in Workers, NEW d \in DOMAIN wave[w]
    PROVE  /\ d \in Deliveries /\ wave[w][d] \in Claims
           /\ wave[w][d].version \in Nat /\ wave[w][d].genAttempt \in Nat
           /\ wave[w][d].prevAttempt \in Nat /\ wave[w][d].attemptNo \in Nat
           /\ row[d] \in Row /\ row[d].version \in Nat /\ row[d].genAttempt \in Nat
<1>1. d \in Deliveries /\ wave[w][d] \in Claims /\ row[d] \in Row
  BY DEF Typed, WavesTyped, TablesTyped
<1> QED
  BY <1>1, RowFields DEF Claims

\* A claim stays good while its row stays, and when the row goes to somebody
\* else after the lease or with the subscription.
LEMMA ClaimStays ==
    ASSUME Typed, Typed', HistoryTyped, HistoryTyped',
           NEW w \in Workers, NEW d \in DOMAIN wave[w], ClaimGood(w, d),
           wave'[w] = wave[w], pc'[w] = pc[w], posts'[d] <= posts[d],
           \/ /\ row'[d] = row[d] /\ posts'[d] = posts[d]
              /\ State(d) = "deleted" => State(d)' = "deleted"
           \/ /\ ~Matches(w, d)' /\ row'[d].version >= row[d].version
              /\ Live(w, d) => State(d)' = "deleted" /\ row'[d].status = "cancelled"
    PROVE  ClaimGood(w, d)'
<1>1. /\ d \in Deliveries /\ row[d].version \in Nat /\ row'[d].version \in Nat
      /\ wave[w][d].version \in Nat /\ wave[w][d].prevAttempt \in Nat
      /\ posts[d] \in Nat /\ posts'[d] \in Nat
  <2>1. d \in Deliveries /\ row'[d] \in Row
    BY ClaimFields DEF Typed, TablesTyped
  <2> QED
    BY <2>1, ClaimFields, RowFields DEF HistoryTyped
<1>2. Live(w, d)' <=> Live(w, d)
  BY DEF Live
<1>3. CASE /\ row'[d] = row[d] /\ posts'[d] = posts[d]
           /\ State(d) = "deleted" => State(d)' = "deleted"
  <2>1. Matches(w, d)' <=> Matches(w, d)
    BY <1>3 DEF Matches
  <2> QED
    BY <1>1, <1>2, <1>3, <2>1 DEF ClaimGood
<1>4. CASE /\ ~Matches(w, d)' /\ row'[d].version >= row[d].version
           /\ Live(w, d) => State(d)' = "deleted" /\ row'[d].status = "cancelled"
  BY <1>1, <1>2, <1>4 DEF ClaimGood
<1> QED
  BY <1>3, <1>4

\* Whoever's lease runs stands alone, as long as no claim is added or renewed.
LEMMA AloneStays ==
    ASSUME ClaimsGood,
           \A w \in Workers : \A d \in DOMAIN wave'[w] :
              /\ d \in DOMAIN wave[w] /\ wave'[w][d].version = wave[w][d].version
              /\ Live(w, d)' => Live(w, d)
    PROVE  \A w \in Workers : \A d \in DOMAIN wave'[w] : Alone(w, d)'
<1> SUFFICES ASSUME NEW w \in Workers, NEW d \in DOMAIN wave'[w], Live(w, d)',
                    NEW v \in Workers \ {w}, d \in DOMAIN wave'[v]
             PROVE  ~Live(v, d)' /\ wave'[v][d].version <= wave'[w][d].version
  BY DEF Alone
<1>1. Alone(w, d) /\ Live(w, d) /\ d \in DOMAIN wave[v]
  BY DEF ClaimsGood
<1>2. ~Live(v, d) /\ wave[v][d].version <= wave[w][d].version
  BY <1>1 DEF Alone
<1> QED
  BY <1>2

\* A row that is untouched keeps its account.
LEMMA RowStays ==
    ASSUME NEW d \in Deliveries, RowGood(d), row'[d] = row[d],
           posts'[d] = posts[d], base'[d] = base[d], abandoned'[d] = abandoned[d]
    PROVE  RowGood(d)'
BY DEF RowGood, Running

\* A settled row has no account to keep but the requests sent.
LEMMA RowSettles ==
    ASSUME NEW d \in Deliveries, RowGood(d), row'[d].status \in Settled, posts'[d] = posts[d]
    PROVE  RowGood(d)'
<1>1. row'[d].status \notin Active \cup {"none"}
  BY DEF Settled, Active
<1> QED
  BY <1>1 DEF RowGood

\* createTest, retryDelivery and remove touch only rows that no running claim has.
LEMMA AdministrationLedger ==
    ASSUME Ledger, Typed', DeletedIsSilent',
           \/ \E d \in Deliveries : Enqueue(d) \/ ManualRetry(d)
           \/ \E s \in Subs : RemoveSubscription(s)
    PROVE  Ledger'
<1>1. Typed /\ HistoryTyped /\ ClaimsGood /\ RowsGood
  BY DEF Ledger
<1>2. wave' = wave /\ pc' = pc
  BY DEF Enqueue, ManualRetry, RemoveSubscription, workers
<1>3. \A w \in Workers : \A d \in DOMAIN wave'[w] : Alone(w, d)'
  BY <1>1, <1>2, AloneStays DEF Live
<1>4. \A d \in Deliveries : row[d] \in Row /\ row[d].version \in Nat
  BY <1>1, RowFields DEF Typed, TablesTyped
<1>5. ASSUME NEW d \in Deliveries, Enqueue(d) PROVE Ledger'
  <2>1. /\ row'[d] = [row[d] EXCEPT !.status = "pending", !.version = 1]
        /\ \A e \in Deliveries \ {d} : row'[e] = row[e]
        /\ sub' = sub /\ posts' = posts /\ base' = base /\ abandoned' = abandoned
        /\ row[d].status = "none" /\ State(d) # "deleted"
    BY <1>1, <1>5 DEF Enqueue, history, Typed, TablesTyped
  <2>2. /\ row'[d].status = "pending" /\ row'[d].version = 1
        /\ row'[d].genAttempt = row[d].genAttempt /\ row'[d].attemptCount = row[d].attemptCount
    BY <1>4, <2>1 DEF Row
  <2>3. HistoryTyped'
    BY <1>1, <2>1 DEF HistoryTyped
  <2>4. ASSUME NEW w \in Workers, NEW e \in DOMAIN wave[w] PROVE ClaimGood(w, e)'
    <3>1. ClaimGood(w, e) /\ e \in Deliveries /\ posts'[e] <= posts[e]
      BY <1>1, <2>1, ClaimFields DEF ClaimsGood, HistoryTyped
    <3>2. CASE e = d
      <4>1. ~Matches(w, d)' /\ ~Live(w, d)
        BY <2>1, <2>2, <3>1, <3>2 DEF Matches, ClaimGood
      <4>2. row'[d].version >= row[d].version
        BY <1>1, <2>1, <2>2 DEF RowsGood, RowGood
      <4> QED
        BY <1>1, <1>2, <2>3, <3>1, <3>2, <4>1, <4>2, ClaimStays
    <3>3. CASE e # d
      BY <1>1, <1>2, <2>1, <2>3, <3>1, <3>3, ClaimStays DEF State
    <3> QED
      BY <3>2, <3>3
  <2>5. ASSUME NEW e \in Deliveries PROVE RowGood(e)'
    <3>1. RowGood(e)
      BY <1>1 DEF RowsGood
    <3>2. CASE e = d
      BY <2>1, <2>2, <3>1, <3>2 DEF RowGood, Running, Active
    <3>3. CASE e # d
      BY <2>1, <3>1, <3>3, RowStays
    <3> QED
      BY <3>2, <3>3
  <2> QED
    BY <1>2, <1>3, <2>3, <2>4, <2>5 DEF Ledger, ClaimsGood, RowsGood
<1>6. ASSUME NEW d \in Deliveries, ManualRetry(d) PROVE Ledger'
  <2>1. /\ row'[d] = RetriedRow(d)
        /\ \A e \in Deliveries \ {d} : /\ row'[e] = row[e] /\ posts'[e] = posts[e]
                                       /\ base'[e] = base[e] /\ abandoned'[e] = abandoned[e]
        /\ sub' = sub /\ row[d].status \in {"dead", "cancelled"} /\ State(d) # "deleted"
        /\ posts'[d] = 0 /\ abandoned'[d] = 0 /\ base'[d] = row[d].attemptCount
    BY <1>1, <1>6 DEF ManualRetry, Typed, TablesTyped, HistoryTyped
  <2>2. /\ row'[d].status = "pending" /\ row'[d].version = row[d].version + 1
        /\ row'[d].genAttempt = 0 /\ row'[d].attemptCount = row[d].attemptCount
    BY <1>4, <2>1 DEF RetriedRow, Row
  <2>3. HistoryTyped'
    <3>1. row[d].attemptCount \in Nat
      BY <1>4, RowFields
    <3> QED
      BY <1>1, <1>6, <3>1 DEF HistoryTyped, ManualRetry
  <2>4. ASSUME NEW w \in Workers, NEW e \in DOMAIN wave[w] PROVE ClaimGood(w, e)'
    <3>1. ClaimGood(w, e) /\ e \in Deliveries /\ posts'[e] <= posts[e]
      BY <1>1, <2>1, ClaimFields DEF ClaimsGood, HistoryTyped
    <3>2. CASE e = d
      <4>1. ~Matches(w, d)' /\ ~Live(w, d)
        BY <2>1, <2>2, <3>1, <3>2 DEF Matches, ClaimGood
      <4>2. row'[d].version >= row[d].version
        BY <1>4, <2>2
      <4> QED
        BY <1>1, <1>2, <2>3, <3>1, <3>2, <4>1, <4>2, ClaimStays
    <3>3. CASE e # d
      BY <1>1, <1>2, <2>1, <2>3, <3>1, <3>3, ClaimStays DEF State
    <3> QED
      BY <3>2, <3>3
  <2>5. ASSUME NEW e \in Deliveries PROVE RowGood(e)'
    <3>1. RowGood(e)
      BY <1>1 DEF RowsGood
    <3>2. CASE e = d
      <4>1. MaxAttempts \in Nat /\ row[d].attemptCount \in Nat
        BY <1>4, RowFields, DeliveryAssumption
      <4> QED
        BY <2>1, <2>2, <3>2, <4>1 DEF RowGood, Running, Active
    <3>3. CASE e # d
      BY <2>1, <3>1, <3>3, RowStays
    <3> QED
      BY <3>2, <3>3
  <2> QED
    BY <1>2, <1>3, <2>3, <2>4, <2>5 DEF Ledger, ClaimsGood, RowsGood
<1>7. ASSUME NEW s \in Subs, RemoveSubscription(s) PROVE Ledger'
  <2>1. /\ \A e \in Deliveries :
             row'[e] = IF SubOf[e] = s /\ row[e].status \in Active THEN CancelledRow(e) ELSE row[e]
        /\ posts' = posts /\ base' = base /\ abandoned' = abandoned
        /\ \A t \in Subs : (t = s \/ sub[t].state = "deleted") => sub'[t].state = "deleted"
    BY <1>1, <1>7 DEF RemoveSubscription, Cancellable, history, Typed, TablesTyped
  <2>2. \A e \in Deliveries : /\ CancelledRow(e).status = "cancelled"
                              /\ CancelledRow(e).version = row[e].version + 1
    BY <1>4 DEF CancelledRow, Row
  <2>3. HistoryTyped'
    BY <1>1, <2>1 DEF HistoryTyped
  <2>4. ASSUME NEW w \in Workers, NEW e \in DOMAIN wave[w] PROVE ClaimGood(w, e)'
    <3>1. ClaimGood(w, e) /\ e \in Deliveries /\ SubOf[e] \in Subs /\ posts'[e] <= posts[e]
      BY <1>1, <2>1, ClaimFields, DeliveryAssumption DEF ClaimsGood, HistoryTyped
    <3>2. CASE SubOf[e] = s /\ row[e].status \in Active
      <4>1. ~Matches(w, e)' /\ State(e)' = "deleted" /\ row'[e].status = "cancelled"
        BY <2>1, <2>2, <3>1, <3>2 DEF Matches, State
      <4>2. row'[e].version >= row[e].version
        BY <1>4, <2>1, <2>2, <3>1, <3>2
      <4> QED
        BY <1>1, <1>2, <2>3, <3>1, <4>1, <4>2, ClaimStays
    <3>3. CASE ~(SubOf[e] = s /\ row[e].status \in Active)
      BY <1>1, <1>2, <2>1, <2>3, <3>1, <3>3, ClaimStays DEF State
    <3> QED
      BY <3>2, <3>3
  <2>5. ASSUME NEW e \in Deliveries PROVE RowGood(e)'
    <3>1. RowGood(e)
      BY <1>1 DEF RowsGood
    <3>2. CASE SubOf[e] = s /\ row[e].status \in Active
      BY <2>1, <2>2, <3>1, <3>2, RowSettles DEF Settled
    <3>3. CASE ~(SubOf[e] = s /\ row[e].status \in Active)
      BY <2>1, <3>1, <3>3, RowStays
    <3> QED
      BY <3>2, <3>3
  <2> QED
    BY <1>2, <1>3, <2>3, <2>4, <2>5 DEF Ledger, ClaimsGood, RowsGood
<1> QED
  BY <1>5, <1>6, <1>7

\* claimBatch takes rows that wait or whose lease is over: no claim that it
\* displaces is running, and each takes one attempt more than its row had.
LEMMA ClaimLedger ==
    ASSUME Ledger, Typed', DeletedIsSilent', NEW w \in Workers, Claim(w)
    PROVE  Ledger'
<1>1. Typed /\ HistoryTyped /\ ClaimsGood /\ RowsGood
  BY DEF Ledger
<1>2. \A d \in Deliveries : /\ row[d] \in Row /\ row[d].version \in Nat
                            /\ row[d].genAttempt \in Nat /\ row[d].attemptCount \in Nat
  BY <1>1, RowFields DEF Typed, TablesTyped
<1>3. /\ \A d \in Deliveries :
           row'[d] = IF d \in Taken THEN ClaimedRow(w, d) ELSE IF d \in Closed THEN ClosedRow(d) ELSE row[d]
      /\ \A d \in Deliveries :
           abandoned'[d] = IF d \in Taken /\ row[d].status = "in_flight" THEN abandoned[d] + 1 ELSE abandoned[d]
      /\ sub' = sub /\ posts' = posts /\ base' = base
      /\ \A v \in Workers \ {w} : wave'[v] = wave[v] /\ pc'[v] = pc[v]
      /\ wave'[w] = [d \in Taken |-> NewClaim(d)] /\ pc'[w] # "sending"
  BY <1>1 DEF Claim, Typed, WavesTyped
<1>4. HistoryTyped'
  BY <1>1 DEF Claim, HistoryTyped
<1>5. \A d \in Taken : /\ d \in Deliveries /\ Claimable(d) /\ Verdict(d) = "claim"
  BY DEF Taken, First, Candidates
<1>6. \A d \in Closed : d \in Deliveries /\ Claimable(d) /\ Verdict(d) \in {"cancelled", "dead"}
  BY DEF Closed, First, Candidates
<1>7. \A d \in Taken : State(d) # "deleted" /\ row[d].genAttempt + 1 <= MaxAttempts
                       /\ row[d].status \in Active
  <2> SUFFICES ASSUME NEW d \in Taken
               PROVE  State(d) # "deleted" /\ row[d].genAttempt + 1 <= MaxAttempts
                      /\ row[d].status \in Active
    OBVIOUS
  <2>1. State(d) \in {"enabled", "paused", "deleted"}
    BY <1>1, <1>5, DeliveryAssumption DEF State, Typed, TablesTyped
  <2>2. State(d) = "enabled" /\ ~(row[d].genAttempt + 1 > MaxAttempts)
    BY <1>5, <2>1 DEF Verdict
  <2> QED
    BY <1>2, <1>5, <2>2, DeliveryAssumption DEF Claimable, Active
<1>8. ASSUME NEW d \in Taken \cup Closed, NEW v \in Workers, d \in DOMAIN wave[v], Live(v, d)
      PROVE  FALSE
  <2>1. Claimable(d) /\ ClaimGood(v, d)
    BY <1>1, <1>5, <1>6, <1>8 DEF ClaimsGood
  <2>2. ~Matches(v, d)
    BY <1>8, <2>1 DEF Claimable, LeaseOver, Live, Matches
  <2> QED
    BY <1>8, <2>1, <2>2 DEF ClaimGood, Claimable
<1>9. \A d \in Taken :
         /\ ClaimedRow(w, d).status = "in_flight" /\ ClaimedRow(w, d).owner = w
         /\ ClaimedRow(w, d).version = row[d].version + 1
         /\ ClaimedRow(w, d).genAttempt = row[d].genAttempt + 1
         /\ ClaimedRow(w, d).attemptCount = row[d].attemptCount
  BY <1>2, <1>5 DEF ClaimedRow, ClaimAttempt, Row
<1>10. \A d \in Closed : /\ ClosedRow(d).status = Verdict(d)
                         /\ ClosedRow(d).version = row[d].version + 1
  BY <1>2, <1>6 DEF ClosedRow, Row
<1>11. ASSUME NEW v \in Workers \ {w}, NEW d \in DOMAIN wave[v] PROVE ClaimGood(v, d)'
  <2>1. ClaimGood(v, d) /\ d \in Deliveries /\ posts'[d] <= posts[d]
    BY <1>1, <1>3, ClaimFields DEF ClaimsGood, HistoryTyped
  <2>2. d \in Taken \cup Closed => ~Live(v, d)
    BY <1>8
  <2>3. CASE d \in Taken
    <3>1. ~Matches(v, d)' /\ row'[d].version >= row[d].version
      BY <1>2, <1>3, <1>9, <2>1, <2>3 DEF Matches
    <3> QED
      BY <1>1, <1>3, <1>4, <2>1, <2>2, <2>3, <3>1, ClaimStays
  <2>4. CASE d \in Closed /\ d \notin Taken
    <3>1. ~Matches(v, d)' /\ row'[d].version >= row[d].version
      BY <1>2, <1>3, <1>6, <1>10, <2>1, <2>4 DEF Matches
    <3> QED
      BY <1>1, <1>3, <1>4, <2>1, <2>2, <2>4, <3>1, ClaimStays
  <2>5. CASE d \notin Taken \cup Closed
    <3>1. /\ row'[d] = row[d] /\ posts'[d] = posts[d]
          /\ State(d) = "deleted" => State(d)' = "deleted"
      BY <1>3, <2>1, <2>5 DEF State
    <3> QED
      BY <1>1, <1>3, <1>4, <2>1, <3>1, ClaimStays
  <2> QED
    BY <2>3, <2>4, <2>5
<1>12. ASSUME NEW d \in Taken PROVE ClaimGood(w, d)'
  <2>1. /\ wave'[w][d] = NewClaim(d) /\ row'[d] = ClaimedRow(w, d) /\ d \in Deliveries
        /\ posts'[d] <= row[d].genAttempt
    BY <1>1, <1>3, <1>5, <1>7 DEF RowsGood, RowGood
  <2>2. /\ wave'[w][d].fate = "claimed" /\ wave'[w][d].version = row[d].version + 1
        /\ wave'[w][d].genAttempt = row[d].genAttempt + 1
        /\ wave'[w][d].prevAttempt = row[d].genAttempt
    BY <2>1 DEF NewClaim, ClaimAttempt
  <2>3. Matches(w, d)'
    <3>1. ClaimedRow(w, d).generation = row[d].generation
      BY <1>2, <2>1 DEF ClaimedRow, Row
    <3> QED
      BY <1>9, <2>1, <3>1 DEF Matches, NewClaim
  <2> QED
    BY <1>2, <1>7, <1>9, <2>1, <2>2, <2>3 DEF ClaimGood, Sent
<1>13. ASSUME NEW v \in Workers, NEW d \in DOMAIN wave'[v] PROVE ClaimGood(v, d)' /\ Alone(v, d)'
  <2>1. ClaimGood(v, d)'
    BY <1>3, <1>11, <1>12
  <2>2. ASSUME Live(v, d)', NEW u \in Workers \ {v}, d \in DOMAIN wave'[u]
        PROVE  ~Live(u, d)' /\ wave'[u][d].version <= wave'[v][d].version
    <3>1. CASE v # w /\ u # w
      <4>1. Live(v, d) /\ d \in DOMAIN wave[u] /\ d \in DOMAIN wave[v]
        BY <1>3, <2>2, <3>1 DEF Live
      <4>2. ~Live(u, d) /\ wave[u][d].version <= wave[v][d].version
        BY <1>1, <4>1 DEF ClaimsGood, Alone
      <4> QED
        BY <1>3, <3>1, <4>2 DEF Live
    <3>2. CASE v = w
      <4>1. d \in Taken /\ d \in DOMAIN wave[u] /\ wave'[u] = wave[u] /\ u # w
        BY <1>3, <2>2, <3>2
      <4>2. ~Live(u, d)
        BY <1>7, <1>8, <4>1
      <4>3. wave[u][d].version <= row[d].version /\ wave[u][d].version \in Nat
        BY <1>1, <4>1, ClaimFields DEF ClaimsGood, ClaimGood
      <4>4. wave'[w][d].version = row[d].version + 1 /\ row[d].version \in Nat
        BY <1>2, <1>3, <1>5, <4>1 DEF NewClaim
      <4> QED
        BY <3>2, <4>1, <4>2, <4>3, <4>4 DEF Live
    <3>3. CASE u = w
      <4>1. d \in Taken /\ d \in DOMAIN wave[v] /\ Live(v, d)
        BY <1>3, <2>2, <3>3 DEF Live
      <4> QED
        BY <1>7, <1>8, <4>1
    <3> QED
      BY <3>1, <3>2, <3>3
  <2> QED
    BY <2>1, <2>2 DEF Alone
<1>14. ASSUME NEW d \in Deliveries PROVE RowGood(d)'
  <2>1. RowGood(d)
    BY <1>1 DEF RowsGood
  <2>2. CASE d \in Taken
    <3>1. /\ row'[d].status = "in_flight" /\ row'[d].genAttempt = row[d].genAttempt + 1
          /\ row'[d].attemptCount = row[d].attemptCount
      BY <1>3, <1>9, <2>2
    <3>2. /\ posts[d] \in Nat /\ base[d] \in Nat /\ abandoned[d] \in Nat
          /\ row[d].genAttempt \in Nat /\ row[d].attemptCount \in Nat
      BY <1>1, <1>2 DEF HistoryTyped
    <3>3. row[d].status = "in_flight" \/ row[d].status # "in_flight"
      OBVIOUS
    <3>4. /\ posts[d] <= row[d].genAttempt
          /\ row[d].genAttempt + base[d] = row[d].attemptCount + abandoned[d] + Running(d)
      BY <1>7, <2>1, <2>2 DEF RowGood
    <3>5. row'[d].genAttempt + base'[d] = row'[d].attemptCount + abandoned'[d] + Running(d)'
      BY <1>3, <2>2, <3>1, <3>2, <3>4 DEF Running
    <3> QED
      BY <1>3, <2>1, <3>1, <3>2, <3>4, <3>5 DEF RowGood
  <2>3. CASE d \in Closed /\ d \notin Taken
    <3>1. row'[d].status \in Settled
      BY <1>3, <1>6, <1>10, <2>3 DEF Settled
    <3> QED
      BY <1>3, <2>1, <3>1, RowSettles
  <2>4. CASE d \notin Taken \cup Closed
    BY <1>3, <2>1, <2>4, RowStays
  <2> QED
    BY <2>2, <2>3, <2>4
<1> QED
  BY <1>4, <1>13, <1>14 DEF Ledger, ClaimsGood, RowsGood

\* What completeBatch makes of a row: it is no longer in flight, a deferral
\* gives the attempt back, and a retry keeps it beside the attempt recorded.
LEMMA CompletedRow ==
    ASSUME NEW r \in Row, NEW c \in Claims, NEW late,
           c.fate \in Settled \cup {"retry", "deferred"}
    PROVE  /\ Completed(r, c, late).status \in Settled \cup {"pending", "retry_wait"}
           /\ Completed(r, c, late).version = r.version + 1
           /\ Completed(r, c, late).status = "succeeded" => c.fate = "succeeded"
           /\ c.fate = "deferred" =>
                 /\ Completed(r, c, late).genAttempt = c.prevAttempt
                 /\ Completed(r, c, late).attemptCount = r.attemptCount
           /\ c.fate # "deferred" /\ Completed(r, c, late).status \in Active =>
                 /\ Completed(r, c, late).genAttempt = c.genAttempt
                 /\ Completed(r, c, late).attemptCount = c.attemptNo
<1>1. DOMAIN r = {"status", "version", "owner", "generation", "attemptCount", "genAttempt"}
  BY DEF Row
<1>2. CASE c.fate = "deferred"
  <2>1. Completed(r, c, late) = [r EXCEPT !.status = c.prevStatus, !.owner = None,
                                          !.version = r.version + 1, !.genAttempt = c.prevAttempt]
    BY <1>2 DEF Completed, DeferAttempt
  <2>2. c.prevStatus \in {"pending", "retry_wait"}
    BY DEF Claims
  <2> QED
    BY <1>1, <1>2, <2>1, <2>2
<1>3. CASE c.fate # "deferred"
  <2> DEFINE status == FinalStatus(c, late)
             genAttempt == IF status = "succeeded" THEN 0 ELSE c.genAttempt
  <2>1. /\ status \in Settled \cup {"retry_wait"}
        /\ status \in Active => genAttempt = c.genAttempt
        /\ status = "succeeded" => c.fate = "succeeded"
    BY <1>3 DEF FinalStatus, Active, Settled
  <2>2. Completed(r, c, late) = [r EXCEPT !.status = status, !.owner = None,
            !.version = r.version + 1, !.genAttempt = genAttempt, !.attemptCount = c.attemptNo]
    BY <1>3 DEF Completed
  <2> HIDE DEF status, genAttempt
  <2>3. /\ Completed(r, c, late).status = status /\ Completed(r, c, late).version = r.version + 1
        /\ Completed(r, c, late).genAttempt = genAttempt
        /\ Completed(r, c, late).attemptCount = c.attemptNo
    BY <1>1, <2>2
  <2> QED
    BY <1>3, <2>1, <2>3
<1> QED
  BY <1>2, <1>3

\* completeBatch changes only the rows that its claims still match, and nobody
\* else's running claim matches those.
LEMMA CompleteLedger ==
    ASSUME Ledger, Typed', DeletedIsSilent', NEW w \in Workers, CompleteBatch(w)
    PROVE  Ledger'
<1> DEFINE mine == {d \in DOMAIN wave[w] : Matches(w, d)}
<1>1. Typed /\ HistoryTyped /\ ClaimsGood /\ RowsGood /\ DeletedIsSilent
  BY DEF Ledger
<1>2. PICK late \in SUBSET {d \in mine : wave[w][d].fate = "retry"} :
         row' = [d \in Deliveries |->
                   IF d \in mine THEN Completed(row[d], wave[w][d], d \in late) ELSE row[d]]
  BY DEF CompleteBatch
<1>3. /\ sub' = sub /\ posts' = posts /\ base' = base /\ abandoned' = abandoned
      /\ \A v \in Workers \ {w} : wave'[v] = wave[v] /\ pc'[v] = pc[v]
      /\ wave'[w] = NoClaims
      /\ \A d \in DOMAIN wave[w] : wave[w][d].fate \in Settled \cup {"retry", "deferred"}
  BY <1>1 DEF CompleteBatch, history, Typed, WavesTyped
<1>4. HistoryTyped'
  BY <1>1, <1>3 DEF HistoryTyped
<1>5. \A v \in Workers : \A d \in DOMAIN wave'[v] : v # w /\ wave'[v] = wave[v]
  BY <1>3 DEF NoClaims
<1>6. \A v \in Workers : \A d \in DOMAIN wave'[v] : Alone(v, d)'
  BY <1>1, <1>5, AloneStays DEF Live
<1>7. ASSUME NEW d \in mine
      PROVE  /\ d \in Deliveries /\ row'[d] = Completed(row[d], wave[w][d], d \in late)
             /\ row[d] \in Row /\ wave[w][d] \in Claims /\ ClaimGood(w, d) /\ Matches(w, d)
             /\ row'[d].status \in Settled \cup {"pending", "retry_wait"}
             /\ row'[d].version = row[d].version + 1
             /\ wave[w][d].fate = "deferred" =>
                   /\ row'[d].genAttempt = wave[w][d].prevAttempt
                   /\ row'[d].attemptCount = row[d].attemptCount
             /\ wave[w][d].fate # "deferred" /\ row'[d].status \in Active =>
                   /\ row'[d].genAttempt = wave[w][d].genAttempt
                   /\ row'[d].attemptCount = wave[w][d].attemptNo
  <2>1. d \in Deliveries /\ row[d] \in Row /\ wave[w][d] \in Claims
    BY <1>1, ClaimFields
  <2>2. row'[d] = Completed(row[d], wave[w][d], d \in late) /\ ClaimGood(w, d) /\ Matches(w, d)
    BY <1>1, <1>2, <2>1 DEF ClaimsGood
  <2>3. wave[w][d].fate \in Settled \cup {"retry", "deferred"}
    BY <1>3
  <2> HIDE DEF mine
  <2> QED
    BY <2>1, <2>2, <2>3, CompletedRow
<1>8. ASSUME NEW v \in Workers, NEW d \in DOMAIN wave'[v] PROVE ClaimGood(v, d)'
  <2>1. /\ v # w /\ d \in DOMAIN wave[v] /\ ClaimGood(v, d) /\ wave'[v] = wave[v] /\ pc'[v] = pc[v]
        /\ d \in Deliveries /\ row[d].version \in Nat /\ posts'[d] <= posts[d]
        /\ State(d)' = State(d) /\ posts'[d] = posts[d]
    BY <1>1, <1>3, <1>5, ClaimFields DEF ClaimsGood, HistoryTyped, State
  <2>2. CASE d \in mine
    <3>1. ~Matches(v, d)' /\ row'[d].version >= row[d].version
      BY <1>7, <2>1, <2>2 DEF Matches, Settled
    <3>2. ~Matches(v, d)
      BY <2>1, <2>2 DEF Matches
    <3>3. ~Live(v, d)
      BY <1>7, <2>1, <2>2, <3>2 DEF ClaimGood, Matches
    <3> QED
      BY <1>1, <1>4, <2>1, <3>1, <3>3, ClaimStays
  <2>3. CASE d \notin mine
    <3>1. row'[d] = row[d]
      BY <1>2, <2>1, <2>3
    <3> QED
      BY <1>1, <1>4, <2>1, <3>1, ClaimStays
  <2> QED
    BY <2>2, <2>3
<1>9. ASSUME NEW d \in Deliveries PROVE RowGood(d)'
  <2>1. RowGood(d)
    BY <1>1 DEF RowsGood
  <2>2. CASE d \in mine
    <3>1. CASE row'[d].status \in Settled
      BY <1>3, <2>1, <3>1, RowSettles
    <3>2. CASE row'[d].status \in {"pending", "retry_wait"}
      <4>1. row'[d].status \in Active /\ row'[d].status # "in_flight" /\ row'[d].status # "none"
        BY <3>2 DEF Active
      <4>2. /\ row[d].status = "in_flight" /\ wave[w][d].attemptNo = row[d].attemptCount + 1
            /\ row[d].genAttempt = wave[w][d].genAttempt
            /\ wave[w][d].genAttempt = wave[w][d].prevAttempt + 1
        BY <1>7, <2>2 DEF ClaimGood, Matches
      <4>3. /\ posts[d] <= MaxAttempts /\ posts[d] <= row[d].genAttempt
            /\ row[d].genAttempt + base[d] = row[d].attemptCount + abandoned[d] + 1
        BY <2>1, <4>2 DEF RowGood, Running, Active
      <4>4. /\ posts[d] \in Nat /\ base[d] \in Nat /\ abandoned[d] \in Nat
            /\ wave[w][d].prevAttempt \in Nat /\ row[d].attemptCount \in Nat
        BY <1>1, <1>7, <2>2, ClaimFields, RowFields DEF HistoryTyped
      <4>5. wave[w][d].fate = "deferred" => posts[d] <= wave[w][d].prevAttempt
        BY <1>7, <2>2 DEF ClaimGood, Unsent
      <4>6. /\ posts[d] <= row'[d].genAttempt
            /\ row'[d].genAttempt + base[d] = row'[d].attemptCount + abandoned[d]
        <5>1. CASE wave[w][d].fate = "deferred"
          BY <1>7, <2>2, <4>2, <4>3, <4>4, <4>5, <5>1
        <5>2. CASE wave[w][d].fate # "deferred"
          BY <1>7, <2>2, <4>1, <4>2, <4>3, <4>4, <5>2
        <5> QED
          BY <5>1, <5>2
      <4>7. row'[d].genAttempt + base'[d] = row'[d].attemptCount + abandoned'[d] + Running(d)'
        <5>1. Running(d)' = 0
          BY <4>1 DEF Running
        <5>2. row'[d].attemptCount \in Nat
          BY <1>7, <2>2, <4>1, <4>4, ClaimFields DEF Claims
        <5> QED
          BY <1>3, <4>4, <4>6, <5>1, <5>2
      <4> QED
        BY <1>3, <4>1, <4>3, <4>6, <4>7 DEF RowGood
    <3> QED
      BY <1>7, <2>2, <3>1, <3>2
  <2>3. CASE d \notin mine
    BY <1>2, <1>3, <2>1, <2>3, RowStays
  <2> QED
    BY <2>2, <2>3
<1> QED
  BY <1>4, <1>6, <1>8, <1>9 DEF Ledger, ClaimsGood, RowsGood

\* Steps that leave the tables and the requests alone: a claim keeps its
\* numbers, its lease only runs down, and what was sent is not unsent again.
LEMMA QuietLedger ==
    ASSUME Ledger, Typed', DeletedIsSilent',
           UNCHANGED <<row, posts, base, abandoned>>,
           \A d \in Deliveries : State(d) = "deleted" => State(d)' = "deleted",
           \A w \in Workers : \A d \in DOMAIN wave'[w] :
              /\ d \in DOMAIN wave[w]
              /\ \A field \in {"version", "attemptNo", "generation", "genAttempt", "prevAttempt"} :
                    wave'[w][d][field] = wave[w][d][field]
              /\ Live(w, d)' => Live(w, d)
              /\ wave'[w][d].fate \in Unsent => wave[w][d].fate \in Unsent
              /\ wave'[w][d].fate \in Sent => wave[w][d].fate \in Sent
              /\ pc'[w] # "sending" => wave'[w][d].fate = "claimed"
    PROVE  Ledger'
<1>1. Typed /\ HistoryTyped /\ ClaimsGood /\ RowsGood
  BY DEF Ledger
<1>2. HistoryTyped'
  BY <1>1 DEF HistoryTyped
<1>3. \A w \in Workers : \A d \in DOMAIN wave'[w] : Alone(w, d)'
  BY <1>1, AloneStays
<1>4. ASSUME NEW w \in Workers, NEW d \in DOMAIN wave'[w] PROVE ClaimGood(w, d)'
  <2>1. d \in DOMAIN wave[w] /\ ClaimGood(w, d) /\ d \in Deliveries
    BY <1>1, ClaimFields DEF ClaimsGood
  <2>2. /\ wave'[w][d].version = wave[w][d].version
        /\ wave'[w][d].attemptNo = wave[w][d].attemptNo
        /\ wave'[w][d].generation = wave[w][d].generation
        /\ wave'[w][d].genAttempt = wave[w][d].genAttempt
        /\ wave'[w][d].prevAttempt = wave[w][d].prevAttempt
    OBVIOUS
  <2>3. Matches(w, d)' <=> Matches(w, d)
    BY <2>2 DEF Matches
  <2>4. Live(w, d)' => Live(w, d)
    OBVIOUS
  <2>5. /\ wave'[w][d].fate \in Unsent => wave[w][d].fate \in Unsent
        /\ wave'[w][d].fate \in Sent => wave[w][d].fate \in Sent
        /\ pc'[w] # "sending" => wave'[w][d].fate = "claimed"
    OBVIOUS
  <2>6. State(d) = "deleted" => State(d)' = "deleted"
    BY <2>1
  <2> QED
    BY <2>1, <2>2, <2>3, <2>4, <2>5, <2>6 DEF ClaimGood
<1>5. ASSUME NEW d \in Deliveries PROVE RowGood(d)'
  <2>1. RowGood(d)
    BY <1>1 DEF RowsGood
  <2> QED
    BY <2>1, RowStays
<1> QED
  BY <1>2, <1>3, <1>4, <1>5 DEF Ledger, ClaimsGood, RowsGood

\* A claim with another fate or another lease keeps its other fields.
LEMMA FateField ==
    ASSUME NEW k \in Claims, NEW fate \in Fates
    PROVE  /\ [k EXCEPT !.fate = fate] \in Claims /\ [k EXCEPT !.fate = fate].fate = fate
           /\ \A field \in {"version", "attemptNo", "generation", "genAttempt", "prevAttempt",
                            "lease"} : [k EXCEPT !.fate = fate][field] = k[field]
<1>1. DOMAIN k = {"version", "attemptNo", "generation", "genAttempt", "prevStatus",
                  "prevAttempt", "lease", "fate"}
  BY DEF Claims
<1> QED
  BY <1>1, ClaimFate

\* A claim whose lease has run down keeps everything else.
LEMMA LeaseField ==
    ASSUME NEW k \in Claims, NEW lease \in {"ample", "low", "over"}
    PROVE  /\ [k EXCEPT !.lease = lease] \in Claims /\ [k EXCEPT !.lease = lease].fate = k.fate
           /\ \A field \in {"version", "attemptNo", "generation", "genAttempt", "prevAttempt"} :
                 [k EXCEPT !.lease = lease][field] = k[field]
<1>1. DOMAIN k = {"version", "attemptNo", "generation", "genAttempt", "prevStatus",
                  "prevAttempt", "lease", "fate"}
  BY DEF Claims
<1> QED
  BY <1>1, ClaimLease

\* One claim of one wave is replaced.
Replaced(w, d, c) == wave' = [wave EXCEPT ![w] = [@ EXCEPT ![d] = c]]

\* Changing one field of one claim leaves every other claim and field.
LEMMA OneField ==
    ASSUME Typed, NEW w \in Workers, NEW d \in DOMAIN wave[w], NEW c \in Claims,
           Replaced(w, d, c)
    PROVE  /\ wave'[w][d] = c
           /\ \A v \in Workers : DOMAIN wave'[v] = DOMAIN wave[v]
           /\ \A v \in Workers : \A e \in DOMAIN wave[v] :
                 v # w \/ e # d => wave'[v][e] = wave[v][e]
<1>1. DOMAIN wave = Workers /\ wave[w] \in [DOMAIN wave[w] -> Claims]
  BY DEF Typed, WavesTyped
<1>2. wave'[w] = [wave[w] EXCEPT ![d] = c] /\ \A v \in Workers : v # w => wave'[v] = wave[v]
  BY <1>1 DEF Replaced
<1> QED
  BY <1>1, <1>2

\* The clock, the owners' roles and pauses do not touch rows and claims.
LEMMA OutsideLedger ==
    ASSUME Ledger, Typed', DeletedIsSilent',
           \/ UNCHANGED vars
           \/ \E d \in Deliveries : \/ FallDue(d)
                                    \/ \E part \in {"event", "row"} : Expire(d, part)
           \/ \E s \in Subs : UpdateSubscription(s) \/ ChangeRole(s)
           \/ \E w \in Workers : Stop(w) \/ Restart(w)
    PROVE  Ledger'
<1>1. Typed /\ ClaimsGood
  BY DEF Ledger
<1>2. UNCHANGED <<row, posts, base, abandoned, wave, pc>>
  BY DEF vars, tables, workers, history, FallDue, Expire, UpdateSubscription, ChangeRole, Stop, Restart
<1>3. ASSUME NEW d \in Deliveries, State(d) = "deleted" PROVE State(d)' = "deleted"
  <2>1. SubOf[d] \in Subs
    BY DeliveryAssumption
  <2>2. sub' = sub \/ \E s \in Subs : UpdateSubscription(s)
    BY DEF vars, tables, FallDue, Expire, ChangeRole, Stop, Restart
  <2>3. ASSUME NEW s \in Subs, UpdateSubscription(s) PROVE sub'[SubOf[d]] = sub[SubOf[d]]
    BY <1>1, <1>3, <2>1, <2>3 DEF UpdateSubscription, State, Typed, TablesTyped
  <2> QED
    BY <1>3, <2>2, <2>3 DEF State
<1>4. \A w \in Workers : \A d \in DOMAIN wave[w] : pc[w] # "sending" => wave[w][d].fate = "claimed"
  BY <1>1 DEF ClaimsGood, ClaimGood
<1> QED
  BY <1>2, <1>3, <1>4, QuietLedger DEF Live

\* A wave goes on without a request: it is authorized, checked, answered or lost.
LEMMA WaveLedger ==
    ASSUME Ledger, Typed', DeletedIsSilent', NEW w \in Workers,
           \/ Authorize(w) \/ PreflightBatch(w) \/ LoseWave(w)
           \/ \E d \in DOMAIN wave[w] :
                 LeaseRuns(w, d) \/ \E result \in Answers : Answer(w, d, result)
    PROVE  Ledger'
<1>1. Typed /\ ClaimsGood
  BY DEF Ledger
<1>2. UNCHANGED <<sub, row, posts, base, abandoned>> /\ \A v \in Workers : v # w => pc'[v] = pc[v]
  BY <1>1 DEF tables, history, Authorize, PreflightBatch, LoseWave, LeaseRuns, Answer, Typed, WavesTyped
<1>3. \A d \in Deliveries : State(d)' = State(d)
  BY <1>2 DEF State
<1>4. /\ DOMAIN wave = Workers
      /\ \A v \in Workers : wave[v] \in [DOMAIN wave[v] -> Claims]
      /\ \A v \in Workers : \A d \in DOMAIN wave[v] :
            pc[v] # "sending" => wave[v][d].fate = "claimed"
  BY <1>1 DEF ClaimsGood, ClaimGood, Typed, WavesTyped
<1>5. CASE Authorize(w)
  <2>1. wave' = wave /\ pc[w] = "claimed"
    BY <1>5 DEF Authorize
  <2> QED
    BY <1>2, <1>3, <1>4, <2>1, QuietLedger DEF Live
<1>6. CASE LoseWave(w)
  <2>1. wave'[w] = NoClaims /\ \A v \in Workers : v # w => wave'[v] = wave[v]
    BY <1>4, <1>6 DEF LoseWave
  <2>2. \A v \in Workers : \A d \in DOMAIN wave'[v] : v # w
    BY <2>1 DEF NoClaims
  <2> QED
    BY <1>2, <1>3, <1>4, <2>1, <2>2, QuietLedger DEF Live
<1>7. CASE PreflightBatch(w)
  <2>1. PICK prepared \in [DOMAIN wave[w] -> {"send", "retry", "dead"}] :
           wave' = [wave EXCEPT ![w] = [d \in DOMAIN @ |->
                      [@[d] EXCEPT !.fate = Preflight(w, d, prepared[d])]]]
    BY <1>7 DEF PreflightBatch
  <2>2. /\ pc[w] = "authorized" /\ pc'[w] = "sending"
        /\ \A v \in Workers : v # w => wave'[v] = wave[v]
        /\ wave'[w] = [d \in DOMAIN wave[w] |->
                         [wave[w][d] EXCEPT !.fate = Preflight(w, d, prepared[d])]]
    BY <1>1, <1>4, <1>7, <2>1 DEF PreflightBatch, Typed, WavesTyped
  <2>3. ASSUME NEW d \in DOMAIN wave[w]
        PROVE  /\ \A field \in {"version", "attemptNo", "generation", "genAttempt", "prevAttempt"} :
                     wave'[w][d][field] = wave[w][d][field]
               /\ wave'[w][d].lease = wave[w][d].lease
               /\ wave[w][d].fate \in Unsent /\ wave'[w][d].fate \notin Sent
    <3>1. wave[w][d] \in Claims /\ wave[w][d].fate = "claimed"
      BY <1>4, <2>2
    <3>2. Preflight(w, d, prepared[d]) \in Fates \ Sent
      BY DEF Preflight, Fates, Settled, Sent
    <3> QED
      BY <2>2, <3>1, <3>2, FateField DEF Unsent
  <2>4. DOMAIN wave'[w] = DOMAIN wave[w]
    BY <2>2
  <2>5. ASSUME NEW v \in Workers, NEW e \in DOMAIN wave'[v]
        PROVE  /\ e \in DOMAIN wave[v]
               /\ \A field \in {"version", "attemptNo", "generation", "genAttempt", "prevAttempt"} :
                     wave'[v][e][field] = wave[v][e][field]
               /\ Live(v, e)' => Live(v, e)
               /\ wave'[v][e].fate \in Unsent => wave[v][e].fate \in Unsent
               /\ wave'[v][e].fate \in Sent => wave[v][e].fate \in Sent
               /\ pc'[v] # "sending" => wave'[v][e].fate = "claimed"
    <3>1. CASE v = w
      <4>1. e \in DOMAIN wave[w]
        BY <2>4, <3>1
      <4>2. Live(w, e)' => Live(w, e)
        BY <2>3, <4>1 DEF Live
      <4> QED
        BY <2>2, <2>3, <3>1, <4>1, <4>2
    <3>2. CASE v # w
      BY <1>2, <1>4, <2>2, <3>2 DEF Live
    <3> QED
      BY <3>1, <3>2
  <2> QED
    BY <1>2, <1>3, <2>5, QuietLedger
<1>8. ASSUME NEW d \in DOMAIN wave[w], LeaseRuns(w, d) PROVE Ledger'
  <2>1. PICK lease \in {"low", "over"} :
           wave' = [wave EXCEPT ![w][d].lease = lease] /\ wave[w][d].lease # "over"
    BY <1>8 DEF LeaseRuns
  <2> DEFINE c == [wave[w][d] EXCEPT !.lease = lease]
  <2>2. /\ c \in Claims /\ c.fate = wave[w][d].fate
        /\ \A field \in {"version", "attemptNo", "generation", "genAttempt", "prevAttempt"} :
              c[field] = wave[w][d][field]
    <3>1. wave[w][d] \in Claims /\ lease \in {"ample", "low", "over"}
      BY <1>4
    <3> QED
      BY <3>1, LeaseField
  <2>3. Replaced(w, d, c) /\ pc' = pc
    BY <1>8, <2>1 DEF LeaseRuns, Replaced
  <2> HIDE DEF c
  <2>4. /\ wave'[w][d] = c
        /\ \A v \in Workers : DOMAIN wave'[v] = DOMAIN wave[v]
        /\ \A v \in Workers : \A e \in DOMAIN wave[v] :
              v # w \/ e # d => wave'[v][e] = wave[v][e]
    BY <1>1, <2>2, <2>3, OneField
  <2>5. ASSUME NEW v \in Workers, NEW e \in DOMAIN wave'[v]
        PROVE  /\ e \in DOMAIN wave[v] /\ wave'[v][e].fate = wave[v][e].fate
               /\ \A field \in {"version", "attemptNo", "generation", "genAttempt", "prevAttempt"} :
                     wave'[v][e][field] = wave[v][e][field]
               /\ Live(v, e)' => Live(v, e)
    <3>1. e \in DOMAIN wave[v]
      BY <2>4
    <3>2. CASE v = w /\ e = d
      BY <2>1, <2>2, <2>4, <3>1, <3>2 DEF Live
    <3>3. CASE v # w \/ e # d
      BY <2>4, <3>1, <3>3 DEF Live
    <3> QED
      BY <3>2, <3>3
  <2> QED
    BY <1>2, <1>3, <1>4, <2>3, <2>5, QuietLedger
<1>9. ASSUME NEW d \in DOMAIN wave[w], NEW result \in Answers, Answer(w, d, result) PROVE Ledger'
  <2> DEFINE c == [wave[w][d] EXCEPT !.fate = result]
  <2>1. /\ c \in Claims /\ c.fate \notin Unsent
        /\ \A field \in {"version", "attemptNo", "generation", "genAttempt", "prevAttempt", "lease"} :
              c[field] = wave[w][d][field]
    <3>1. result \in Fates /\ result \notin Unsent
      BY DEF Answers, Fates, Settled, Unsent
    <3> QED
      BY <1>4, <3>1, FateField
  <2>2. /\ Replaced(w, d, c) /\ pc' = pc /\ pc[w] = "sending"
        /\ wave[w][d].fate \in Sent
    BY <1>4, <1>9 DEF Answer, Replaced, Sent
  <2> HIDE DEF c
  <2>3. /\ wave'[w][d] = c
        /\ \A v \in Workers : DOMAIN wave'[v] = DOMAIN wave[v]
        /\ \A v \in Workers : \A e \in DOMAIN wave[v] :
              v # w \/ e # d => wave'[v][e] = wave[v][e]
    BY <1>1, <2>1, <2>2, OneField
  <2> QED
    BY <1>2, <1>3, <1>4, <2>1, <2>2, <2>3, QuietLedger DEF Live
<1> QED
  BY <1>5, <1>6, <1>7, <1>8, <1>9

\* A request goes out from a running claim only; it has an attempt left for it.
LEMMA SendLedger ==
    ASSUME Ledger, Typed', DeletedIsSilent',
           NEW w \in Workers, NEW d \in DOMAIN wave[w], Send(w, d)
    PROVE  Ledger'
<1>1. Typed /\ HistoryTyped /\ ClaimsGood /\ RowsGood /\ DeletedIsSilent
  BY DEF Ledger
<1>2. /\ DOMAIN wave = Workers
      /\ \A v \in Workers : wave[v] \in [DOMAIN wave[v] -> Claims]
      /\ \A v \in Workers : \A e \in DOMAIN wave[v] :
            pc[v] # "sending" => wave[v][e].fate = "claimed"
  BY <1>1 DEF ClaimsGood, ClaimGood, Typed, WavesTyped
<1>3. /\ UNCHANGED <<sub, row, base, abandoned, pc>> /\ wave[w][d].fate = "send"
      /\ pc[w] = "sending"
  BY <1>2 DEF Send, tables
<1>4. PICK fate \in {"dead", "deferred", "posted"} :
         /\ wave' = [wave EXCEPT ![w][d].fate = fate]
         /\ posts' = IF fate = "posted" THEN [posts EXCEPT ![d] = @ + 1] ELSE posts
         /\ fate = "posted" => wave[w][d].lease = "ample"
  BY DEF Send, LeaseAllows
<1> DEFINE c == [wave[w][d] EXCEPT !.fate = fate]
<1>5. /\ c \in Claims /\ c.fate = fate
      /\ \A field \in {"version", "attemptNo", "generation", "genAttempt", "prevAttempt", "lease"} :
            c[field] = wave[w][d][field]
  <2>1. fate \in Fates
    BY DEF Fates, Settled
  <2> QED
    BY <1>2, <2>1, FateField
<1>6. Replaced(w, d, c)
  BY <1>4 DEF Replaced
<1> HIDE DEF c
<1>7. /\ wave'[w][d] = c
      /\ \A v \in Workers : DOMAIN wave'[v] = DOMAIN wave[v]
      /\ \A v \in Workers : \A e \in DOMAIN wave[v] :
            v # w \/ e # d => wave'[v][e] = wave[v][e]
  BY <1>1, <1>5, <1>6, OneField
<1>8. \A e \in Deliveries : State(e)' = State(e)
  BY <1>3 DEF State
<1>9. CASE fate # "posted"
  <2>1. posts' = posts /\ wave[w][d].fate \in Unsent
    BY <1>3, <1>4, <1>9 DEF Unsent
  <2> QED
    BY <1>2, <1>3, <1>5, <1>7, <1>8, <1>9, <2>1, QuietLedger DEF Live, Sent
<1>10. CASE fate = "posted"
  <2>1. /\ d \in Deliveries /\ Live(w, d) /\ posts'[d] = posts[d] + 1 /\ posts[d] \in Nat
        /\ \A e \in Deliveries \ {d} : posts'[e] = posts[e]
    BY <1>1, <1>4, <1>10, ClaimFields DEF Live, HistoryTyped
  <2>2. HistoryTyped'
    BY <1>1, <1>3, <1>4, <1>10, <2>1 DEF HistoryTyped
  <2>3. ClaimGood(w, d) /\ Alone(w, d)
    BY <1>1 DEF ClaimsGood
  <2>4. posts[d] + 1 <= wave[w][d].genAttempt /\ wave[w][d].genAttempt <= MaxAttempts
    <3>1. posts[d] <= wave[w][d].prevAttempt /\ wave[w][d].prevAttempt \in Nat
      BY <1>1, <1>3, <2>1, <2>3, ClaimFields DEF ClaimGood, Unsent
    <3> QED
      BY <2>1, <2>3, <3>1 DEF ClaimGood
  <2>5. \A v \in Workers : \A e \in DOMAIN wave'[v] : Alone(v, e)'
    <3>1. \A v \in Workers : \A e \in DOMAIN wave'[v] :
            /\ e \in DOMAIN wave[v] /\ wave'[v][e].version = wave[v][e].version
            /\ Live(v, e)' => Live(v, e)
      BY <1>5, <1>7 DEF Live
    <3> QED
      BY <1>1, <3>1, AloneStays
  <2>6. \A v \in Workers \ {w} : d \in DOMAIN wave[v] => ~Live(v, d) /\ ~Matches(v, d)
    <3> SUFFICES ASSUME NEW v \in Workers \ {w}, d \in DOMAIN wave[v]
                 PROVE  ~Live(v, d) /\ ~Matches(v, d)
      OBVIOUS
    <3>1. ~Live(v, d)
      BY <2>1, <2>3 DEF Alone
    <3>2. CASE Matches(w, d)
      BY <3>1, <3>2 DEF Matches
    <3>3. CASE ~Matches(w, d)
      BY <2>1, <2>3, <3>1, <3>3 DEF ClaimGood, Matches
    <3> QED
      BY <3>2, <3>3
  <2>7. ASSUME NEW v \in Workers, NEW e \in DOMAIN wave'[v] PROVE ClaimGood(v, e)'
    <3>1. e \in DOMAIN wave[v] /\ ClaimGood(v, e) /\ e \in Deliveries
      BY <1>1, <1>7, ClaimFields DEF ClaimsGood
    <3>2. CASE v = w /\ e = d
      <4>1. Matches(w, d)' <=> Matches(w, d)
        BY <1>3, <1>5, <1>7 DEF Matches
      <4>2. wave'[w][d].fate \notin Unsent
        BY <1>5, <1>7, <1>10 DEF Unsent
      <4> QED
        BY <1>3, <1>5, <1>7, <1>8, <2>1, <3>1, <3>2, <4>1, <4>2 DEF ClaimGood, Live
    <3>3. CASE v # w \/ e # d
      <4>1. wave'[v][e] = wave[v][e]
        BY <1>7, <3>1, <3>3
      <4>2. (Matches(v, e)' <=> Matches(v, e)) /\ (Live(v, e)' <=> Live(v, e))
        BY <1>3, <1>7, <3>1, <4>1 DEF Matches, Live
      <4>3. Matches(v, e) \/ Live(v, e) => posts'[e] = posts[e]
        BY <2>1, <2>6, <3>1, <3>3
      <4> QED
        BY <1>3, <1>8, <3>1, <4>1, <4>2, <4>3 DEF ClaimGood
    <3> QED
      BY <3>2, <3>3
  <2>8. ASSUME NEW e \in Deliveries PROVE RowGood(e)'
    <3>1. RowGood(e)
      BY <1>1 DEF RowsGood
    <3>2. CASE e = d
      <4>1. posts'[d] <= MaxAttempts
        <5>1. wave[w][d].genAttempt \in Nat /\ MaxAttempts \in Nat
          BY <1>1, ClaimFields, DeliveryAssumption
        <5> QED
          BY <2>1, <2>4, <5>1
      <4>2. row[d].status \in Active \cup {"none"} => posts'[d] <= row[d].genAttempt
        <5>1. ASSUME row[d].status \in Active PROVE Matches(w, d)
          BY <1>1, <2>1, <2>3, <5>1 DEF ClaimGood, DeletedIsSilent
        <5>2. row[d].status # "none"
          <6>1. row[d].version # 0
            BY <1>1, <2>3, ClaimFields DEF ClaimGood
          <6> QED
            BY <2>1, <3>1, <3>2, <6>1 DEF RowGood
        <5> QED
          BY <2>1, <2>3, <2>4, <5>1, <5>2 DEF ClaimGood
      <4> QED
        BY <1>3, <3>1, <3>2, <4>1, <4>2 DEF RowGood, Running
    <3>3. CASE e # d
      BY <1>3, <2>1, <3>1, <3>3, RowStays
    <3> QED
      BY <3>2, <3>3
  <2> QED
    BY <2>2, <2>5, <2>7, <2>8, <1>1 DEF Ledger, ClaimsGood, RowsGood
<1> QED
  BY <1>9, <1>10

\* The ledger stays good over every step.
LEMMA NextLedger == Ledger /\ [Next]_vars => Ledger'
<1> SUFFICES ASSUME Ledger, [Next]_vars PROVE Ledger'
  OBVIOUS
<1>1. Typed' /\ DeletedIsSilent'
  BY NextTyped, SilentStep DEF Ledger
<1>2. CASE UNCHANGED vars
  BY <1>1, <1>2, OutsideLedger
<1>3. CASE \E d \in Deliveries : Enqueue(d) \/ ManualRetry(d)
  BY <1>1, <1>3, AdministrationLedger
<1>4. CASE \E s \in Subs : RemoveSubscription(s)
  BY <1>1, <1>4, AdministrationLedger
<1>5. CASE \/ \E d \in Deliveries : \/ FallDue(d)
                                    \/ \E part \in {"event", "row"} : Expire(d, part)
           \/ \E s \in Subs : UpdateSubscription(s) \/ ChangeRole(s)
           \/ \E w \in Workers : Stop(w) \/ Restart(w)
  BY <1>1, <1>5, OutsideLedger
<1>6. CASE \E w \in Workers : Claim(w)
  BY <1>1, <1>6, ClaimLedger
<1>7. CASE \E w \in Workers : CompleteBatch(w)
  BY <1>1, <1>7, CompleteLedger
<1>8. CASE \E w \in Workers : \E d \in DOMAIN wave[w] : Send(w, d)
  BY <1>1, <1>8, SendLedger
<1>9. CASE \E w \in Workers :
             \/ Authorize(w) \/ PreflightBatch(w) \/ LoseWave(w)
             \/ \E d \in DOMAIN wave[w] :
                   LeaseRuns(w, d) \/ \E result \in Answers : Answer(w, d, result)
  BY <1>1, <1>9, WaveLedger
<1> QED
  BY <1>2, <1>3, <1>4, <1>5, <1>6, <1>7, <1>8, <1>9 DEF Next, WaveStep

\* The ledger is good in every reachable state.
LEMMA LedgerHolds == Spec => []Ledger
BY InitLedger, NextLedger, PTL DEF Spec

\* sendPrepared sends at most MAX_ATTEMPTS requests of one replay generation,
\* also when workers die between the request and its completion.
THEOREM GenerationBudgetHolds == Spec => []GenerationBudget
<1>1. Ledger => GenerationBudget
  BY DEF Ledger, RowsGood, RowGood, GenerationBudget
<1> QED
  BY <1>1, LedgerHolds, PTL

\* completeBatch gives a deferred claim's attempt back: a waiting row has used
\* its recorded attempts and the claims lost with their worker, no others.
THEOREM DeferralIsFreeHolds == Spec => []DeferralIsFree
<1>1. Ledger => DeferralIsFree
  <2> SUFFICES ASSUME Ledger, NEW d \in Deliveries, row[d].status \in {"pending", "retry_wait"}
               PROVE  row[d].genAttempt = row[d].attemptCount - base[d] + abandoned[d]
    BY DEF DeferralIsFree
  <2>1. row[d].genAttempt + base[d] = row[d].attemptCount + abandoned[d] + Running(d)
    BY DEF Ledger, RowsGood, RowGood, Active
  <2>2. Running(d) = 0
    BY DEF Running
  <2>3. /\ row[d].genAttempt \in Nat /\ row[d].attemptCount \in Nat
        /\ base[d] \in Nat /\ abandoned[d] \in Nat
    BY RowFields DEF Ledger, Typed, TablesTyped, HistoryTyped
  <2> QED
    BY <2>1, <2>2, <2>3
<1> QED
  BY <1>1, LedgerHolds, PTL

\* A claim becomes "posted" only in sendPrepared, while its lease runs.
LEMMA PostedAfter ==
    ASSUME Typed, NEW u \in Workers, NEW w \in Workers, NEW d \in DOMAIN wave[w],
           d \in DOMAIN wave'[w], wave[w][d].fate = "send", wave'[w][d].fate = "posted",
           \/ PreflightBatch(u)
           \/ \E e \in DOMAIN wave[u] :
                 \/ Send(u, e) \/ LeaseRuns(u, e) \/ \E result \in Answers : Answer(u, e, result)
    PROVE  wave[w][d].lease = "ample"
<1>1. /\ DOMAIN wave = Workers
      /\ \A v \in Workers : wave[v] \in [DOMAIN wave[v] -> Claims]
  BY DEF Typed, WavesTyped
<1>2. CASE PreflightBatch(u)
  <2>1. PICK prepared \in [DOMAIN wave[u] -> {"send", "retry", "dead"}] :
           wave' = [wave EXCEPT ![u] = [e \in DOMAIN @ |->
                      [@[e] EXCEPT !.fate = Preflight(u, e, prepared[e])]]]
    BY <1>2 DEF PreflightBatch
  <2>2. u = w
    BY <1>1, <2>1
  <2>3. wave'[w][d] = [wave[w][d] EXCEPT !.fate = Preflight(w, d, prepared[d])]
    BY <1>1, <2>1, <2>2
  <2>4. Preflight(w, d, prepared[d]) # "posted" /\ Preflight(w, d, prepared[d]) \in Fates
    BY <2>2 DEF Preflight, Fates, Settled
  <2> QED
    BY <1>1, <2>3, <2>4, FateField
<1>3. ASSUME NEW e \in DOMAIN wave[u], NEW fate \in Fates,
             wave' = [wave EXCEPT ![u][e].fate = fate]
      PROVE  u = w /\ e = d /\ fate = "posted"
  <2> DEFINE c == [wave[u][e] EXCEPT !.fate = fate]
  <2>1. c \in Claims /\ c.fate = fate
    BY <1>1, FateField
  <2>2. Replaced(u, e, c)
    BY <1>3 DEF Replaced
  <2> HIDE DEF c
  <2> QED
    BY <2>1, <2>2, OneField
<1>4. ASSUME NEW e \in DOMAIN wave[u], Send(u, e) PROVE wave[w][d].lease = "ample"
  <2>1. PICK fate \in {"dead", "deferred", "posted"} :
           /\ wave' = [wave EXCEPT ![u][e].fate = fate]
           /\ fate = "posted" => wave[u][e].lease = "ample"
    BY <1>4 DEF Send, LeaseAllows
  <2>2. fate \in Fates
    BY DEF Fates, Settled
  <2> QED
    BY <1>3, <2>1, <2>2
<1>5. ASSUME NEW e \in DOMAIN wave[u], NEW result \in Answers, Answer(u, e, result) PROVE FALSE
  <2>1. result \in Fates /\ result # "posted"
    BY DEF Answers, Fates, Settled
  <2> QED
    BY <1>3, <1>5, <2>1 DEF Answer
<1>6. ASSUME NEW e \in DOMAIN wave[u], LeaseRuns(u, e) PROVE FALSE
  <2>1. PICK lease \in {"low", "over"} : wave' = [wave EXCEPT ![u][e].lease = lease]
    BY <1>6 DEF LeaseRuns
  <2> DEFINE c == [wave[u][e] EXCEPT !.lease = lease]
  <2>2. c \in Claims /\ c.fate = wave[u][e].fate
    <3>1. wave[u][e] \in Claims /\ lease \in {"ample", "low", "over"}
      BY <1>1
    <3> QED
      BY <3>1, LeaseField
  <2>3. Replaced(u, e, c)
    BY <2>1 DEF Replaced
  <2> HIDE DEF c
  <2> QED
    BY <2>2, <2>3, OneField
<1> QED
  BY <1>2, <1>4, <1>5, <1>6

\* sendPrepared sends from the latest claim of a delivery only: its lease runs,
\* so nobody has claimed the row since.
THEOREM PostedByLatestClaimHolds == Spec => PostedByLatestClaim
<1> DEFINE Latest ==
      \A w, v \in Workers : \A d \in DOMAIN wave[w] \cap DOMAIN wave[v] :
          /\ d \in DOMAIN wave'[w]
          /\ wave[w][d].fate = "send" /\ wave'[w][d].fate = "posted"
          => wave[v][d].version <= wave[w][d].version
<1>1. Ledger /\ [Next]_vars => [Latest]_vars
  <2> SUFFICES ASSUME Ledger, [Next]_vars, NEW w \in Workers, NEW v \in Workers,
                      NEW d \in DOMAIN wave[w] \cap DOMAIN wave[v], d \in DOMAIN wave'[w],
                      wave[w][d].fate = "send", wave'[w][d].fate = "posted"
               PROVE  wave[v][d].version <= wave[w][d].version
    OBVIOUS
  <2>1. Typed /\ ClaimGood(w, d) /\ Alone(w, d)
    BY DEF Ledger, ClaimsGood
  <2>2. wave[w][d].lease = "ample"
    <3>1. wave[w][d] \in Claims /\ w \in DOMAIN wave
      BY <2>1 DEF Typed, WavesTyped
    <3>2. wave' # wave
      OBVIOUS
    <3>3. PICK u \in Workers :
             \/ Claim(u) \/ PreflightBatch(u) \/ CompleteBatch(u) \/ LoseWave(u)
             \/ \E e \in DOMAIN wave[u] :
                   \/ Send(u, e) \/ LeaseRuns(u, e) \/ \E result \in Answers : Answer(u, e, result)
      BY <3>2 DEF Next, WaveStep, vars, workers, Enqueue, ManualRetry, FallDue, Expire,
                  UpdateSubscription, RemoveSubscription, ChangeRole, Authorize, Stop, Restart
    <3>4. CASE Claim(u)
      BY <2>1, <3>4 DEF Claim, NewClaim, Typed, WavesTyped
    <3>5. CASE PreflightBatch(u)
      BY <2>1, <3>5, PostedAfter
    <3>6. CASE CompleteBatch(u) \/ LoseWave(u)
      BY <3>1, <3>6 DEF CompleteBatch, LoseWave, NoClaims
    <3>7. ASSUME NEW e \in DOMAIN wave[u],
                 \/ Send(u, e) \/ LeaseRuns(u, e) \/ \E result \in Answers : Answer(u, e, result)
          PROVE  wave[w][d].lease = "ample"
      BY <2>1, <3>7, PostedAfter
    <3> QED
      BY <3>3, <3>4, <3>5, <3>6, <3>7
  <2>3. CASE v = w
    BY <2>1, <2>3, ClaimFields
  <2>4. CASE v # w
    BY <2>1, <2>2, <2>4 DEF Alone, Live
  <2> QED
    BY <2>3, <2>4
<1> QED
  BY <1>1, LedgerHolds, PTL DEF Spec, PostedByLatestClaim

-----------------------------------------------------------------------------
(* What the delivery promises *)

Phases == [d \in Deliveries |-> Phase(d)]
Gone == {s \in Subs : sub[s].state = "deleted"}
PromisedStep == [Promised!Next]_<<Phases, posts, Gone>>

\* Rows, requests and deletions that stay are no step of the promise.
LEMMA NothingPromised ==
    ASSUME row' = row, posts' = posts, Gone' = Gone
    PROVE  PromisedStep
<1>1. Phases' = Phases
  BY DEF Phases, Phase
<1> QED
  BY <1>1 DEF PromisedStep

\* The phase that a row is in.
LEMMA PhaseOf ==
    ASSUME NEW d \in Deliveries
    PROVE  /\ Phases[d] = Phase(d) /\ Phases'[d] = Phase(d)'
           /\ row[d].status \in Active => Phase(d) = "open"
           /\ row[d] \in Row /\ Phase(d) = "open" => row[d].status \in Active
           /\ row[d].status \notin Active \cup {"none"} => Phase(d) = row[d].status
           /\ row[d].status = "none" => Phase(d) = "absent"
           /\ row'[d].status \in Active => Phase(d)' = "open"
           /\ row'[d].status \notin Active \cup {"none"} => Phase(d)' = row'[d].status
           /\ row'[d] = row[d] => Phase(d)' = Phase(d)
BY DEF Phases, Phase, Active, Settled, Row

\* createTest offers a delivery, retryDelivery opens another round, remove()
\* deletes a subscription together with what is open of it.
LEMMA AdministrationPromised ==
    ASSUME Ledger,
           \/ \E d \in Deliveries : Enqueue(d) \/ ManualRetry(d)
           \/ \E s \in Subs : RemoveSubscription(s)
    PROVE  PromisedStep
<1>1. Typed /\ \A d \in Deliveries : row[d] \in Row /\ SubOf[d] \in Subs
  BY DeliveryAssumption DEF Ledger, Typed, TablesTyped
<1>2. \A d \in Deliveries : State(d) # "deleted" => SubOf[d] \notin Gone
  BY DEF State, Gone
<1>3. ASSUME NEW d \in Deliveries, Enqueue(d) \/ ManualRetry(d),
             row'[d].status = "pending", \A e \in Deliveries \ {d} : row'[e] = row[e]
      PROVE  Phases' = [Phases EXCEPT ![d] = "open"] /\ Gone' = Gone
  <2>1. Phases'[d] = "open" /\ \A e \in Deliveries \ {d} : Phases'[e] = Phases[e]
    BY <1>3, PhaseOf DEF Active
  <2> QED
    BY <1>3, <2>1 DEF Enqueue, ManualRetry, Phases, Gone
<1>4. ASSUME NEW d \in Deliveries, Enqueue(d) PROVE PromisedStep
  <2>1. /\ row'[d].status = "pending" /\ \A e \in Deliveries \ {d} : row'[e] = row[e]
        /\ row[d].status = "none" /\ State(d) # "deleted" /\ posts' = posts
    BY <1>1, <1>4 DEF Enqueue, history, Typed, TablesTyped, Row
  <2>2. Phases[d] = "absent"
    BY <2>1, PhaseOf
  <2>3. Promised!Offer(d)
    BY <1>2, <1>3, <1>4, <2>1, <2>2 DEF Promised!Offer, Phases, Gone
  <2> QED
    BY <2>3 DEF PromisedStep, Promised!Next
<1>5. ASSUME NEW d \in Deliveries, ManualRetry(d) PROVE PromisedStep
  <2>1. /\ row'[d] = RetriedRow(d) /\ \A e \in Deliveries \ {d} : row'[e] = row[e]
        /\ row[d].status \in {"dead", "cancelled"} /\ State(d) # "deleted"
        /\ posts' = [posts EXCEPT ![d] = 0]
    BY <1>1, <1>5 DEF ManualRetry, Typed, TablesTyped
  <2>2. row'[d].status = "pending"
    BY <1>1, <2>1 DEF RetriedRow, Row
  <2>3. Phases[d] \in {"dead", "cancelled"}
    BY <2>1, PhaseOf DEF Active
  <2>4. Promised!Reopen(d)
    BY <1>2, <1>3, <1>5, <2>1, <2>2, <2>3 DEF Promised!Reopen, Promised!GivenUp, Phases, Gone
  <2> QED
    BY <2>4 DEF PromisedStep, Promised!Next
<1>6. ASSUME NEW s \in Subs, RemoveSubscription(s) PROVE PromisedStep
  <2>1. /\ \A e \in Deliveries :
             row'[e] = IF SubOf[e] = s /\ row[e].status \in Active THEN CancelledRow(e) ELSE row[e]
        /\ posts' = posts
        /\ \A t \in Subs : sub'[t].state = "deleted" <=> t = s \/ sub[t].state = "deleted"
    BY <1>1, <1>6 DEF RemoveSubscription, Cancellable, history, Typed, TablesTyped
  <2>2. \A e \in Deliveries : CancelledRow(e).status = "cancelled"
    BY <1>1 DEF CancelledRow, Row
  <2>3. \A e \in Deliveries :
           Phases'[e] = IF SubOf[e] = s /\ Phases[e] = "open" THEN "cancelled" ELSE Phases[e]
    BY <1>1, <2>1, <2>2, PhaseOf DEF Active
  <2>4. Gone' = Gone \cup {s}
    BY <2>1 DEF Gone
  <2>5. Promised!Delete(s)
    BY <2>1, <2>3, <2>4 DEF Promised!Delete, Phases, Gone
  <2> QED
    BY <2>5 DEF PromisedStep, Promised!Next
<1> QED
  BY <1>4, <1>5, <1>6

\* A step that settles open rows, as succeeded only after a request.
LEMMA SettlePromised ==
    ASSUME Typed', posts' = posts, sub' = sub,
           \A d \in Deliveries :
              \/ row'[d] = row[d]
              \/ /\ row[d].status \in Active
                 /\ \/ row'[d].status \in Active \cup {"dead", "cancelled"}
                    \/ row'[d].status = "succeeded" /\ posts[d] > 0
    PROVE  PromisedStep
<1>1. Gone' = Gone
  BY DEF Gone
<1>2. ASSUME NEW d \in Deliveries
      PROVE  /\ Phases'[d] \in {"absent", "open", "succeeded", "dead", "cancelled"}
             /\ \/ Phases'[d] = Phases[d]
                \/ Phases[d] = "open" /\ Phases'[d] \in {"dead", "cancelled"}
                \/ Phases[d] = "open" /\ Phases'[d] = "succeeded" /\ posts[d] > 0
  <2>1. row'[d].status \in Active \cup Settled \cup {"none"}
    BY RowFields DEF Typed, TablesTyped
  <2>2. Phases'[d] = IF row'[d].status \in Active THEN "open"
                     ELSE IF row'[d].status = "none" THEN "absent" ELSE row'[d].status
    BY DEF Phases, Phase
  <2>3. Phases'[d] \in {"absent", "open", "succeeded", "dead", "cancelled"}
    BY <2>1, <2>2 DEF Settled
  <2>4. CASE row'[d] = row[d]
    BY <2>3, <2>4, PhaseOf
  <2>5. CASE row[d].status \in Active /\ row'[d] # row[d]
    <3>1. Phases[d] = "open"
      BY <2>5, PhaseOf
    <3>2. CASE row'[d].status \in Active
      BY <2>3, <3>1, <3>2, PhaseOf
    <3>3. CASE row'[d].status \in {"dead", "cancelled"}
      BY <2>3, <3>1, <3>3, PhaseOf DEF Active
    <3>4. CASE row'[d].status = "succeeded" /\ posts[d] > 0
      BY <2>3, <3>1, <3>4, PhaseOf DEF Active
    <3> QED
      BY <2>5, <3>2, <3>3, <3>4
  <2> QED
    BY <2>4, <2>5
<1>3. Phases' \in [Deliveries -> {"absent", "open", "succeeded", "dead", "cancelled"}]
  BY <1>2 DEF Phases
<1>4. Promised!Settle
  BY <1>1, <1>2, <1>3 DEF Promised!Settle, Promised!GivenUp, Phases, Gone
<1> QED
  BY <1>4 DEF PromisedStep, Promised!Next

\* claimBatch settles rows that may not be sent any more.
LEMMA ClaimPromised ==
    ASSUME Ledger, Typed', NEW w \in Workers, Claim(w)
    PROVE  PromisedStep
<1>1. \A d \in Deliveries : row[d] \in Row
  BY DEF Ledger, Typed, TablesTyped
<1>2. /\ \A d \in Deliveries :
           row'[d] = IF d \in Taken THEN ClaimedRow(w, d) ELSE IF d \in Closed THEN ClosedRow(d) ELSE row[d]
      /\ posts' = posts /\ sub' = sub
  BY DEF Claim
<1>3. \A d \in Taken \cup Closed : d \in Deliveries /\ row[d].status \in Active
  BY DEF Taken, Closed, First, Candidates, Claimable, Active
<1>4. \A d \in Taken : ClaimedRow(w, d).status \in Active
  BY <1>1, <1>3 DEF ClaimedRow, Row, Active
<1>5. \A d \in Closed : ClosedRow(d).status \in {"dead", "cancelled"}
  BY <1>1, <1>3 DEF Closed, ClosedRow, Row
<1> QED
  BY <1>2, <1>3, <1>4, <1>5, SettlePromised

\* completeBatch settles rows that its claims still have, and what it takes for
\* delivered was sent in the generation of the row.
LEMMA CompletePromised ==
    ASSUME Ledger, Typed', NEW w \in Workers, CompleteBatch(w)
    PROVE  PromisedStep
<1> DEFINE mine == {d \in DOMAIN wave[w] : Matches(w, d)}
<1>1. Typed /\ HistoryTyped /\ ClaimsGood
  BY DEF Ledger
<1>2. PICK late \in SUBSET {d \in mine : wave[w][d].fate = "retry"} :
         row' = [d \in Deliveries |->
                   IF d \in mine THEN Completed(row[d], wave[w][d], d \in late) ELSE row[d]]
  BY DEF CompleteBatch
<1>3. /\ sub' = sub /\ posts' = posts
      /\ \A d \in DOMAIN wave[w] : wave[w][d].fate \in Settled \cup {"retry", "deferred"}
  BY DEF CompleteBatch, history
<1>4. ASSUME NEW d \in Deliveries, d \in mine
      PROVE  /\ row[d].status \in Active
             /\ \/ row'[d].status \in Active \cup {"dead", "cancelled"}
                \/ row'[d].status = "succeeded" /\ posts[d] > 0
  <2>1. /\ row[d] \in Row /\ wave[w][d] \in Claims /\ Matches(w, d) /\ ClaimGood(w, d)
        /\ row'[d] = Completed(row[d], wave[w][d], d \in late)
    BY <1>1, <1>2, <1>4, ClaimFields DEF ClaimsGood
  <2>2. wave[w][d].fate \in Settled \cup {"retry", "deferred"}
    BY <1>3, <1>4
  <2> HIDE DEF mine
  <2>3. /\ row'[d].status \in Settled \cup {"pending", "retry_wait"}
        /\ row'[d].status = "succeeded" => wave[w][d].fate = "succeeded"
    BY <2>1, <2>2, CompletedRow
  <2>4. row'[d].status = "succeeded" => posts[d] > 0
    BY <1>1, <2>1, <2>3 DEF ClaimGood, Sent, HistoryTyped
  <2> QED
    BY <2>1, <2>3, <2>4 DEF Matches, Active, Settled
<1>5. \A d \in Deliveries : d \notin mine => row'[d] = row[d]
  BY <1>2
<1> QED
  BY <1>3, <1>4, <1>5, SettlePromised

\* sendPrepared makes a request of an open delivery, or of one that was
\* cancelled with its subscription, within the bound of the round.
LEMMA SendPromised ==
    ASSUME Ledger, Ledger', NEW w \in Workers, NEW d \in DOMAIN wave[w], Send(w, d)
    PROVE  PromisedStep
<1>1. Typed /\ HistoryTyped /\ ClaimGood(w, d) /\ d \in Deliveries /\ SubOf[d] \in Subs
  BY ClaimFields, DeliveryAssumption DEF Ledger, ClaimsGood
<1>2. row' = row /\ sub' = sub
  BY DEF Send, tables
<1>3. Gone' = Gone /\ Phases' = Phases
  BY <1>2 DEF Gone, Phases, Phase
<1>4. CASE posts' = posts
  BY <1>2, <1>3, <1>4, NothingPromised
<1>5. CASE posts' # posts
  <2>1. posts' = [posts EXCEPT ![d] = @ + 1] /\ Live(w, d)
    BY <1>5 DEF Send, LeaseAllows, Live
  <2>2. posts[d] \in Nat /\ posts'[d] = posts[d] + 1 /\ posts'[d] <= MaxAttempts
    BY <1>1, <2>1 DEF Ledger, RowsGood, RowGood, HistoryTyped
  <2>3. posts[d] < MaxAttempts
    BY <2>2, DeliveryAssumption
  <2>4. Phases[d] = "open" \/ (Phases[d] = "cancelled" /\ SubOf[d] \in Gone)
    <3>1. CASE Matches(w, d)
      BY <1>1, <3>1, PhaseOf DEF Matches, Active
    <3>2. CASE ~Matches(w, d)
      BY <1>1, <2>1, <3>2, PhaseOf DEF ClaimGood, State, Gone, Active
    <3> QED
      BY <3>1, <3>2
  <2>5. Promised!Request(d)
    BY <1>3, <2>1, <2>3, <2>4 DEF Promised!Request, Phases, Gone
  <2> QED
    BY <1>1, <2>5 DEF PromisedStep, Promised!Next
<1> QED
  BY <1>4, <1>5

\* Everything else leaves rows, requests and deletions alone.
LEMMA OthersPromised ==
    ASSUME Typed,
           \/ UNCHANGED vars
           \/ \E d \in Deliveries : \/ FallDue(d)
                                    \/ \E part \in {"event", "row"} : Expire(d, part)
           \/ \E s \in Subs : UpdateSubscription(s) \/ ChangeRole(s)
           \/ \E w \in Workers :
                 \/ Authorize(w) \/ PreflightBatch(w) \/ LoseWave(w) \/ Stop(w) \/ Restart(w)
                 \/ \E d \in DOMAIN wave[w] :
                       LeaseRuns(w, d) \/ \E result \in Answers : Answer(w, d, result)
    PROVE  PromisedStep
<1>1. row' = row /\ posts' = posts
  BY DEF vars, tables, workers, history, FallDue, Expire, UpdateSubscription, ChangeRole,
     Authorize, PreflightBatch, LoseWave, Stop, Restart, LeaseRuns, Answer
<1>2. Gone' = Gone
  <2>1. ASSUME NEW s \in Subs, UpdateSubscription(s)
        PROVE  \A t \in Subs : sub'[t].state = "deleted" <=> sub[t].state = "deleted"
    BY <2>1 DEF UpdateSubscription, Typed, TablesTyped
  <2>2. sub' = sub \/ \E s \in Subs : UpdateSubscription(s)
    BY DEF vars, tables, FallDue, Expire, ChangeRole, Authorize, PreflightBatch, LoseWave,
       Stop, Restart, LeaseRuns, Answer
  <2>3. CASE sub' = sub
    BY <2>3 DEF Gone
  <2> QED
    BY <2>1, <2>2, <2>3 DEF Gone
<1> QED
  BY <1>1, <1>2, NothingPromised

\* Worker, subscriptions and manual retry implement the promise: a delivery is
\* settled once a round, as succeeded only when completeBatch still has a row
\* whose request went out in that round, and never sent again after that.
THEOREM KeepsPromiseHolds == Spec => KeepsPromise
<1>1. Init => Promised!Init
  BY DEF Init, Promised!Init, Phase, Active
<1>2. Ledger /\ Ledger' /\ [Next]_vars => [Promised!Next]_Promised!vars
  <2> SUFFICES ASSUME Ledger, Ledger', [Next]_vars PROVE PromisedStep
    BY DEF PromisedStep, Promised!vars, Phases, Gone
  <2>1. Typed /\ Typed'
    BY DEF Ledger
  <2>2. CASE \/ \E d \in Deliveries : Enqueue(d) \/ ManualRetry(d)
             \/ \E s \in Subs : RemoveSubscription(s)
    BY <2>2, AdministrationPromised
  <2>3. CASE \E w \in Workers : Claim(w)
    BY <2>1, <2>3, ClaimPromised
  <2>4. CASE \E w \in Workers : CompleteBatch(w)
    BY <2>1, <2>4, CompletePromised
  <2>5. CASE \E w \in Workers : \E d \in DOMAIN wave[w] : Send(w, d)
    BY <2>5, SendPromised
  <2> QED
    BY <2>1, <2>2, <2>3, <2>4, <2>5, OthersPromised DEF Next, WaveStep
<1> QED
  BY <1>1, <1>2, LedgerHolds, PTL DEF Spec, KeepsPromise, Promised!Spec
=============================================================================
