------------------------------- MODULE Outbox -------------------------------
(***************************************************************************)
(* The outbox of the call observability store: committed events become     *)
(* delivery rows of the subscriptions that were in force when they         *)
(* happened.                                                               *)
(*   call-observability-outbox.service.ts         run, materializeBatch,   *)
(*                                                advanceWatermark         *)
(*   call-observability-subscriptions.service.ts  revisions                *)
(*   call-observability.store.ts                  events and the sequence  *)
(*                                                                         *)
(* Events and revisions are numbered from one sequence that a transaction  *)
(* allocates under the commit-counter lock, so a transaction is one action.*)
(* A service process claims a batch of events and materializes it in       *)
(* chunks; in between, the lease of an event may run out, another process  *)
(* may claim it, an event may expire and a subscription may change.        *)
(*                                                                         *)
(* Operators that nothing uses are slips of the definition they precede.   *)
(***************************************************************************)
EXTENDS Naturals, Sequences, FiniteSets, SequencesExt

CONSTANTS
    Services,       \* processes that run the outbox service
    Subs,           \* subscriptions
    Kinds,          \* what a revision's scope and filter tell apart in events
    Limit,          \* events of one claim
    Chunk,          \* events of one materialization transaction
    MaxSequence,    \* bound: last sequence number
    MaxCrashes,     \* bound: service crashes
    None

ASSUME OutboxAssumption ==
    /\ Limit \in Nat \ {0} /\ Chunk \in Nat \ {0}
    /\ MaxSequence \in Nat /\ MaxCrashes \in Nat
    /\ None \notin Services \cup Kinds

Sequence == 1..MaxSequence

VARIABLES
    sequence,   \* last sequence number allocated
    event,      \* event rows by sequence: dispatchState, kind, lease owner
    leased,     \* events whose dispatch lease has not run out
    expired,    \* events past their expiresAt
    revisions,  \* revision rows of a subscription, by version
    routed,     \* delivery rows: the revision a subscription's event was routed by, or 0
    watermark,  \* the materialization watermark
    claimed,    \* a service's claimed events it has not yet offered to materializeBatch
    inForce,    \* history: revision in force when the event was committed
    crashes     \* bound: crashes so far

vars == <<sequence, event, leased, expired, revisions, routed, watermark, claimed, inForce, crashes>>

States == {"none", "pending", "leased", "materialized", "suppressed"}

(* Typing: revisions and their states stay those the tables allow, sequences  *)
(* and the watermark stay within what has been committed.                     *)
TypeOK ==
    /\ sequence \in 0..MaxSequence
    /\ event \in [Sequence -> [state : States, kind : Kinds \cup {None}, owner : Services \cup {None}]]
    /\ leased \subseteq Sequence /\ expired \subseteq Sequence
    /\ \A s \in Subs : \A v \in DOMAIN revisions[s] :
          revisions[s][v] \in [from : Nat, until : Nat, accepts : SUBSET Kinds, revoked : BOOLEAN]
    /\ routed \in [Subs -> [Sequence -> Nat]]
    /\ watermark \in 0..MaxSequence
    /\ claimed \in [Services -> Seq(Sequence)]
    /\ inForce \in [Subs -> [Sequence -> Nat]]
    /\ crashes \in 0..MaxCrashes

Init ==
    /\ sequence = 0
    /\ event = [e \in Sequence |-> [state |-> "none", kind |-> None, owner |-> None]]
    /\ leased = {} /\ expired = {}
    /\ revisions = [s \in Subs |->
                      <<[from |-> 0, until |-> 0, accepts |-> Kinds, revoked |-> FALSE]>>]
    /\ routed = [s \in Subs |-> [e \in Sequence |-> 0]]
    /\ watermark = 0
    /\ claimed = [o \in Services |-> <<>>]
    /\ inForce = [s \in Subs |-> [e \in Sequence |-> 0]]
    /\ crashes = 0

-----------------------------------------------------------------------------
Version(s) == Len(revisions[s])
Deleted(s) == revisions[s][Version(s)].revoked

(* A committed event; a backfilled one is suppressed. *)
Commit(kind, state) ==
    /\ sequence < MaxSequence
    /\ sequence' = sequence + 1
    /\ event' = [event EXCEPT ![sequence + 1] = [state |-> state, kind |-> kind, owner |-> None]]
    /\ inForce' = [s \in Subs |-> [inForce[s] EXCEPT ![sequence + 1] =
          IF ~Deleted(s) /\ kind \in revisions[s][Version(s)].accepts THEN Version(s) ELSE 0]]
    /\ UNCHANGED <<leased, expired, revisions, routed, watermark, claimed, crashes>>

(* update(): another filter or scope, paused ({}) or resumed.  The revision in *)
(* force ends at the sequence number at which its successor starts.            *)
UpdateSubscription(s, accepts) ==
    /\ sequence < MaxSequence
    /\ ~Deleted(s)
    /\ accepts # revisions[s][Version(s)].accepts
    /\ sequence' = sequence + 1
    /\ revisions' = [revisions EXCEPT ![s] =
          Append([@ EXCEPT ![Len(@)].until = sequence + 1],
                 [from |-> sequence + 1, until |-> 0, accepts |-> accepts, revoked |-> FALSE])]
    /\ UNCHANGED <<event, leased, expired, routed, watermark, claimed, inForce, crashes>>

RemoveSubscription(s) ==
    /\ sequence < MaxSequence
    /\ ~Deleted(s)
    /\ sequence' = sequence + 1
    /\ LET last == Version(s)
           closed == [revisions[s] EXCEPT ![last].until = sequence + 1]
           revoked == [v \in 1..last |-> [closed[v] EXCEPT !.revoked = TRUE]]
       IN revisions' = [revisions EXCEPT ![s] =
             Append(revoked, [from |-> sequence + 1, until |-> 0, accepts |-> {}, revoked |-> TRUE])]
    /\ UNCHANGED <<event, leased, expired, routed, watermark, claimed, inForce, crashes>>

-----------------------------------------------------------------------------
(* The service. *)

Unexpired(e) == e \notin expired
PendingEvents == {e \in Sequence : Unexpired(e) /\ event[e].state = "pending"}
ReadyEvents ==
    {e \in Sequence : /\ Unexpired(e)
                      /\ \/ event[e].state = "pending"
                         \/ event[e].state = "leased" /\ e \notin leased}

Ascending(S) == SetToSortSeq(S, <)

Claim(o) ==
    /\ claimed[o] = <<>>
    /\ ReadyEvents # {}
    /\ LET taken == {e \in ReadyEvents : Cardinality({f \in ReadyEvents : f < e}) < Limit}
       IN /\ event' = [e \in Sequence |->
                IF e \in taken THEN [event[e] EXCEPT !.state = "leased", !.owner = o] ELSE event[e]]
          /\ leased' = leased \cup taken
          /\ claimed' = [claimed EXCEPT ![o] = Ascending(taken)]
    /\ UNCHANGED <<sequence, expired, revisions, routed, watermark, inForce, crashes>>

(* What the service still holds of the events it claimed. *)
Holds(o, e) ==
    event[e].state = "leased" /\ event[e].owner = o /\ e \in leased /\ Unexpired(e)

(* The revision in force at the event's sequence; the highest version wins. *)
LatestRevision(s, e) == {v \in {Version(s)} : ~revisions[s][v].revoked}
Effective(s, e) ==
    {v \in DOMAIN revisions[s] :
        /\ ~revisions[s][v].revoked
        /\ revisions[s][v].from <= e
        /\ revisions[s][v].until = 0 \/ revisions[s][v].until > e}

Route(s, e) ==
    IF Effective(s, e) = {} THEN 0
    ELSE LET v == CHOOSE v \in Effective(s, e) : \A u \in Effective(s, e) : u <= v
         IN IF event[e].kind \in revisions[s][v].accepts THEN v ELSE 0

(* advanceWatermark: below the first event still to be dispatched. *)
PendingOnly(e) == event'[e].state = "pending"
Undispatched(e) == event'[e].state \in {"pending", "leased"}
Latest == sequence
AdvanceWatermark ==
    LET unresolved == {e \in Sequence : e > watermark /\ Undispatched(e) /\ Unexpired(e)}
        candidate == IF unresolved = {} THEN Latest
                     ELSE (CHOOSE e \in unresolved : \A f \in unresolved : e <= f) - 1
    IN watermark' = IF candidate > watermark THEN candidate ELSE watermark

(* materializeBatch and the watermark, for the next chunk of the claim. *)
Materialize(o) ==
    /\ claimed[o] # <<>>
    /\ LET chunk == SubSeq(claimed[o], 1, IF Len(claimed[o]) < Chunk THEN Len(claimed[o]) ELSE Chunk)
           held == {e \in ToSet(chunk) : Holds(o, e)}
       IN /\ event' = [e \in Sequence |->
                IF e \in held THEN [event[e] EXCEPT !.state = "materialized", !.owner = None]
                ELSE event[e]]
          /\ leased' = leased \ held
          /\ routed' = [s \in Subs |-> [e \in Sequence |->
                IF e \in held /\ routed[s][e] = 0 THEN Route(s, e) ELSE routed[s][e]]]
          /\ claimed' = [claimed EXCEPT ![o] = SubSeq(@, Len(chunk) + 1, Len(@))]
    /\ AdvanceWatermark
    /\ UNCHANGED <<sequence, expired, revisions, inForce, crashes>>

(* A run that claims nothing still advances the watermark. *)
Reconcile(o) ==
    /\ claimed[o] = <<>>
    /\ ReadyEvents = {}
    /\ UNCHANGED event
    /\ AdvanceWatermark
    /\ UNCHANGED <<sequence, leased, expired, revisions, routed, claimed, inForce, crashes>>

(* The process dies or a transaction of the run throws; a process that starts  *)
(* again is another owner.                                                     *)
Crash(o) ==
    /\ claimed[o] # <<>>
    /\ crashes < MaxCrashes
    /\ crashes' = crashes + 1
    /\ claimed' = [claimed EXCEPT ![o] = <<>>]
    /\ event' = [e \in Sequence |-> IF event[e].owner = o THEN [event[e] EXCEPT !.owner = None] ELSE event[e]]
    /\ UNCHANGED <<sequence, leased, expired, revisions, routed, watermark, inForce>>

LeaseRunsOut(e) ==
    /\ e \in leased
    /\ leased' = leased \ {e}
    /\ UNCHANGED <<sequence, event, expired, revisions, routed, watermark, claimed, inForce, crashes>>

Expire(e) ==
    /\ event[e].state # "none" /\ Unexpired(e)
    /\ expired' = expired \cup {e}
    /\ UNCHANGED <<sequence, event, leased, revisions, routed, watermark, claimed, inForce, crashes>>

-----------------------------------------------------------------------------
ServiceStep(o) == Claim(o) \/ Materialize(o) \/ Reconcile(o)

Next ==
    \/ \E kind \in Kinds, state \in {"pending", "suppressed"} : Commit(kind, state)
    \/ \E s \in Subs : RemoveSubscription(s) \/ \E accepts \in SUBSET Kinds : UpdateSubscription(s, accepts)
    \/ \E o \in Services : ServiceStep(o) \/ Crash(o)
    \/ \E e \in Sequence : LeaseRunsOut(e) \/ Expire(e)

Spec == Init /\ [][Next]_vars

(* Fairness: the timer runs every service again and again, and a lease ends.   *)
(* A claim that materialization finds still held comes about again and again:  *)
(* the lease is 15 s and no network is touched between claim and commit.       *)
MaterializeInTime(o) == Materialize(o) /\ \A e \in ToSet(claimed[o]) : Holds(o, e)

FairSpec ==
    /\ Spec
    /\ \A o \in Services :
          /\ WF_vars(ServiceStep(o))
          /\ SF_vars(MaterializeInTime(o))
    /\ \A e \in Sequence : WF_vars(LeaseRunsOut(e))

-----------------------------------------------------------------------------
(* Properties. *)

(* Routing is by history: an event that has been materialized went to a        *)
(* subscription exactly when the revision in force at its commit accepted it,  *)
(* under that revision, however late the outbox ran and whatever changed since,*)
(* unless the subscription had been deleted by then.                           *)
RoutedAsCommitted ==
    \A s \in Subs : \A e \in Sequence :
        event[e].state = "materialized" =>
            \/ routed[s][e] = inForce[s][e]
            \/ routed[s][e] = 0 /\ Deleted(s)

(* No delivery row is created for a subscription that has been deleted, even   *)
(* for an event that was committed and claimed before the deletion.            *)
NothingRoutedToDeleted ==
    [][\A s \in Subs : Deleted(s) => routed'[s] = routed[s]]_vars

(* Behind the watermark nothing is left to dispatch: every event there has     *)
(* been materialized, was suppressed, or has expired.                          *)
WatermarkSound ==
    \A e \in 1..watermark : event[e].state \in {"pending", "leased"} => ~Unexpired(e)

(* The watermark catches up with the sequence again and again: every event is *)
(* dispatched unless it expires first, over crashes of the services that       *)
(* claimed it and leases that run out (the model's commits come to an end).    *)
WatermarkCatchesUp == []<>(watermark = sequence)
=============================================================================
