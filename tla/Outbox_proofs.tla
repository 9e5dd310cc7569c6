---------------------------- MODULE Outbox_proofs ----------------------------
(***************************************************************************)
(* Proofs about Outbox, for any number of services, subscriptions, kinds   *)
(* and events.                                                             *)
(*                                                                         *)
(* The revisions of a subscription cut the sequence into intervals that do *)
(* not overlap, so that an event lies in one of them at most, and in the   *)
(* last one when it is committed.  Later revisions start above it and do   *)
(* not move it: what the outbox finds is what was in force.                *)
(***************************************************************************)
EXTENDS Outbox, TLAPS, SequenceTheorems, WellFoundedInduction

Revision == [from : Nat, until : Nat, accepts : SUBSET Kinds, revoked : BOOLEAN]

Event == [state : States, kind : Kinds \cup {None}, owner : Services \cup {None}]

Typed ==
    /\ sequence \in 0..MaxSequence
    /\ watermark \in 0..MaxSequence /\ watermark <= sequence
    /\ event \in [Sequence -> Event]
    /\ revisions \in [Subs -> Seq(Revision)]
    /\ routed \in [Subs -> [Sequence -> Nat]]
    /\ inForce \in [Subs -> [Sequence -> Nat]]

\* The event lies in the interval of the revision.
Covers(s, v, e) ==
    /\ v \in 1..Version(s)
    /\ revisions[s][v].from <= e
    /\ revisions[s][v].until = 0 \/ revisions[s][v].until > e

\* The intervals follow one another; the last one is open.
Chain ==
    \A s \in Subs :
        /\ Version(s) >= 1 /\ revisions[s][Version(s)].until = 0
        /\ \A v \in 1..Version(s) : revisions[s][v].from <= sequence
        /\ \A u, v \in 1..Version(s) : u < v =>
              revisions[s][u].until # 0 /\ revisions[s][u].until <= revisions[s][v].from

\* A deletion revokes every revision, nothing else revokes one.
Revoked ==
    \A s \in Subs :
        /\ \A v \in 1..Version(s) : revisions[s][v].revoked <=> Deleted(s)
        /\ Deleted(s) => revisions[s][Version(s)].accepts = {}

\* What was in force at the commit is told by the interval of the event.
History ==
    \A s \in Subs, e \in Sequence : event[e].state # "none" =>
        \E v \in 1..Version(s) :
            /\ Covers(s, v, e)
            /\ inForce[s][e] = IF event[e].kind \in revisions[s][v].accepts THEN v ELSE 0

\* Nothing is committed above the sequence, nothing routed before its time.
Fresh ==
    /\ \A e \in Sequence : event[e].state # "none" => e <= sequence
    /\ \A s \in Subs, e \in Sequence : event[e].state # "materialized" => routed[s][e] = 0

IInv == Typed /\ Chain /\ Revoked /\ History /\ Fresh /\ WatermarkSound /\ RoutedAsCommitted

-----------------------------------------------------------------------------
\* A set of sequence numbers has a least one.
LEMMA LeastExists ==
    ASSUME NEW S \in SUBSET Nat, S # {}
    PROVE  \E e \in S : \A f \in S : e <= f
<1> DEFINE R == OpToRel(<, Nat)
<1>1. R = {ss \in Nat \X Nat : ss[1] < ss[2]}
  BY DEF OpToRel
<1> HIDE DEF R
<1>2. PICK e \in S : \A f \in S : ~(<<f, e>> \in R)
  BY WFMin, NatLessThanWellFounded DEF R
<1>3. ASSUME NEW f \in S PROVE e <= f
  <2>1. <<f, e>> \in Nat \X Nat
    OBVIOUS
  <2>2. ~(f < e)
    BY <2>1, <1>1, <1>2
  <2> QED
    BY <2>2
<1> QED
  BY <1>3

\* The rows of a subscription are revisions.
LEMMA RowTyped ==
    ASSUME Typed, NEW s \in Subs, NEW v \in 1..Version(s)
    PROVE  /\ revisions[s][v] \in Revision
           /\ revisions[s][v].from \in Nat /\ revisions[s][v].until \in Nat
<1>1. revisions[s] \in Seq(Revision)
  BY DEF Typed
<1>2. revisions[s][v] \in Revision
  BY <1>1 DEF Version
<1>3. \A r \in Revision : r.from \in Nat /\ r.until \in Nat
  BY DEF Revision
<1> QED
  BY <1>2, <1>3

\* A revision that ends.
LEMMA RowEnds ==
    ASSUME NEW r \in Revision, NEW n \in Nat
    PROVE  /\ [r EXCEPT !.until = n] \in Revision
           /\ [r EXCEPT !.until = n].from = r.from /\ [r EXCEPT !.until = n].accepts = r.accepts
           /\ [r EXCEPT !.until = n].until = n /\ [r EXCEPT !.until = n].revoked = r.revoked
BY DEF Revision

\* A revision that is revoked.
LEMMA RowRevoked ==
    ASSUME NEW r \in Revision
    PROVE  /\ [r EXCEPT !.revoked = TRUE] \in Revision
           /\ [r EXCEPT !.revoked = TRUE].from = r.from
           /\ [r EXCEPT !.revoked = TRUE].accepts = r.accepts
           /\ [r EXCEPT !.revoked = TRUE].until = r.until
           /\ [r EXCEPT !.revoked = TRUE].revoked = TRUE
BY DEF Revision

\* An event lies in at most one interval.
LEMMA OneCover ==
    ASSUME Typed, Chain, NEW s \in Subs, NEW e \in Nat, NEW u, NEW v,
           Covers(s, u, e), Covers(s, v, e)
    PROVE  u = v
<1>1. ASSUME NEW i \in 1..Version(s), NEW j \in 1..Version(s), i < j,
             Covers(s, i, e), Covers(s, j, e)
      PROVE  FALSE
  <2>1. revisions[s] \in Seq(Revision)
    BY DEF Typed
  <2>2. revisions[s][i] \in Revision /\ revisions[s][j] \in Revision
    BY <2>1 DEF Version
  <2>3. revisions[s][i].until # 0 /\ revisions[s][i].until <= revisions[s][j].from
    BY <1>1 DEF Chain
  <2>4. revisions[s][j].from <= e /\ revisions[s][i].until > e
    BY <1>1, <2>3 DEF Covers
  <2> QED
    BY <2>2, <2>3, <2>4 DEF Revision
<1>2. u \in 1..Version(s) /\ v \in 1..Version(s)
  BY DEF Covers
<1>3. Version(s) \in Nat
  BY DEF Typed, Version
<1> QED
  BY <1>1, <1>2, <1>3

\* A live subscription routes a committed event as was in force at its commit.
LEMMA RouteIsInForce ==
    ASSUME IInv, NEW s \in Subs, NEW e \in Sequence, event[e].state # "none", ~Deleted(s)
    PROVE  Route(s, e) = inForce[s][e]
<1>1. PICK v \in 1..Version(s) :
         /\ Covers(s, v, e)
         /\ inForce[s][e] = IF event[e].kind \in revisions[s][v].accepts THEN v ELSE 0
  BY DEF IInv, History
<1>2. DOMAIN revisions[s] = 1..Version(s) /\ Version(s) \in Nat
  BY DEF IInv, Typed, Version
<1>3. \A u : u \in Effective(s, e) <=> Covers(s, u, e)
  BY <1>2 DEF Effective, Covers, IInv, Revoked
<1>4. \A u \in Effective(s, e) : u = v
  BY <1>1, <1>3, OneCover, OutboxAssumption DEF IInv, Sequence
<1>5. Effective(s, e) = {v}
  BY <1>1, <1>3, <1>4
<1>6. v <= v
  BY <1>2
<1>7. (CHOOSE w \in Effective(s, e) : \A u \in Effective(s, e) : u <= w) = v
  BY <1>5, <1>6
<1> QED
  BY <1>1, <1>5, <1>7 DEF Route

\* A deleted subscription routes nothing.
LEMMA DeletedRoutesNothing ==
    ASSUME IInv, NEW s \in Subs, NEW e \in Sequence, Deleted(s)
    PROVE  Route(s, e) = 0
<1>1. DOMAIN revisions[s] = 1..Version(s)
  BY DEF IInv, Typed, Version
<1>2. Effective(s, e) = {}
  BY <1>1 DEF Effective, IInv, Revoked
<1> QED
  BY <1>2 DEF Route

\* Routing yields a version or 0.
LEMMA RouteTyped ==
    ASSUME IInv, NEW s \in Subs, NEW e \in Sequence, event[e].state # "none"
    PROVE  Route(s, e) \in Nat
<1>1. inForce[s][e] \in Nat
  BY DEF IInv, Typed
<1> QED
  BY <1>1, RouteIsInForce, DeletedRoutesNothing

-----------------------------------------------------------------------------
(* Steps that leave sequence and revisions alone.                          *)

\* No event is committed, no revision written.
EventsMove ==
    /\ event' \in [Sequence -> Event]
    /\ \A e \in Sequence : /\ event'[e].kind = event[e].kind
                           /\ event'[e].state = "none" <=> event[e].state = "none"
    /\ UNCHANGED <<sequence, revisions, inForce>>

\* What lies in the intervals is history.
LEMMA HistoryStays ==
    ASSUME IInv, EventsMove
    PROVE  /\ Chain' /\ Revoked' /\ History'
           /\ \A e \in Sequence : event'[e].state # "none" => e <= sequence'
<1>1. Chain' /\ Revoked'
  BY DEF IInv, EventsMove, Chain, Revoked, Version, Deleted
<1>2. \A s \in Subs : Version(s)' = Version(s) /\ \A v, e : Covers(s, v, e)' <=> Covers(s, v, e)
  BY DEF EventsMove, Covers, Version
<1>3. History'
  BY <1>2 DEF IInv, EventsMove, History
<1> QED
  BY <1>1, <1>3 DEF IInv, EventsMove, Fresh

\* Events move that are not routed, and the watermark stays.
LEMMA MovingKeeps ==
    ASSUME IInv, EventsMove, UNCHANGED <<routed, watermark>>,
           \A e \in Sequence :
              /\ event'[e].state = "materialized" <=> event[e].state = "materialized"
              /\ event'[e].state \in {"pending", "leased"} /\ e \notin expired' =>
                    event[e].state \in {"pending", "leased"} /\ e \notin expired
    PROVE  IInv'
<1>1. Chain' /\ Revoked' /\ History' /\ Fresh'
  BY HistoryStays DEF IInv, Fresh
<1>2. Typed'
  BY DEF IInv, Typed, EventsMove
<1>3. WatermarkSound'
  BY OutboxAssumption DEF IInv, Typed, WatermarkSound, Unexpired, Sequence
<1>4. RoutedAsCommitted'
  BY DEF IInv, RoutedAsCommitted, EventsMove, Deleted, Version
<1> QED
  BY <1>1, <1>2, <1>3, <1>4 DEF IInv

\* advanceWatermark: what it passes needs no dispatch, and is committed.
LEMMA Advanced ==
    ASSUME IInv, EventsMove, AdvanceWatermark
    PROVE  /\ watermark' \in 0..MaxSequence /\ watermark' <= sequence /\ watermark' >= watermark
           /\ \A e \in Sequence : watermark < e /\ e <= watermark' /\ Undispatched(e) => ~Unexpired(e)
<1> DEFINE unresolved == {e \in Sequence : e > watermark /\ Undispatched(e) /\ Unexpired(e)}
           least == CHOOSE e \in unresolved : \A f \in unresolved : e <= f
           candidate == IF unresolved = {} THEN Latest ELSE least - 1
<1>1. watermark' = IF candidate > watermark THEN candidate ELSE watermark
  BY DEF AdvanceWatermark
<1>2. sequence \in 0..MaxSequence /\ watermark \in 0..MaxSequence /\ watermark <= sequence
  BY DEF IInv, Typed
<1>3. CASE unresolved = {}
  <2>1. candidate = sequence
    BY <1>3 DEF Latest
  <2> QED
    BY <1>1, <1>2, <1>3, <2>1
<1>4. CASE unresolved # {}
  <2>1. unresolved \in SUBSET Nat
    BY OutboxAssumption DEF Sequence
  <2>2. \E e \in unresolved : \A f \in unresolved : e <= f
    BY <1>4, <2>1, LeastExists
  <2>3. least \in unresolved /\ \A f \in unresolved : least <= f
    BY <2>2
  <2>4. least \in Sequence /\ event'[least].state # "none"
    BY <2>3 DEF Undispatched
  <2>5. least <= sequence
    BY <2>4 DEF IInv, EventsMove, Fresh
  <2>6. candidate = least - 1
    BY <1>4
  <2>7. least \in Nat /\ least >= 1
    BY <2>4, OutboxAssumption DEF Sequence
  <2>8. \A e \in Sequence : watermark < e /\ Undispatched(e) /\ Unexpired(e) => least <= e /\ e \in Nat
    BY <2>3, OutboxAssumption DEF Sequence
  <2> HIDE DEF unresolved, least, candidate
  <2>9. watermark' \in 0..MaxSequence /\ watermark' <= sequence /\ watermark' >= watermark
    BY <1>1, <1>2, <2>5, <2>6, <2>7, OutboxAssumption
  <2>10. \A e \in Sequence : watermark < e /\ e <= watermark' /\ Undispatched(e) => ~Unexpired(e)
    BY <1>1, <1>2, <2>6, <2>7, <2>8, OutboxAssumption DEF Sequence
  <2> QED
    BY <2>9, <2>10
<1> QED
  BY <1>3, <1>4

\* Neither what was behind the watermark nor what it passes is to be dispatched.
LEMMA WatermarkStaysSound ==
    ASSUME IInv, EventsMove, AdvanceWatermark, UNCHANGED expired,
           \A e \in Sequence : event'[e].state \in {"pending", "leased"} =>
                                 event[e].state = event'[e].state
    PROVE  WatermarkSound'
<1>1. /\ watermark' \in 0..MaxSequence /\ watermark' <= sequence /\ watermark' >= watermark
      /\ \A e \in Sequence : watermark < e /\ e <= watermark' /\ Undispatched(e) => ~Unexpired(e)
  BY Advanced
<1> SUFFICES ASSUME NEW e \in 1..watermark', event'[e].state \in {"pending", "leased"}
             PROVE  e \in expired
  BY DEF WatermarkSound, Unexpired
<1>2. e \in Sequence /\ event[e].state = event'[e].state
  BY <1>1, OutboxAssumption DEF Sequence
<1>3. CASE e <= watermark
  <2>1. e \in 1..watermark
    BY <1>3, <1>1 DEF IInv, Typed
  <2> QED
    BY <1>2, <2>1 DEF IInv, WatermarkSound, Unexpired
<1>4. CASE e > watermark
  BY <1>1, <1>2, <1>4 DEF Undispatched, Unexpired
<1> QED
  BY <1>1, <1>3, <1>4 DEF IInv, Typed

\* claimBatch: only events that still are to be dispatched are leased.
LEMMA ClaimKeeps ==
    ASSUME IInv, NEW o \in Services, Claim(o) PROVE IInv'
<1>1. PICK taken \in SUBSET ReadyEvents :
         event' = [e \in Sequence |->
            IF e \in taken THEN [event[e] EXCEPT !.state = "leased", !.owner = o] ELSE event[e]]
  BY DEF Claim
<1>2. \A e \in taken : event[e].state \in {"pending", "leased"} /\ e \notin expired
  BY <1>1 DEF ReadyEvents, Unexpired
<1>3. UNCHANGED <<sequence, revisions, inForce, routed, watermark, expired>>
  BY DEF Claim
<1>4. \A e \in Sequence :
         /\ event'[e].kind = event[e].kind
         /\ event'[e].state = IF e \in taken THEN "leased" ELSE event[e].state
         /\ event'[e] \in Event
  BY <1>1 DEF IInv, Typed, States, Event
<1>5. EventsMove
  <2>1. event' = [e \in Sequence |-> event'[e]]
    BY <1>1
  <2>2. event' \in [Sequence -> Event]
    BY <2>1, <1>4
  <2> QED
    BY <2>2, <1>2, <1>3, <1>4 DEF EventsMove
<1>6. \A e \in Sequence :
         /\ event'[e].state = "materialized" <=> event[e].state = "materialized"
         /\ event'[e].state \in {"pending", "leased"} /\ e \notin expired' =>
               event[e].state \in {"pending", "leased"} /\ e \notin expired
  BY <1>2, <1>3, <1>4
<1> QED
  BY <1>3, <1>5, <1>6, MovingKeeps

\* materializeBatch: an event the service still holds is routed, and the
\* watermark follows.
LEMMA MaterializeKeeps ==
    ASSUME IInv, NEW o \in Services, Materialize(o) PROVE IInv'
<1> DEFINE chunk ==
      SubSeq(claimed[o], 1, IF Len(claimed[o]) < Chunk THEN Len(claimed[o]) ELSE Chunk)
           held == {e \in ToSet(chunk) : Holds(o, e)}
<1>1. /\ \A e \in held : Holds(o, e)
      /\ event' = [e \in Sequence |->
            IF e \in held THEN [event[e] EXCEPT !.state = "materialized", !.owner = None]
            ELSE event[e]]
      /\ routed' = [s \in Subs |-> [e \in Sequence |->
            IF e \in held /\ routed[s][e] = 0 THEN Route(s, e) ELSE routed[s][e]]]
  BY DEF Materialize
<1> HIDE DEF held
<1>2. UNCHANGED <<sequence, revisions, inForce, expired>> /\ AdvanceWatermark
  BY DEF Materialize
<1>3. \A e \in held : event[e].state = "leased"
  BY <1>1 DEF Holds
<1>4. \A e \in Sequence :
         /\ event'[e].kind = event[e].kind
         /\ event'[e].state = IF e \in held THEN "materialized" ELSE event[e].state
         /\ event'[e] \in Event
  BY <1>1 DEF IInv, Typed, States, Event
<1>5. EventsMove
  <2>1. event' = [e \in Sequence |-> event'[e]]
    BY <1>1
  <2>2. event' \in [Sequence -> Event]
    BY <2>1, <1>4
  <2> QED
    BY <2>2, <1>2, <1>3, <1>4 DEF EventsMove
<1>6. \A s \in Subs, e \in Sequence :
         /\ routed[s][e] \in Nat
         /\ routed'[s][e] = IF e \in held THEN Route(s, e) ELSE routed[s][e]
  <2>1. \A s \in Subs, e \in Sequence : e \in held => routed[s][e] = 0
    BY <1>3 DEF IInv, Fresh
  <2>2. \A s \in Subs, e \in Sequence : routed[s][e] \in Nat
    BY DEF IInv, Typed
  <2> QED
    BY <1>1, <2>1, <2>2
<1>7. \A s \in Subs, e \in Sequence : routed'[s][e] \in Nat
  BY <1>3, <1>6, RouteTyped
<1>8. routed' \in [Subs -> [Sequence -> Nat]]
  BY <1>1, <1>7
<1>9. /\ watermark' \in 0..MaxSequence /\ watermark' <= sequence /\ watermark' >= watermark
      /\ \A e \in Sequence : watermark < e /\ e <= watermark' /\ Undispatched(e) => ~Unexpired(e)
  BY <1>2, <1>5, Advanced
<1>10. Chain' /\ Revoked' /\ History'
  BY <1>5, HistoryStays
<1>11. Typed'
  BY <1>2, <1>5, <1>8, <1>9 DEF IInv, Typed, EventsMove
<1>12. Fresh'
  BY <1>4, <1>5, <1>6, HistoryStays DEF IInv, Fresh
<1>13. WatermarkSound'
  BY <1>2, <1>4, <1>5, WatermarkStaysSound
<1>14. RoutedAsCommitted'
  <2> SUFFICES ASSUME NEW s \in Subs, NEW e \in Sequence, event'[e].state = "materialized"
               PROVE  \/ routed'[s][e] = inForce[s][e]
                      \/ routed'[s][e] = 0 /\ Deleted(s)
    BY <1>2 DEF RoutedAsCommitted, Deleted, Version
  <2>1. CASE e \in held
    BY <2>1, <1>3, <1>6, RouteIsInForce, DeletedRoutesNothing
  <2>2. CASE e \notin held
    BY <2>2, <1>4, <1>6 DEF IInv, RoutedAsCommitted
  <2> QED
    BY <2>1, <2>2
<1> QED
  BY <1>10, <1>11, <1>12, <1>13, <1>14 DEF IInv

\* A run that claims nothing moves the watermark only.
LEMMA ReconcileKeeps ==
    ASSUME IInv, NEW o \in Services, Reconcile(o) PROVE IInv'
<1>1. /\ UNCHANGED <<sequence, event, revisions, inForce, routed, expired>>
      /\ AdvanceWatermark
  BY DEF Reconcile
<1>2. EventsMove
  BY <1>1 DEF IInv, Typed, EventsMove
<1>3. Typed'
  BY <1>1, <1>2, Advanced DEF IInv, Typed
<1>4. Chain' /\ Revoked' /\ History' /\ Fresh'
  BY <1>1, <1>2, HistoryStays DEF IInv, Fresh
<1>5. WatermarkSound'
  BY <1>1, <1>2, WatermarkStaysSound
<1>6. RoutedAsCommitted'
  BY <1>1 DEF IInv, RoutedAsCommitted, Deleted, Version
<1> QED
  BY <1>3, <1>4, <1>5, <1>6 DEF IInv

\* A service that dies, a lease that runs out, an event that expires.
LEMMA FaultKeeps ==
    ASSUME IInv,
           \/ \E o \in Services : Crash(o)
           \/ \E e \in Sequence : LeaseRunsOut(e) \/ Expire(e)
    PROVE  IInv'
<1>1. /\ UNCHANGED <<sequence, revisions, inForce, routed, watermark>>
      /\ expired \subseteq expired'
  BY DEF Crash, LeaseRunsOut, Expire
<1>2. /\ event' \in [Sequence -> Event]
      /\ \A e \in Sequence : event'[e].kind = event[e].kind /\ event'[e].state = event[e].state
  <2>1. CASE UNCHANGED event
    BY <2>1 DEF IInv, Typed
  <2>2. ASSUME NEW o \in Services, Crash(o)
        PROVE  /\ event' \in [Sequence -> Event]
               /\ \A e \in Sequence : /\ event'[e].kind = event[e].kind
                                      /\ event'[e].state = event[e].state
    BY <2>2 DEF IInv, Typed, Crash, Event
  <2> QED
    BY <2>1, <2>2 DEF LeaseRunsOut, Expire
<1>3. EventsMove
  BY <1>1, <1>2 DEF EventsMove
<1> QED
  BY <1>1, <1>2, <1>3, MovingKeeps

-----------------------------------------------------------------------------
(* Steps that take a sequence number.                                      *)

\* The next event lies in the last interval of every subscription.
LEMMA CommitKeeps ==
    ASSUME IInv, NEW kind \in Kinds, NEW state \in {"pending", "suppressed"}, Commit(kind, state)
    PROVE  IInv'
<1> DEFINE n == sequence + 1
<1>1. n \in Sequence /\ n \in Nat /\ n > sequence /\ watermark < n /\ sequence' = n /\ n <= MaxSequence
  BY OutboxAssumption DEF IInv, Typed, Commit, Sequence
<1>2. UNCHANGED <<expired, revisions, routed, watermark>>
  BY DEF Commit
<1> HIDE DEF n
<1>3. /\ event' = [event EXCEPT ![n] = [state |-> state, kind |-> kind, owner |-> None]]
      /\ inForce' = [s \in Subs |-> [inForce[s] EXCEPT ![n] =
            IF ~Deleted(s) /\ kind \in revisions[s][Version(s)].accepts THEN Version(s) ELSE 0]]
  BY DEF Commit, n
<1>4. /\ event'[n].state = state /\ event'[n].kind = kind
      /\ \A e \in Sequence \ {n} : event'[e] = event[e]
      /\ event' \in [Sequence -> Event]
  BY <1>1, <1>3 DEF IInv, Typed, States, Event
<1>5. /\ \A s \in Subs : Version(s) \in Nat
      /\ \A s \in Subs : Version(s)' = Version(s)
      /\ \A s \in Subs : Deleted(s)' <=> Deleted(s)
  BY <1>2 DEF IInv, Typed, Version, Deleted
<1>6. /\ \A s \in Subs, e \in Sequence \ {n} : inForce'[s][e] = inForce[s][e]
      /\ \A s \in Subs : inForce'[s][n] =
            IF kind \in revisions[s][Version(s)].accepts THEN Version(s) ELSE 0
      /\ inForce' \in [Subs -> [Sequence -> Nat]]
  <2>1. \A s \in Subs : Deleted(s) => kind \notin revisions[s][Version(s)].accepts
    BY DEF IInv, Revoked
  <2> QED
    BY <1>1, <1>3, <1>5, <2>1 DEF IInv, Typed
<1>7. Typed'
  BY <1>1, <1>2, <1>4, <1>6 DEF IInv, Typed
<1>8. \A s \in Subs : \A v \in 1..Version(s) : revisions[s][v].from \in Nat
  BY RowTyped DEF IInv
<1>9. Chain'
  <2>1. \A s \in Subs : \A v \in 1..Version(s) : revisions[s][v].from <= n
    BY <1>1, <1>8 DEF IInv, Chain, Typed
  <2> QED
    BY <1>1, <1>2, <2>1 DEF IInv, Chain, Version
<1>10. Revoked'
  BY <1>2, <1>5 DEF IInv, Revoked
<1>11. \A s \in Subs : \A v, e : Covers(s, v, e)' <=> Covers(s, v, e)
  BY <1>2, <1>5 DEF Covers
<1>12. History'
  <2> SUFFICES ASSUME NEW s \in Subs, NEW e \in Sequence, event'[e].state # "none"
               PROVE  \E v \in 1..Version(s) :
                         /\ Covers(s, v, e)
                         /\ inForce'[s][e] =
                               IF event'[e].kind \in revisions[s][v].accepts THEN v ELSE 0
    BY <1>2, <1>5, <1>11 DEF History
  <2>1. CASE e = n
    <3>1. Version(s) \in 1..Version(s)
      BY <1>5 DEF IInv, Chain
    <3>2. Covers(s, Version(s), n)
      BY <3>1, <1>1, <1>8 DEF IInv, Chain, Covers, Typed
    <3> QED
      BY <2>1, <3>1, <3>2, <1>4, <1>6
  <2>2. CASE e # n
    BY <2>2, <1>4, <1>6 DEF IInv, History
  <2> QED
    BY <2>1, <2>2
<1>13. Fresh'
  <2>1. \A e \in Sequence : e \in Nat
    BY OutboxAssumption DEF Sequence
  <2>2. event[n].state = "none"
    BY <1>1 DEF IInv, Fresh, Typed
  <2>3. \A e \in Sequence : event'[e].state # "none" => e <= sequence'
    BY <1>1, <1>4, <2>1 DEF IInv, Fresh, Typed
  <2>4. \A s \in Subs, e \in Sequence : event'[e].state # "materialized" => routed'[s][e] = 0
    BY <1>1, <1>2, <1>4, <2>2 DEF IInv, Fresh
  <2> QED
    BY <2>3, <2>4 DEF Fresh
<1>14. WatermarkSound'
  BY <1>1, <1>2, <1>4, OutboxAssumption DEF IInv, WatermarkSound, Typed, Sequence, Unexpired
<1>15. RoutedAsCommitted'
  BY <1>2, <1>4, <1>5, <1>6 DEF IInv, RoutedAsCommitted
<1> QED
  BY <1>7, <1>9, <1>10, <1>12, <1>13, <1>14, <1>15 DEF IInv

\* The revision in force ends where its successor starts; a deletion revokes
\* all of them.
Succeeds(s, accepts, gone) ==
    /\ sequence' = sequence + 1 /\ sequence' <= MaxSequence
    /\ revisions'[s] \in Seq(Revision) /\ Len(revisions'[s]) = Version(s) + 1
    /\ \A v \in 1..Version(s) :
          /\ revisions'[s][v].from = revisions[s][v].from
          /\ revisions'[s][v].accepts = revisions[s][v].accepts
          /\ revisions'[s][v].until =
                IF v = Version(s) THEN sequence + 1 ELSE revisions[s][v].until
          /\ revisions'[s][v].revoked <=> gone \/ revisions[s][v].revoked
    /\ revisions'[s][Version(s) + 1] =
          [from |-> sequence + 1, until |-> 0, accepts |-> accepts, revoked |-> gone]
    /\ \A t \in Subs \ {s} : revisions'[t] = revisions[t]
    /\ DOMAIN revisions' = Subs /\ revisions' = [t \in Subs |-> revisions'[t]]
    /\ UNCHANGED <<event, expired, routed, watermark, inForce>>

\* A change of the last revision and a new one after it are the successor.
LEMMA Appended ==
    ASSUME Typed, NEW s \in Subs, Version(s) >= 1, sequence < MaxSequence,
           NEW accepts \in SUBSET Kinds, NEW gone \in BOOLEAN, NEW old \in Seq(Revision),
           Len(old) = Version(s),
           \A v \in 1..Version(s) :
              /\ old[v].from = revisions[s][v].from /\ old[v].accepts = revisions[s][v].accepts
              /\ old[v].until = IF v = Version(s) THEN sequence + 1 ELSE revisions[s][v].until
              /\ old[v].revoked <=> gone \/ revisions[s][v].revoked,
           sequence' = sequence + 1,
           revisions' = [revisions EXCEPT ![s] = Append(old,
              [from |-> sequence + 1, until |-> 0, accepts |-> accepts, revoked |-> gone])],
           UNCHANGED <<event, expired, routed, watermark, inForce>>
    PROVE  Succeeds(s, accepts, gone)
<1> DEFINE new == [from |-> sequence + 1, until |-> 0, accepts |-> accepts, revoked |-> gone]
<1>1. new \in Revision /\ sequence + 1 <= MaxSequence /\ Version(s) \in Nat
  BY OutboxAssumption DEF Typed, Revision, Version
<1>2. revisions' = [revisions EXCEPT ![s] = Append(old, new)]
  OBVIOUS
<1> HIDE DEF new
<1>3. /\ Append(old, new) \in Seq(Revision) /\ Len(Append(old, new)) = Version(s) + 1
      /\ \A v \in 1..Version(s) : Append(old, new)[v] = old[v]
      /\ Append(old, new)[Version(s) + 1] = new
  BY <1>1
<1>4. /\ revisions'[s] = Append(old, new)
      /\ \A t \in Subs \ {s} : revisions'[t] = revisions[t]
      /\ DOMAIN revisions' = Subs /\ revisions' = [t \in Subs |-> revisions'[t]]
  BY <1>2 DEF Typed
<1> QED
  BY <1>1, <1>3, <1>4 DEF Succeeds, new

\* update() writes a successor.
LEMMA UpdateSucceeds ==
    ASSUME IInv, NEW s \in Subs, NEW accepts \in SUBSET Kinds, UpdateSubscription(s, accepts)
    PROVE  ~Deleted(s) /\ Succeeds(s, accepts, FALSE)
<1> DEFINE old == [revisions[s] EXCEPT ![Len(revisions[s])].until = sequence + 1]
<1>1. revisions[s] \in Seq(Revision) /\ Version(s) \in Nat /\ Version(s) >= 1
  BY DEF IInv, Typed, Chain, Version
<1>2. /\ \A v \in 1..Version(s) : revisions[s][v] \in Revision
      /\ sequence + 1 \in Nat
  <2>1. \A v \in 1..Version(s) : revisions[s][v] \in Revision
    BY RowTyped DEF IInv
  <2>2. sequence + 1 \in Nat
    BY OutboxAssumption DEF IInv, Typed
  <2> QED
    BY <2>1, <2>2
<1>3. [revisions[s][Version(s)] EXCEPT !.until = sequence + 1] \in Revision
  BY <1>1, <1>2, RowEnds
<1>4. old = [revisions[s] EXCEPT ![Version(s)] = [revisions[s][Version(s)] EXCEPT !.until = sequence + 1]]
  BY DEF Version
<1>5. old \in Seq(Revision) /\ Len(old) = Version(s)
  BY <1>1, <1>3, <1>4, ExceptSeq DEF Version
<1>6. \A v \in 1..Version(s) :
         old[v] = IF v = Version(s) THEN [revisions[s][v] EXCEPT !.until = sequence + 1]
                  ELSE revisions[s][v]
  BY <1>1, <1>3, <1>4, ExceptSeq DEF Version
<1>7. \A v \in 1..Version(s) :
         /\ old[v].from = revisions[s][v].from /\ old[v].accepts = revisions[s][v].accepts
         /\ old[v].until = IF v = Version(s) THEN sequence + 1 ELSE revisions[s][v].until
         /\ old[v].revoked = revisions[s][v].revoked
  <2> SUFFICES ASSUME NEW v \in 1..Version(s)
               PROVE  /\ old[v].from = revisions[s][v].from /\ old[v].accepts = revisions[s][v].accepts
                      /\ old[v].until = IF v = Version(s) THEN sequence + 1 ELSE revisions[s][v].until
                      /\ old[v].revoked = revisions[s][v].revoked
    OBVIOUS
  <2> HIDE DEF old
  <2> DEFINE row == revisions[s][v]
  <2>1. row \in Revision /\ (old[v] = IF v = Version(s) THEN [row EXCEPT !.until = sequence + 1] ELSE row)
    BY <1>2, <1>6
  <2> HIDE DEF row
  <2>2. /\ old[v].from = row.from /\ old[v].accepts = row.accepts
        /\ old[v].until = IF v = Version(s) THEN sequence + 1 ELSE row.until
        /\ old[v].revoked = row.revoked
    BY <2>1, <1>2, RowEnds
  <2> QED
    BY <2>2 DEF row
<1>8. /\ revisions' = [revisions EXCEPT ![s] = Append(old,
              [from |-> sequence + 1, until |-> 0, accepts |-> accepts, revoked |-> FALSE])]
      /\ sequence < MaxSequence /\ sequence' = sequence + 1 /\ ~Deleted(s)
      /\ UNCHANGED <<event, expired, routed, watermark, inForce>>
  BY DEF UpdateSubscription
<1> HIDE DEF old
<1> QED
  BY <1>1, <1>5, <1>7, <1>8, Appended DEF IInv

\* remove() writes the last successor and revokes its predecessors.
LEMMA RemoveSucceeds ==
    ASSUME IInv, NEW s \in Subs, RemoveSubscription(s)
    PROVE  ~Deleted(s) /\ Succeeds(s, {}, TRUE)
<1> DEFINE last == Version(s)
           closed == [revisions[s] EXCEPT ![last].until = sequence + 1]
           old == [v \in 1..last |-> [closed[v] EXCEPT !.revoked = TRUE]]
<1>1. revisions[s] \in Seq(Revision) /\ Version(s) \in Nat /\ Version(s) >= 1
  BY DEF IInv, Typed, Chain, Version
<1>2. /\ \A v \in 1..last : revisions[s][v] \in Revision
      /\ sequence + 1 \in Nat
  <2>1. \A v \in 1..last : revisions[s][v] \in Revision
    BY RowTyped DEF IInv
  <2>2. sequence + 1 \in Nat
    BY OutboxAssumption DEF IInv, Typed
  <2> QED
    BY <2>1, <2>2
<1>3. [revisions[s][last] EXCEPT !.until = sequence + 1] \in Revision
  BY <1>1, <1>2, RowEnds
<1>4. \A v \in 1..last :
         closed[v] = IF v = last THEN [revisions[s][v] EXCEPT !.until = sequence + 1]
                     ELSE revisions[s][v]
  BY <1>1, <1>3, ExceptSeq DEF Version
<1>5. \A v \in 1..last :
         /\ closed[v] \in Revision
         /\ closed[v].from = revisions[s][v].from /\ closed[v].accepts = revisions[s][v].accepts
         /\ closed[v].until = IF v = last THEN sequence + 1 ELSE revisions[s][v].until
  <2> SUFFICES ASSUME NEW v \in 1..last
               PROVE  /\ closed[v] \in Revision
                      /\ closed[v].from = revisions[s][v].from
                      /\ closed[v].accepts = revisions[s][v].accepts
                      /\ closed[v].until = IF v = last THEN sequence + 1 ELSE revisions[s][v].until
    OBVIOUS
  <2> HIDE DEF closed
  <2> DEFINE row == revisions[s][v]
  <2>1. row \in Revision /\ (closed[v] = IF v = last THEN [row EXCEPT !.until = sequence + 1] ELSE row)
    BY <1>2, <1>4
  <2> HIDE DEF row
  <2>2. /\ closed[v] \in Revision /\ closed[v].from = row.from /\ closed[v].accepts = row.accepts
        /\ closed[v].until = IF v = last THEN sequence + 1 ELSE row.until
    BY <2>1, <1>2, RowEnds
  <2> QED
    BY <2>2 DEF row
<1> HIDE DEF closed
<1>6. \A v \in 1..last :
         /\ old[v] \in Revision
         /\ old[v].from = closed[v].from /\ old[v].accepts = closed[v].accepts
         /\ old[v].until = closed[v].until /\ old[v].revoked = TRUE
  <2> SUFFICES ASSUME NEW v \in 1..last
               PROVE  /\ old[v] \in Revision
                      /\ old[v].from = closed[v].from /\ old[v].accepts = closed[v].accepts
                      /\ old[v].until = closed[v].until /\ old[v].revoked = TRUE
    OBVIOUS
  <2>1. closed[v] \in Revision /\ old[v] = [closed[v] EXCEPT !.revoked = TRUE]
    BY <1>5
  <2> HIDE DEF old
  <2> DEFINE row == closed[v]
  <2>2. row \in Revision /\ old[v] = [row EXCEPT !.revoked = TRUE]
    BY <2>1
  <2> HIDE DEF row
  <2>3. /\ old[v] \in Revision /\ old[v].from = row.from /\ old[v].accepts = row.accepts
        /\ old[v].until = row.until /\ old[v].revoked = TRUE
    BY <2>2, RowRevoked
  <2> QED
    BY <2>3 DEF row
<1>7. old \in Seq(Revision) /\ Len(old) = last
  <2>1. old = [v \in 1..last |-> old[v]]
    OBVIOUS
  <2> HIDE DEF old, last
  <2>2. last \in Nat
    BY <1>1 DEF last
  <2> QED
    BY <2>1, <2>2, <1>6
<1>8. /\ revisions' = [revisions EXCEPT ![s] = Append(old,
              [from |-> sequence + 1, until |-> 0, accepts |-> {}, revoked |-> TRUE])]
      /\ sequence < MaxSequence /\ sequence' = sequence + 1 /\ ~Deleted(s)
      /\ UNCHANGED <<event, expired, routed, watermark, inForce>>
  BY DEF RemoveSubscription, closed
<1> HIDE DEF old
<1>9. \A v \in 1..Version(s) :
         /\ old[v].from = revisions[s][v].from /\ old[v].accepts = revisions[s][v].accepts
         /\ old[v].until = IF v = Version(s) THEN sequence + 1 ELSE revisions[s][v].until
         /\ old[v].revoked <=> TRUE \/ revisions[s][v].revoked
  BY <1>5, <1>6
<1> QED
  BY <1>1, <1>7, <1>8, <1>9, Appended DEF IInv

\* A new revision keeps the intervals apart and moves no event that is committed.
LEMMA SucceedsKeeps ==
    ASSUME IInv, NEW s \in Subs, NEW accepts \in SUBSET Kinds, NEW gone \in BOOLEAN,
           ~Deleted(s), gone => accepts = {}, Succeeds(s, accepts, gone)
    PROVE  IInv'
<1> DEFINE n == Version(s)
<1>1. /\ \A t \in Subs : Version(t) \in Nat /\ Version(t) >= 1
      /\ sequence \in Nat /\ sequence + 1 <= MaxSequence
      /\ sequence' = sequence + 1
      /\ UNCHANGED <<event, expired, routed, watermark, inForce>>
  BY OutboxAssumption DEF IInv, Typed, Chain, Version, Succeeds
<1>2. /\ Version(s)' = n + 1
      /\ \A v \in 1..n :
            /\ revisions'[s][v].from = revisions[s][v].from
            /\ revisions'[s][v].accepts = revisions[s][v].accepts
            /\ revisions'[s][v].until = IF v = n THEN sequence + 1 ELSE revisions[s][v].until
            /\ revisions'[s][v].revoked <=> gone
      /\ revisions'[s][n + 1].from = sequence + 1 /\ revisions'[s][n + 1].until = 0
      /\ revisions'[s][n + 1].accepts = accepts /\ revisions'[s][n + 1].revoked = gone
  BY DEF IInv, Revoked, Succeeds, Version
<1>3. \A t \in Subs \ {s} :
         /\ Version(t)' = Version(t) /\ revisions'[t] = revisions[t]
         /\ Deleted(t)' <=> Deleted(t)
  BY DEF Succeeds, Version, Deleted
<1>4. Deleted(s)' <=> gone
  BY <1>2 DEF Deleted
<1>5. Typed'
  <2>1. revisions' \in [Subs -> Seq(Revision)]
    <3>1. \A t \in Subs : revisions'[t] \in Seq(Revision)
      BY <1>3 DEF Succeeds, IInv, Typed
    <3>2. revisions' = [t \in Subs |-> revisions'[t]]
      BY DEF Succeeds
    <3> QED
      BY <3>1, <3>2
  <2>2. sequence' \in 0..MaxSequence /\ watermark' \in 0..MaxSequence /\ watermark' <= sequence'
    BY <1>1, OutboxAssumption DEF IInv, Typed
  <2> QED
    BY <1>1, <2>1, <2>2 DEF IInv, Typed
<1>6. \A t \in Subs : \A v \in 1..Version(t) :
         /\ revisions[t][v].from \in Nat /\ revisions[t][v].until \in Nat
         /\ revisions[t][v].from <= sequence
  BY RowTyped DEF IInv, Chain
<1>7. Chain'
  <2>1. ASSUME NEW t \in Subs \ {s}
        PROVE  /\ Version(t) >= 1 /\ revisions'[t][Version(t)].until = 0
               /\ \A v \in 1..Version(t) : revisions'[t][v].from <= sequence'
               /\ \A u, v \in 1..Version(t) : u < v =>
                     revisions'[t][u].until # 0 /\ revisions'[t][u].until <= revisions'[t][v].from
    BY <1>1, <1>3, <1>6 DEF IInv, Chain
  <2>2. n + 1 >= 1 /\ \A v \in 1..(n + 1) : revisions'[s][v].from <= sequence'
    BY <1>1, <1>2, <1>6
  <2>3. ASSUME NEW u \in 1..(n + 1), NEW v \in 1..(n + 1), u < v
        PROVE  revisions'[s][u].until # 0 /\ revisions'[s][u].until <= revisions'[s][v].from
    <3>1. u \in 1..n
      BY <1>1, <2>3
    <3>2. CASE u = n
      BY <3>1, <3>2, <1>1, <1>2, <2>3
    <3>3. CASE u # n /\ v = n + 1
      <4>1. revisions[s][u].until # 0 /\ revisions[s][u].until <= revisions[s][n].from
        BY <3>1, <3>3, <1>1 DEF IInv, Chain
      <4> QED
        BY <4>1, <3>1, <3>3, <1>1, <1>2, <1>6
    <3>4. CASE u # n /\ v # n + 1
      <4>1. revisions[s][u].until # 0 /\ revisions[s][u].until <= revisions[s][v].from /\ v \in 1..n
        BY <3>1, <3>4, <2>3, <1>1 DEF IInv, Chain
      <4> QED
        BY <4>1, <3>1, <3>4, <1>2
    <3> QED
      BY <3>2, <3>3, <3>4
  <2> QED
    BY <1>2, <1>3, <2>1, <2>2, <2>3 DEF Chain
<1>8. Revoked'
  <2>1. ASSUME NEW t \in Subs \ {s}
        PROVE  /\ \A v \in 1..Version(t) : revisions'[t][v].revoked <=> Deleted(t)
               /\ Deleted(t) => revisions'[t][Version(t)].accepts = {}
    BY <1>3 DEF IInv, Revoked
  <2>2. /\ \A v \in 1..(n + 1) : revisions'[s][v].revoked <=> gone
        /\ gone => revisions'[s][n + 1].accepts = {}
    BY <1>1, <1>2
  <2> QED
    BY <1>2, <1>3, <1>4, <2>1, <2>2 DEF Revoked
<1>9. History'
  <2> SUFFICES ASSUME NEW t \in Subs, NEW e \in Sequence, event[e].state # "none"
               PROVE  \E v \in 1..Version(t)' :
                         /\ Covers(t, v, e)'
                         /\ inForce[t][e] =
                               IF event[e].kind \in revisions'[t][v].accepts THEN v ELSE 0
    BY <1>1 DEF History
  <2>1. PICK v \in 1..Version(t) :
           /\ Covers(t, v, e)
           /\ inForce[t][e] = IF event[e].kind \in revisions[t][v].accepts THEN v ELSE 0
    BY DEF IInv, History
  <2>2. CASE t = s
    <3>1. e <= sequence /\ e \in Nat
      BY OutboxAssumption DEF IInv, Fresh, Sequence
    <3>2. v \in 1..Version(s)'
      BY <2>1, <2>2, <1>1, <1>2
    <3>3. Covers(s, v, e)'
      BY <2>1, <2>2, <3>1, <3>2, <1>1, <1>2 DEF Covers
    <3> QED
      BY <2>1, <2>2, <3>2, <3>3, <1>2
  <2>3. CASE t # s
    BY <2>1, <2>3, <1>3 DEF Covers
  <2> QED
    BY <2>2, <2>3
<1>10. Fresh'
  BY <1>1, OutboxAssumption DEF IInv, Fresh, Sequence
<1>11. WatermarkSound'
  BY <1>1 DEF IInv, WatermarkSound, Unexpired
<1>12. RoutedAsCommitted'
  BY <1>1, <1>3 DEF IInv, RoutedAsCommitted
<1> QED
  BY <1>5, <1>7, <1>8, <1>9, <1>10, <1>11, <1>12 DEF IInv

-----------------------------------------------------------------------------
\* Every step keeps the invariant.
LEMMA InvariantStep == IInv /\ [Next]_vars => IInv'
<1> SUFFICES ASSUME IInv, [Next]_vars PROVE IInv'
  OBVIOUS
<1>1. ASSUME NEW s \in Subs, NEW accepts \in SUBSET Kinds, UpdateSubscription(s, accepts)
      PROVE  IInv'
  BY <1>1, UpdateSucceeds, SucceedsKeeps
<1>2. ASSUME NEW s \in Subs, RemoveSubscription(s) PROVE IInv'
  BY <1>2, RemoveSucceeds, SucceedsKeeps
<1>3. ASSUME NEW o \in Services, ServiceStep(o) PROVE IInv'
  BY <1>3, ClaimKeeps, MaterializeKeeps, ReconcileKeeps DEF ServiceStep
<1>4. CASE UNCHANGED vars
  BY <1>4 DEF vars, IInv, Typed, Chain, Revoked, History, Fresh, WatermarkSound,
              RoutedAsCommitted, Covers, Version, Deleted, Unexpired
<1> QED
  BY <1>1, <1>2, <1>3, <1>4, CommitKeeps, FaultKeeps DEF Next

\* At first nothing is committed, and every subscription has one revision.
LEMMA InvariantInit == Init => IInv
<1> SUFFICES ASSUME Init PROVE IInv
  OBVIOUS
<1> DEFINE first == [from |-> 0, until |-> 0, accepts |-> Kinds, revoked |-> FALSE]
<1>1. first \in Revision
  BY DEF Revision
<1>2. \A s \in Subs : revisions[s] = <<first>>
  BY DEF Init
<1>3. /\ first.from = 0 /\ first.until = 0 /\ first.revoked = FALSE
  OBVIOUS
<1>4. revisions = [s \in Subs |-> <<first>>]
  BY DEF Init
<1> HIDE DEF first
<1>5. \A s \in Subs : Version(s) = 1 /\ revisions[s][1] = first
  BY <1>2 DEF Version
<1>6. revisions \in [Subs -> Seq(Revision)]
  BY <1>1, <1>4
<1>7. Typed
  <2>1. event \in [Sequence -> Event]
    BY DEF Init, States, Event
  <2>2. /\ routed \in [Subs -> [Sequence -> Nat]] /\ inForce \in [Subs -> [Sequence -> Nat]]
        /\ sequence = 0 /\ watermark = 0
    BY DEF Init
  <2> QED
    BY <2>1, <2>2, <1>6, OutboxAssumption DEF Typed
<1>8. Chain /\ Revoked
  BY <1>3, <1>5 DEF Init, Chain, Revoked, Deleted
<1>9. History /\ Fresh /\ RoutedAsCommitted
  BY DEF Init, History, Fresh, RoutedAsCommitted
<1>10. WatermarkSound
  BY DEF Init, WatermarkSound
<1> QED
  BY <1>7, <1>8, <1>9, <1>10 DEF IInv

\* The invariant holds in every reachable state.
LEMMA InvariantHolds == Spec => []IInv
BY InvariantInit, InvariantStep, PTL DEF Spec

\* A materialized event went to a subscription exactly when the revision in
\* force at its commit accepted it, unless the subscription had been deleted.
THEOREM RoutedAsCommittedHolds == Spec => []RoutedAsCommitted
<1>1. IInv => RoutedAsCommitted
  BY DEF IInv
<1> QED
  BY <1>1, InvariantHolds, PTL

\* Behind the watermark nothing is left to dispatch.
THEOREM WatermarkSoundHolds == Spec => []WatermarkSound
<1>1. IInv => WatermarkSound
  BY DEF IInv
<1> QED
  BY <1>1, InvariantHolds, PTL

\* Nothing is routed to a subscription that has been deleted, not even an event
\* that was claimed before.
THEOREM NothingRoutedToDeletedHolds == Spec => NothingRoutedToDeleted
<1> DEFINE Quiet == \A s \in Subs : Deleted(s) => routed'[s] = routed[s]
<1>1. ASSUME IInv, [Next]_vars PROVE Quiet
  <2>1. ASSUME NEW o \in Services, Materialize(o), NEW s \in Subs, Deleted(s)
        PROVE  routed'[s] = routed[s]
    <3> DEFINE chunk ==
          SubSeq(claimed[o], 1, IF Len(claimed[o]) < Chunk THEN Len(claimed[o]) ELSE Chunk)
               held == {e \in ToSet(chunk) : Holds(o, e)}
    <3>1. routed'[s] = [e \in Sequence |->
             IF e \in held /\ routed[s][e] = 0 THEN Route(s, e) ELSE routed[s][e]]
      BY <2>1 DEF Materialize
    <3> HIDE DEF held
    <3>2. \A e \in Sequence : Route(s, e) = 0
      BY <1>1, <2>1, DeletedRoutesNothing
    <3>3. routed'[s] = [e \in Sequence |-> routed[s][e]]
      BY <3>1, <3>2
    <3>4. routed[s] = [e \in Sequence |-> routed[s][e]]
      BY <1>1 DEF IInv, Typed
    <3> QED
      BY <3>3, <3>4
  <2>2. CASE UNCHANGED routed
    BY <2>2
  <2> QED
    BY <1>1, <2>1, <2>2 DEF Next, vars, Commit, UpdateSubscription, RemoveSubscription, ServiceStep,
                            Claim, Reconcile, Crash, LeaseRunsOut, Expire
<1>2. IInv /\ [Next]_vars => [Quiet]_vars
  BY <1>1
<1> QED
  BY <1>2, InvariantHolds, PTL DEF Spec, NothingRoutedToDeleted
=============================================================================
