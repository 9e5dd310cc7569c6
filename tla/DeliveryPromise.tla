-------------------------- MODULE DeliveryPromise --------------------------
(***************************************************************************)
(* What the webhook delivery promises a receiver and an administrator,     *)
(* without workers, leases, queues or versions.  A delivery is open until  *)
(* it is settled, and settled once: it counts as delivered only after a    *)
(* request of the present round, and then for good; one that was given up  *)
(* may be opened for another round by hand.  A round makes a bounded       *)
(* number of requests.  Nothing of a subscription that is gone is open,    *)
(* or opened again; what had been prepared by then may still go out.       *)
(*                                                                         *)
(* Delivery implements this specification under the mapping given there.   *)
(***************************************************************************)
EXTENDS Naturals

CONSTANTS Deliveries, Subs, SubOf, MaxAttempts

VARIABLES
    phase,      \* where a delivery stands
    requests,   \* requests made in the present round of a delivery
    gone        \* subscriptions that have been deleted

vars == <<phase, requests, gone>>

GivenUp == {"dead", "cancelled"}

Init ==
    /\ phase = [d \in Deliveries |-> "absent"]
    /\ requests = [d \in Deliveries |-> 0]
    /\ gone = {}

Offer(d) ==
    /\ phase[d] = "absent" /\ SubOf[d] \notin gone
    /\ phase' = [phase EXCEPT ![d] = "open"]
    /\ UNCHANGED <<requests, gone>>

Request(d) ==
    /\ \/ phase[d] = "open"
       \/ phase[d] = "cancelled" /\ SubOf[d] \in gone
    /\ requests[d] < MaxAttempts
    /\ requests' = [requests EXCEPT ![d] = @ + 1]
    /\ UNCHANGED <<phase, gone>>

(* Some of the open deliveries are settled together. *)
Settle ==
    /\ phase' \in [Deliveries -> {"absent", "open", "succeeded"} \cup GivenUp]
    /\ \A d \in Deliveries :
          \/ phase'[d] = phase[d]
          \/ phase[d] = "open" /\ phase'[d] \in GivenUp
          \/ phase[d] = "open" /\ phase'[d] = "succeeded" /\ requests[d] > 0
    /\ UNCHANGED <<requests, gone>>

Reopen(d) ==
    /\ phase[d] \in GivenUp /\ SubOf[d] \notin gone
    /\ phase' = [phase EXCEPT ![d] = "open"]
    /\ requests' = [requests EXCEPT ![d] = 0]
    /\ UNCHANGED gone

Delete(s) ==
    /\ gone' = gone \cup {s}
    /\ phase' = [d \in Deliveries |->
                   IF SubOf[d] = s /\ phase[d] = "open" THEN "cancelled" ELSE phase[d]]
    /\ UNCHANGED requests

Next ==
    \/ \E d \in Deliveries : Offer(d) \/ Request(d) \/ Reopen(d)
    \/ \E s \in Subs : Delete(s)
    \/ Settle

Spec == Init /\ [][Next]_vars
=============================================================================
