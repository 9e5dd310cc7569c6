----------------------------- MODULE MCDelivery -----------------------------
(* Finite instances of Delivery for TLC. *)
EXTENDS Delivery

CONSTANTS s1, s2, d1, d2, d3

(* One subscription with every delivery, or a second one behind it. *)
OneSub == [d \in Deliveries |-> s1]
LastOnly == [d \in Deliveries |-> IF d = d3 THEN s2 ELSE s1]
=============================================================================
