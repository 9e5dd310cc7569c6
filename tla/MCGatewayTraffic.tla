-------------------------- MODULE MCGatewayTraffic --------------------------
EXTENDS GatewayTraffic, TLC
CONSTANTS q1, q2, q3, ra, rb, shared, asset, own
Symmetry == Permutations(Requests)
\* Two routes of one runtime asset behind one breaker; the asset's buckets and
\* pools are shared, route ra also has its own, and rb asks for another window.
Shared    == [r \in Routes |-> shared]
Rates     == (ra :> (asset :> 3 @@ own :> 2)) @@ (rb :> (asset :> 2))
Windows   == (ra :> 2) @@ (rb :> 1)
Limits    == (ra :> (asset :> 2 @@ own :> 1)) @@ (rb :> (asset :> 1))
\* One route with a rate limit only, and one with a breaker only.
OneRate    == ra :> (asset :> 1)
Unlimited == [r \in Routes |-> [k \in {} |-> 1]]
LongWindow == [r \in Routes |-> 2]
=============================================================================
