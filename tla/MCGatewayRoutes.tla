-------------------------- MODULE MCGatewayRoutes --------------------------
EXTENDS GatewayRoutes, TLC
CONSTANTS a1, a2, d1, d2, s1, r1, r2
\* A deployment of each asset, and a stop or delete of the first.
OneEach == (d1 :> a1) @@ (d2 :> a2) @@ (s1 :> a1)
\* One asset, deployed and stopped.
Alone   == (d1 :> a1) @@ (s1 :> a1)
=============================================================================
