--------------------------- MODULE MCPayloadFence ---------------------------
(* A finite instance of PayloadFence for TLC.  Temporal properties are checked *)
(* together with the invariants, so no symmetry is declared.                   *)
EXTENDS PayloadFence
=============================================================================
