------------------------------ MODULE MCOutbox ------------------------------
(* A finite instance of Outbox for TLC.  Temporal properties are checked       *)
(* together with the invariants, so no symmetry is declared.                   *)
EXTENDS Outbox
=============================================================================
