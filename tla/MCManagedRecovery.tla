------------------------- MODULE MCManagedRecovery -------------------------
(***************************************************************************)
(* Small instances of ManagedRecovery; the bounds are in the .cfg files.   *)
(***************************************************************************)
EXTENDS ManagedRecovery
=============================================================================
