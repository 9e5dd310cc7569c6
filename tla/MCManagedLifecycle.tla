------------------------ MODULE MCManagedLifecycle ------------------------
(* Finite instances of ManagedLifecycle for TLC.                            *)
EXTENDS ManagedLifecycle

(* Behaviours in which nobody calls reconcile(): what a foreign stop() does *)
(* by itself.                                                               *)
NoReconcile == ~ \E p \in Procs : Reconcile(p)
===========================================================================
