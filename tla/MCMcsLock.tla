----------------------------- MODULE MCMcsLock -----------------------------
(* Bounds for the model checking of McsLock. *)
EXTENDS McsLock

=============================================================================
