-------------------------- MODULE MCReconcilePhases --------------------------
(***************************************************************************)
(* Small instances of ReconcilePhases.                                     *)
(***************************************************************************)
EXTENDS ReconcilePhases
=============================================================================
