------------------------- MODULE MCReconcileSchedule -------------------------
(* A small instance of ReconcileSchedule: the .cfg gives the bounds.         *)
EXTENDS ReconcileSchedule
=============================================================================
