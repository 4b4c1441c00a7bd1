-------------------------- MODULE MCRecoveryTasks --------------------------
(* Two tasks of one run and two restore points. *)
EXTENDS RecoveryTasks
=============================================================================
