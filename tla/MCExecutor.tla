----------------------------- MODULE MCExecutor -----------------------------
(* Executor on one task: the worker's session and an operator. *)
EXTENDS MCManagedQueue, Executor
=============================================================================
