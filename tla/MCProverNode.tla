---------------------------- MODULE MCProverNode ----------------------------
(* TLC instances of ProverNode. *)
EXTENDS ProverNode

(* There are enough requests to fill all the tasks that may run at once. *)
ASSUME TasksRunInParallel == Cardinality(Requests) >= max_concurrent /\ max_concurrent > 1
=============================================================================
