-------------------------- MODULE MCProverRegistry --------------------------
(* TLC instances of ProverRegistry. *)
EXTENDS ProverRegistry, TLC

(* Provers are interchangeable. *)
ProverSymmetry == Permutations(Provers)
=============================================================================
