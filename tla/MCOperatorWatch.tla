------------------------- MODULE MCOperatorWatch -------------------------
(* Model values for the disputes. *)
EXTENDS OperatorWatch

CONSTANTS d1, d2
DisputeSymmetry == Permutations(Disputes)
====
