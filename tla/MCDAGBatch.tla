----------------------------- MODULE MCDAGBatch -----------------------------
(* DAGBatch for TLC: batches of two layers and of two groups, and circuits *)
(* whose layers and groups are below, at and above a multiple of that, one *)
(* of them with a committed layer that has no claims.  The two proofs      *)
(* differ in the number of layers, of messages and in the generators.      *)
EXTENDS DAGBatch

CONSTANTS q1, q2, c1, g1, g2

In(committed, claims) == [committed |-> committed, claims |-> claims]
Circuit(n, inputs, gensHash) == [numComputeLayers |-> n, inputs |-> inputs, gensHash |-> gensHash]

MCDescriptions ==
    {Circuit(2, <<In(FALSE, 2), In(TRUE, 4), In(FALSE, 1)>>, Nothing),
     Circuit(5, <<In(TRUE, 3), In(FALSE, 0), In(TRUE, 3)>>, g1),
     Circuit(1, <<In(TRUE, 1)>>, Nothing),
     Circuit(2, <<In(FALSE, 1), In(TRUE, 0)>>, g1)}

MCArguments == {[messages |-> <<2, 1, 1, 2, 1>>, gens |-> g1], [messages |-> <<1, 1, 3, 1>>, gens |-> g2]}
============================================================================
