---------------------------- MODULE MCBatchClient ---------------------------
(* BatchClient for TLC: a circuit of two batches, finalized in two calls.  *)
EXTENDS BatchClient

CONSTANTS q1, c1, g1

MCDescriptions ==
    {[numComputeLayers |-> 3, inputs |-> <<[committed |-> TRUE, claims |-> 3], [committed |-> FALSE, claims |-> 1]>>,
      gensHash |-> g1]}

MCMyArguments == [messages |-> <<2, 1, 1>>, gens |-> g1]
MCArguments == {MCMyArguments}
============================================================================
