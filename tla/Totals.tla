------------------------------- MODULE Totals -------------------------------
(***************************************************************************)
(* The sum of the values of a function, as the contracts' accounts need    *)
(* it: of what is owed for all results, staked by all provers, and so on.  *)
(***************************************************************************)
EXTENDS Integers, FiniteSetsExt

Total(f) == MapThenSumSet(LAMBDA x : f[x], DOMAIN f)
=============================================================================
