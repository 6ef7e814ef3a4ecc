--------------------------- MODULE MCAutoFinalize ---------------------------
(* AutoFinalize for TLC.  The thresholds of main.rs and of the default     *)
(* configuration, scaled down: a round every 12 iterations of 5 seconds,   *)
(* 60 seconds of recovery for chain_cb and 30 for rpc_cb.                  *)
EXTENDS AutoFinalize

CONSTANTS r1, r2

MCRpcConfig == [failure_threshold |-> 2, recovery_timeout |-> 2, success_threshold |-> 2]
MCChainConfig == [failure_threshold |-> 2, recovery_timeout |-> 2, success_threshold |-> 1]
============================================================================
