-------------------------- MODULE MCTEEMLVerifier --------------------------
(* TLC instances of TEEMLVerifier. *)
EXTENDS TEEMLVerifier

(* The horizon leaves room for the last result's windows, so that the      *)
(* clock's bound never keeps a deadline from being reached.                *)
ASSUME ClockReachesEveryDeadline ==
    MaxTime >= Horizon + MaxChallengeWindow + MaxDisputeWindow + MaxExtensions * ExtensionPeriod
============================================================================
