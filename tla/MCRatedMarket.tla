--------------------------- MODULE MCRatedMarket ----------------------------
(* RatedMarket for TLC. *)
EXTENDS RatedMarket

(* The clock goes on past the last request's expiry and claim window, so   *)
(* that its bound never keeps a deadline from passing.                     *)
ASSUME ClockReachesEveryDeadline ==
    MaxTime > Horizon + MAX_EXPIRATION + CLAIM_WINDOW
=============================================================================
