--------------------------- MODULE CircuitBreaker ---------------------------
(***************************************************************************)
(* services/operator, circuit_breaker.rs: one breaker as a value, and its  *)
(* operations, each atomic under the breaker's mutex.  Time is counted in  *)
(* iterations of the watch loop; `elapsed' is the time since opened_at, as *)
(* far as it is told apart from recovery_timeout.  The failure count only  *)
(* matters up to the threshold and stops there.  Left out: the counters    *)
(* kept for metrics (trips_total, state_changes_total).                    *)
(***************************************************************************)
EXTENDS Naturals

Config == [failure_threshold : Nat \ {0}, recovery_timeout : Nat, success_threshold : Nat \ {0}]

AtMost(n, limit) == IF n > limit THEN limit ELSE n

Breaker(cfg) ==
    [state : {"Closed", "Open", "HalfOpen"}, failures : 0 .. cfg.failure_threshold,
     successes : 0 .. cfg.success_threshold, elapsed : 0 .. cfg.recovery_timeout]

New == [state |-> "Closed", failures |-> 0, successes |-> 0, elapsed |-> 0]

Opened(b) == [b EXCEPT !.state = "Open", !.elapsed = 0]

(* Time passes; opened_at is None while it is Closed.                      *)
Aged(b, cfg) ==
    IF b.state = "Closed" THEN b ELSE [b EXCEPT !.elapsed = AtMost(@ + 1, cfg.recovery_timeout)]

maybe_transition_to_half_open(b, cfg) ==
    IF b.state = "Open" /\ b.elapsed >= cfg.recovery_timeout
    THEN [b EXCEPT !.state = "HalfOpen", !.successes = 0]
    ELSE b

(* allow_request: what it leaves behind and whether it is Ok.              *)
Asked(b, cfg) == maybe_transition_to_half_open(b, cfg)

(* Mutation: only Closed lets a call through.                              *)
allow_request_closedOnly(b, cfg) == Asked(b, cfg).state = "Closed"
allow_request(b, cfg) == Asked(b, cfg).state # "Open"

(* Mutation: a success recorded while it is Open counts like one of a      *)
(* trial call.                                                             *)
record_success_whileOpen(b, cfg) ==
    IF b.state # "Closed" /\ b.successes + 1 >= cfg.success_threshold
    THEN New
    ELSE [b EXCEPT !.failures = 0, !.successes = IF b.state = "HalfOpen" THEN @ + 1 ELSE @]

record_success(b, cfg) ==
    IF b.state = "HalfOpen" /\ b.successes + 1 >= cfg.success_threshold
    THEN New
    ELSE [b EXCEPT !.failures = 0, !.successes = IF b.state = "HalfOpen" THEN @ + 1 ELSE @]

record_failure(b, cfg) ==
    LET counted == [b EXCEPT !.successes = 0, !.failures = AtMost(@ + 1, cfg.failure_threshold)]
    IN  IF b.state = "HalfOpen" \/ (b.state = "Closed" /\ counted.failures >= cfg.failure_threshold)
        THEN Opened(counted)
        ELSE counted
============================================================================
