------------------------------- MODULE Escrow -------------------------------
(***************************************************************************)
(* What the contracts that hold other people's ETH promise, without their  *)
(* clocks, deadlines, roles and configuration: money comes in for a deal,  *)
(* the deal is closed by a single payment out of its own pot, and nothing  *)
(* leaves the contract in any other way.  ExecutionEngine, TEEMLVerifier   *)
(* and UpgradeableEngine are shown to implement it.                        *)
(***************************************************************************)
EXTENDS Integers

CONSTANTS
    Deals,      \* requests of the engine, results of the verifier
    Share       \* the payment is at least the pot divided by Share

VARIABLES
    status,     \* of each deal
    pot,        \* ETH taken in for each deal
    paid,       \* ETH paid out for each deal
    held        \* ETH the contract holds

vars == <<status, pot, paid, held>>

Init ==
    /\ status = [d \in Deals |-> "none"]
    /\ pot = [d \in Deals |-> 0]
    /\ paid = [d \in Deals |-> 0]
    /\ held = 0

(* A party adds to the pot, the first one by opening the deal. *)
Fund(d) ==
    /\ status[d] # "closed"
    /\ status' = [status EXCEPT ![d] = "open"]
    /\ pot'[d] >= pot[d]
    /\ pot' = [pot EXCEPT ![d] = pot'[d]]
    /\ held' = held + pot'[d] - pot[d]
    /\ UNCHANGED paid

(* The one payment, which closes the deal. *)
Release(d) ==
    /\ status[d] = "open"
    /\ status' = [status EXCEPT ![d] = "closed"]
    /\ paid'[d] \in pot[d] \div Share .. pot[d]
    /\ paid' = [paid EXCEPT ![d] = paid'[d]]
    /\ held' = held - paid'[d]
    /\ UNCHANGED pot

(* ETH that belongs to no deal only ever comes in. *)
Donate ==
    /\ held' >= held
    /\ UNCHANGED <<status, pot, paid>>

Next ==
    \/ Donate
    \/ \E d \in Deals : Fund(d) \/ Release(d)

Spec == Init /\ [][Next]_vars
=============================================================================
