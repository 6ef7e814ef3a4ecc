---------------------------- MODULE RatedMarket -----------------------------
(***************************************************************************)
(* The engine and the reputation contract it reports to: claimExecution,   *)
(* submitProof and reportBadProof of ExecutionEngine.sol call              *)
(* ProverReputation.sol in try/catch, so a report it refuses is lost and   *)
(* the engine goes on.  Both contracts live in the same blocks.            *)
(***************************************************************************)
EXTENDS ExecutionEngine, ProverReputation, Totals

CONSTANTS
    Penalties, Cooldowns,       \* arguments of slash and setSlashCooldown
    HandEarnings,               \* earnings the owner records by hand
    (* bounds of the model *)
    MaxOwnerOps                 \* transactions of the two owners together

VARIABLES
    refused,                    \* history: reports of the engine that were refused
    byHand,                     \* history: records made by the owner
    repOps                      \* transactions of the reputation's owner so far (bound)

(* Any account may register and claim. *)
ASSUME SameAccounts == Provers = Accounts

ASSUME ArgumentAssumption == Penalties \subseteq Nat /\ Cooldowns \subseteq Nat /\ HandEarnings \in Nat

ratedVars == <<vars, repVars, refused, byHand, repOps>>

RatedInit == Init /\ RepInit /\ refused = 0 /\ byHand = 0 /\ repOps = 0

----------------------------------------------------------------------------
(* Steps of the engine *)

(* try reputation.record...(prover, ...) {} catch {} *)
Try(record, p) ==
    \/ record /\ UNCHANGED refused
    \/ ~ Accepts(Engine, p) /\ refused' = refused + 1 /\ UNCHANGED repVars

Quiet == UNCHANGED <<repVars, refused>>

ClaimStep(sender, id) ==
    /\ claimExecution(sender, id)
    /\ IF requests[id].status = "Claimed" /\ reputation
       THEN Try(recordAbandon(Engine, requests[id].claimedBy), requests[id].claimedBy) ELSE Quiet

(* Mutation: the fee is reported as earned too. *)
Earned_gross(id) == calculatePayout(requests[id])
Earned(id) == ProverShare(calculatePayout(requests[id]))

ProofStep(sender, id) ==
    /\ submitProof(sender, id)
    /\ IF reputation
       THEN Try(recordSuccess(Engine, sender, (now - requests[id].claimedAt) * 1000, Earned(id)), sender)
       ELSE Quiet

ReportStep(id) ==
    /\ reportBadProof(id)
    /\ Try(recordFailure(Engine, requests[id].claimedBy), requests[id].claimedBy)

(* Every other step of the engine. *)
QuietStep ==
    /\ \/ Tick
       \/ AdminNext /\ configOps' + repOps <= MaxOwnerOps
       \/ \E a \in Accounts, value \in Tips, seconds \in Expirations : requestExecution(a, value, seconds)
       \/ \E a \in Accounts, id \in RequestIds : cancelExecution(a, id)
    /\ Quiet

EngineStep ==
    \/ QuietStep
    \/ \E id \in RequestIds :
          \/ \E a \in Accounts : ClaimStep(a, id) \/ ProofStep(a, id)
          \/ ReportStep(id)

----------------------------------------------------------------------------
(* Steps of the reputation contract *)

ByHand(p) ==
    /\ \/ recordSuccess(RepOwner, p, 1000, HandEarnings)
       \/ recordFailure(RepOwner, p)
       \/ recordAbandon(RepOwner, p)
    /\ byHand' = byHand + 1

OwnerStep ==
    /\ configOps + repOps < MaxOwnerOps /\ repOps' = repOps + 1
    /\ \/ \E p \in Accounts : ByHand(p)
       \/ /\ \/ \E p \in Accounts, bps \in Penalties : slash(p, bps, now)
             \/ \E p \in Accounts, banned \in BOOLEAN : setBanned(p, banned)
             \/ \E authorized \in BOOLEAN : setReporter(Engine, authorized)
             \/ \E p \in BOOLEAN : setRepPaused(p)
             \/ \E cooldown \in Cooldowns : setSlashCooldown(cooldown)
          /\ UNCHANGED byHand

ReputationStep ==
    /\ \/ \E p \in Accounts : register(p) /\ UNCHANGED <<byHand, repOps>>
       \/ OwnerStep
    /\ UNCHANGED <<vars, refused>>

RatedNext ==
    \/ EngineStep /\ UNCHANGED <<byHand, repOps>>
    \/ ReputationStep

RatedSpec == RatedInit /\ [][RatedNext]_ratedVars

(* The fairness of the engine: reports and cancellations go through        *)
(* whatever the reputation contract answers.                               *)
RatedFairness ==
    /\ WF_ratedVars(Tick /\ Quiet /\ UNCHANGED <<byHand, repOps>>)
    /\ \A id \in RequestIds :
         /\ SF_ratedVars(ReportStep(id) /\ UNCHANGED <<byHand, repOps>>)
         /\ SF_ratedVars(\E a \in Accounts : cancelExecution(a, id) /\ Quiet /\ UNCHANGED <<byHand, repOps>>)

FairRatedSpec == RatedSpec /\ RatedFairness

----------------------------------------------------------------------------
Jobs == [p \in Accounts |-> reputations[p].totalJobs]

(* Nobody is credited with a proof or with earnings that neither the       *)
(* engine paid nor the owner entered by hand.                              *)
CreditsAreEarned ==
    \A p \in Accounts :
        /\ reputations[p].completedJobs <= proverCompletedCount[p] + byHand
        /\ reputations[p].totalEarnings <= proverEarnings[p] + byHand * HandEarnings

(* The two contracts agree, though calls between them may be refused: each *)
(* claim that ended while a reputation contract was set left one record or *)
(* one refusal, credits are earned, and the counts of provers by tier      *)
(* follow the records.                                                     *)
RecordsMatchMarket ==
    /\ Total(Jobs) + refused = Total(reports) + byHand
    /\ CreditsAreEarned
    /\ TiersAddUp
=============================================================================
