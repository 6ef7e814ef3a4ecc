-------------------------- MODULE ProverReputation --------------------------
(***************************************************************************)
(* contracts/src/ProverReputation.sol: the record of each prover, written  *)
(* by authorized reporters (the engine) and by the owner.  One action per  *)
(* function; getScore and the other views are left out, and so are slash   *)
(* reasons.  Of the slash history only the last entry is ever read.        *)
(***************************************************************************)
EXTENDS Integers, FiniteSets

CONSTANTS
    Provers,
    Engine, RepOwner,           \* the callers that matter
    MAX_SCORE, INITIAL_SCORE, SUCCESS_BONUS, FAST_PROOF_BONUS, FAILURE_PENALTY, ABANDON_PENALTY,
    SILVER_THRESHOLD, GOLD_THRESHOLD, PLATINUM_THRESHOLD, DIAMOND_THRESHOLD,
    MIN_COOLDOWN, MAX_COOLDOWN,
    InitCooldown

ASSUME ProverAssumption == IsFiniteSet(Provers)

ASSUME ScoreAssumption ==
    /\ {MAX_SCORE, INITIAL_SCORE, SUCCESS_BONUS, FAST_PROOF_BONUS, FAILURE_PENALTY, ABANDON_PENALTY} \subseteq Nat
    /\ {MIN_COOLDOWN, MAX_COOLDOWN} \subseteq Nat
    /\ INITIAL_SCORE <= MAX_SCORE
    /\ InitCooldown \in MIN_COOLDOWN .. MAX_COOLDOWN

VARIABLES
    reputations,
    lastSlash,                  \* timestamp of the last entry of slashHistory, 0 if there is none
    authorizedReporters,
    totalProvers, proversByTier,
    slashCooldown,
    repPaused

recordVars == <<reputations, totalProvers, proversByTier>>
controlVars == <<lastSlash, authorizedReporters, slashCooldown, repPaused>>
repVars == <<recordVars, controlVars>>

Tiers == 0 .. 5                 \* Unranked, Bronze, Silver, Gold, Platinum, Diamond

Reputation ==
    [totalJobs : Nat, completedJobs : Nat, failedJobs : Nat, abandonedJobs : Nat, totalEarnings : Nat,
     avgProofTimeMs : Nat, score : 0 .. MAX_SCORE, tier : Tiers,
     isRegistered : BOOLEAN, isSlashed : BOOLEAN, isBanned : BOOLEAN]

(* An unused storage slot. *)
NoReputation ==
    [totalJobs |-> 0, completedJobs |-> 0, failedJobs |-> 0, abandonedJobs |-> 0, totalEarnings |-> 0,
     avgProofTimeMs |-> 0, score |-> 0, tier |-> 0,
     isRegistered |-> FALSE, isSlashed |-> FALSE, isBanned |-> FALSE]

RepInit ==
    /\ reputations = [p \in Provers |-> NoReputation]
    /\ lastSlash = [p \in Provers |-> 0]
    /\ authorizedReporters = {Engine}
    /\ totalProvers = 0 /\ proversByTier = [t \in Tiers |-> 0]
    /\ slashCooldown = InitCooldown
    /\ repPaused = FALSE

----------------------------------------------------------------------------
(* Scores and tiers *)

Bounded(score) == IF score > MAX_SCORE THEN MAX_SCORE ELSE score

Less(score, penalty) == IF score > penalty THEN score - penalty ELSE 0

calculateTier(score) ==
    CASE score >= DIAMOND_THRESHOLD -> 5
      [] score \in PLATINUM_THRESHOLD .. DIAMOND_THRESHOLD - 1 -> 4
      [] score \in GOLD_THRESHOLD .. PLATINUM_THRESHOLD - 1 -> 3
      [] score \in SILVER_THRESHOLD .. GOLD_THRESHOLD - 1 -> 2
      [] score \in 1 .. SILVER_THRESHOLD - 1 -> 1
      [] OTHER -> 0

MoveTier(old, new) ==
    proversByTier' = IF old = new THEN proversByTier
                     ELSE [proversByTier EXCEPT ![old] = @ - 1, ![new] = @ + 1]

(* Store a prover's new record, with the tier its score calls for. *)
Update(p, rep) ==
    /\ reputations' = [reputations EXCEPT ![p] = [rep EXCEPT !.tier = calculateTier(rep.score)]]
    /\ MoveTier(reputations[p].tier, calculateTier(rep.score))
    /\ UNCHANGED totalProvers

----------------------------------------------------------------------------
(* Records *)

register(p) ==
    /\ ~ repPaused /\ ~ reputations[p].isRegistered
    /\ reputations' = [reputations EXCEPT ![p] = [NoReputation EXCEPT !.score = INITIAL_SCORE, !.isRegistered = TRUE]]
    /\ totalProvers' = totalProvers + 1
    /\ proversByTier' = [proversByTier EXCEPT ![0] = @ + 1]
    /\ UNCHANGED controlVars

(* The modifiers of the three record functions. *)
Accepts(sender, p) ==
    /\ sender \in authorizedReporters \cup {RepOwner}
    /\ ~ reputations[p].isBanned
    /\ ~ repPaused
    /\ reputations[p].isRegistered

(* The average is rolled before it is compared with. *)
Average(rep, ms) == IF rep.avgProofTimeMs = 0 THEN ms ELSE (rep.avgProofTimeMs * 9 + ms) \div 10

Bonus(rep, ms) == SUCCESS_BONUS + IF ms < Average(rep, ms) THEN FAST_PROOF_BONUS ELSE 0

recordSuccess(sender, p, ms, earnings) ==
    LET rep == reputations[p]
    IN  /\ Accepts(sender, p)
        /\ Update(p, [rep EXCEPT !.totalJobs = @ + 1, !.completedJobs = @ + 1, !.totalEarnings = @ + earnings,
                                 !.avgProofTimeMs = Average(rep, ms), !.score = Bounded(@ + Bonus(rep, ms))])
        /\ UNCHANGED controlVars

recordFailure(sender, p) ==
    /\ Accepts(sender, p)
    /\ Update(p, [reputations[p] EXCEPT !.totalJobs = @ + 1, !.failedJobs = @ + 1,
                                        !.score = Less(@, FAILURE_PENALTY)])
    /\ UNCHANGED controlVars

recordAbandon(sender, p) ==
    /\ Accepts(sender, p)
    /\ Update(p, [reputations[p] EXCEPT !.totalJobs = @ + 1, !.abandonedJobs = @ + 1,
                                        !.score = Less(@, ABANDON_PENALTY)])
    /\ UNCHANGED controlVars

----------------------------------------------------------------------------
(* The owner *)

CooledDown(p, time) == lastSlash[p] > 0 => time >= lastSlash[p] + slashCooldown

(* At block.timestamp = time; also of a banned prover, and while paused.   *)
(* A score of 0 bans.                                                      *)
slash(p, penaltyBps, time) ==
    LET rep == reputations[p]
        score == Less(rep.score, (rep.score * penaltyBps) \div 10000)
    IN  /\ rep.isRegistered /\ CooledDown(p, time)
        /\ Update(p, [rep EXCEPT !.isSlashed = TRUE, !.score = score, !.isBanned = @ \/ score = 0])
        /\ lastSlash' = [lastSlash EXCEPT ![p] = time]
        /\ UNCHANGED <<authorizedReporters, slashCooldown, repPaused>>

(* ban and unban *)
setBanned(p, banned) ==
    /\ reputations[p].isRegistered
    /\ reputations' = [reputations EXCEPT ![p].isBanned = banned]
    /\ UNCHANGED <<totalProvers, proversByTier, controlVars>>

(* authorizeReporter and revokeReporter *)
setReporter(reporter, authorized) ==
    /\ authorizedReporters' = IF authorized THEN authorizedReporters \cup {reporter}
                              ELSE authorizedReporters \ {reporter}
    /\ UNCHANGED <<recordVars, lastSlash, slashCooldown, repPaused>>

(* pause and unpause *)
setRepPaused(paused) ==
    /\ repPaused # paused
    /\ repPaused' = paused
    /\ UNCHANGED <<recordVars, lastSlash, authorizedReporters, slashCooldown>>

setSlashCooldown(cooldown) ==
    /\ cooldown \in MIN_COOLDOWN .. MAX_COOLDOWN
    /\ slashCooldown' = cooldown
    /\ UNCHANGED <<recordVars, lastSlash, authorizedReporters, repPaused>>

----------------------------------------------------------------------------
(* Every variable has its type. *)
RepTypeOK ==
    /\ reputations \in [Provers -> Reputation]
    /\ lastSlash \in [Provers -> Nat]
    /\ authorizedReporters \subseteq {Engine}
    /\ totalProvers \in Nat /\ proversByTier \in [Tiers -> Nat]
    /\ slashCooldown \in MIN_COOLDOWN .. MAX_COOLDOWN
    /\ repPaused \in BOOLEAN

InTier(t) == {p \in Provers : reputations[p].isRegistered /\ reputations[p].tier = t}

(* The counts of provers by tier are exact, and the tier is the one of the *)
(* score from the first record or slash on, whatever the order of records, *)
(* slashes, bans and refused reports; the jobs of a prover add up.         *)
TiersAddUp ==
    /\ \A t \in Tiers : proversByTier[t] = Cardinality(InTier(t))
    /\ totalProvers = Cardinality({p \in Provers : reputations[p].isRegistered})
    /\ \A p \in Provers :
          LET rep == reputations[p]
          IN  /\ rep.totalJobs = rep.completedJobs + rep.failedJobs + rep.abandonedJobs
              /\ rep.totalJobs > 0 \/ rep.isSlashed => rep.tier = calculateTier(rep.score)
=============================================================================
