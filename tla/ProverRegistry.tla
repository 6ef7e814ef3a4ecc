--------------------------- MODULE ProverRegistry ---------------------------
(***************************************************************************)
(* contracts/src/ProverRegistry.sol: staked provers, the array of active   *)
(* ones from which work is assigned, slashing, reputation and commit-      *)
(* reveal selection.                                                       *)
(*                                                                         *)
(* Left out as write-only records that nothing reads back: endpoints, the  *)
(* slash history, earnings, proof counts and activity timestamps.  ERC-20  *)
(* transfers either succeed or revert the transaction; only the registry's *)
(* own token balance is kept.                                              *)
(***************************************************************************)
EXTENDS Integers, Sequences, FiniteSets, Totals

CONSTANTS
    Provers,
    Owner, Slashers,            \* who may be allowed to slash besides the owner
    Amounts,                    \* token amounts staked or withdrawn
    MinStakes,                  \* minimum stakes the owner may set
    BasisPoints,                \* slash percentages the owner may ask for
    Secrets,                    \* preimages of selection commitments
    InitMinStake, InitSlashBasisPoints,
    INITIAL_REPUTATION, REPUTATION_INCREMENT, MAX_REPUTATION, SLASH_REPUTATION_PERCENT,
    MAX_SLASH_BASIS_POINTS,
    (* bounds of the model *)
    MaxStake,                   \* stake of one prover
    MaxBlock, MaxSelections, MaxConfigOps

ASSUME RegistryAssumption ==
    /\ Amounts \subseteq Nat
    /\ MinStakes \subseteq Nat
    /\ BasisPoints \subseteq Nat
    /\ {InitMinStake, InitSlashBasisPoints, INITIAL_REPUTATION, REPUTATION_INCREMENT, MAX_REPUTATION,
        SLASH_REPUTATION_PERCENT, MaxStake, MaxBlock, MaxSelections,
        MaxConfigOps} \subseteq Nat
    /\ MAX_SLASH_BASIS_POINTS \in 0 .. 10000
    /\ MAX_REPUTATION # 0
    /\ INITIAL_REPUTATION <= MAX_REPUTATION
    /\ SLASH_REPUTATION_PERCENT <= 100

(* Addresses have a fixed width. *)
ASSUME FiniteAssumption == IsFiniteSet(Provers)

VARIABLES
    block, paused, minStake, slashBasisPoints, slashers,
    provers,
    activeProvers,              \* the array, as a sequence: element i is at i + 1
    proverIndex,                \* zero-based; deleted entries read as zero
    totalStaked,
    tokenBalance,               \* stakingToken.balanceOf(this)
    selectionRequests, nextRequestId,
    configOps                   \* owner transactions so far (bound)

configVars    == <<paused, minStake, slashBasisPoints, slashers, configOps>>
poolVars      == <<activeProvers, proverIndex>>
stakeVars     == <<totalStaked, tokenBalance>>
selectionVars == <<selectionRequests, nextRequestId>>
registryVars == <<block, configVars, provers, poolVars, stakeVars, selectionVars>>

----------------------------------------------------------------------------
Prover == [registered : BOOLEAN, active : BOOLEAN, stake : Nat, reputation : 0 .. MAX_REPUTATION]

NoProver == [registered |-> FALSE, active |-> FALSE, stake |-> 0, reputation |-> 0]

SelectionIds == 0 .. MaxSelections - 1

SelectionRequest == [commitment : Secrets, blockNumber : Nat, fulfilled : BOOLEAN]

RegistryInit ==
    /\ block = 1
    /\ paused = FALSE
    /\ minStake = InitMinStake
    /\ slashBasisPoints = InitSlashBasisPoints
    /\ slashers = {}
    /\ provers = [p \in Provers |-> NoProver]
    /\ activeProvers = <<>>
    /\ proverIndex = [p \in Provers |-> 0]
    /\ totalStaked = 0
    /\ tokenBalance = 0
    /\ selectionRequests = <<>>
    /\ nextRequestId = 0
    /\ configOps = 0

NewBlock ==
    /\ block < MaxBlock
    /\ block' = block + 1
    /\ UNCHANGED <<configVars, provers, poolVars, stakeVars, selectionVars>>

----------------------------------------------------------------------------
(* The active array *)

(* Append, as register and _activateProver do. *)
AppendToPool(p) ==
    /\ proverIndex' = [proverIndex EXCEPT ![p] = Len(activeProvers)]
    /\ activeProvers' = Append(activeProvers, p)

(* Mutation: the moved prover keeps its old index. *)
RemoveFromPool_staleIndex(p) ==
    LET idx == proverIndex[p]
        lastIdx == Len(activeProvers) - 1
        last == activeProvers[lastIdx + 1]
    IN  /\ activeProvers' = SubSeq([activeProvers EXCEPT ![idx + 1] = last], 1, lastIdx)
        /\ proverIndex' = [proverIndex EXCEPT ![p] = 0]

(* Swap with the last element and pop, as _deactivateProver does. *)
RemoveFromPool(p) ==
    LET idx == proverIndex[p]
        lastIdx == Len(activeProvers) - 1
        last == activeProvers[lastIdx + 1]
    IN  /\ activeProvers' = SubSeq([activeProvers EXCEPT ![idx + 1] = last], 1, lastIdx)
        /\ proverIndex' = [[proverIndex EXCEPT ![last] = idx] EXCEPT ![p] = 0]

----------------------------------------------------------------------------
(* Provers *)

Deposit(amount) ==
    /\ totalStaked' = totalStaked + amount
    /\ tokenBalance' = tokenBalance + amount

(* Mutation: the total is not reduced. *)
Withdraw_untracked(amount) ==
    /\ totalStaked' = totalStaked
    /\ tokenBalance' = tokenBalance - amount

Withdraw(amount) ==
    /\ totalStaked' = totalStaked - amount
    /\ tokenBalance' = tokenBalance - amount

register(p, stake) ==
    /\ ~paused
    /\ ~provers[p].registered
    /\ stake >= minStake
    /\ stake <= MaxStake
    /\ provers' = [provers EXCEPT ![p] =
           [registered |-> TRUE, active |-> TRUE, stake |-> stake, reputation |-> INITIAL_REPUTATION]]
    /\ AppendToPool(p)
    /\ Deposit(stake)
    /\ UNCHANGED <<block, configVars, selectionVars>>

addStake(p, amount) ==
    LET reactivated == ~provers[p].active /\ provers[p].stake + amount >= minStake IN
    /\ ~paused
    /\ provers[p].registered
    /\ provers[p].stake + amount <= MaxStake
    /\ provers' = [provers EXCEPT ![p].stake = @ + amount,
                                  ![p].active = @ \/ reactivated]
    /\ IF reactivated THEN AppendToPool(p) ELSE UNCHANGED poolVars
    /\ Deposit(amount)
    /\ UNCHANGED <<block, configVars, selectionVars>>

(* An active prover must keep the minimum. *)
KeepsMinimum(p, amount) == provers[p].active => provers[p].stake - amount >= minStake

(* Not guarded by the pause.  Withdrawing more than the stake underflows   *)
(* and reverts.                                                            *)
withdrawStake(p, amount) ==
    /\ provers[p].registered
    /\ provers[p].stake # 0
    /\ amount <= provers[p].stake
    /\ KeepsMinimum(p, amount)
    /\ amount <= tokenBalance
    /\ provers' = [provers EXCEPT ![p].stake = @ - amount]
    /\ Withdraw(amount)
    /\ UNCHANGED <<block, configVars, poolVars, selectionVars>>

deactivate(p) ==
    /\ ~paused
    /\ provers[p].registered
    /\ provers[p].active
    /\ provers' = [provers EXCEPT ![p].active = FALSE]
    /\ RemoveFromPool(p)
    /\ UNCHANGED <<block, configVars, stakeVars, selectionVars>>

(* For an active prover it returns without effect. *)
reactivate(p) ==
    /\ ~paused
    /\ provers[p].registered
    /\ ~provers[p].active
    /\ provers[p].stake >= minStake
    /\ provers' = [provers EXCEPT ![p].active = TRUE]
    /\ AppendToPool(p)
    /\ UNCHANGED <<block, configVars, stakeVars, selectionVars>>

----------------------------------------------------------------------------
(* Slashing and rewards *)

MaySlash(caller) == caller \in slashers \cup {Owner}

(* At most the stake: the constructor does not cap the percentage. *)
SlashAmount(p) ==
    LET amount == (provers[p].stake * slashBasisPoints) \div 10000
    IN  IF amount > provers[p].stake THEN provers[p].stake ELSE amount

(* Not guarded by the pause.  The slashed tokens go to the owner. *)
slash(caller, p) ==
    LET amount == SlashAmount(p)
        below == provers[p].stake - amount < minStake
    IN  /\ MaySlash(caller)
        /\ provers[p].registered
        /\ amount <= tokenBalance
        /\ provers' = [provers EXCEPT
               ![p].stake = @ - amount,
               ![p].reputation = (@ * SLASH_REPUTATION_PERCENT) \div 100,
               ![p].active = @ /\ ~below]
        /\ IF below /\ provers[p].active THEN RemoveFromPool(p) ELSE UNCHANGED poolVars
        /\ Withdraw(amount)
        /\ UNCHANGED <<block, configVars, selectionVars>>

Raised(reputation) ==
    IF reputation + REPUTATION_INCREMENT > MAX_REPUTATION
    THEN MAX_REPUTATION ELSE reputation + REPUTATION_INCREMENT

recordSuccess(caller, p) ==
    /\ ~paused
    /\ MaySlash(caller)
    /\ provers[p].registered
    /\ provers' = [provers EXCEPT ![p].reputation = Raised(@)]
    /\ UNCHANGED <<block, configVars, poolVars, stakeVars, selectionVars>>

----------------------------------------------------------------------------
(* Selection *)

(* getWeight; reputations are parts of MAX_REPUTATION, 10000 in the code. *)
Weight(p) == (provers[p].stake * provers[p].reputation) \div MAX_REPUTATION

CumulativeWeight(i) == Total([j \in 1 .. i |-> Weight(activeProvers[j])])

TotalWeight == CumulativeWeight(Len(activeProvers))

(* Mutation: the comparison is inclusive. *)
Selected_inclusive(random) ==
    LET hit(i) == random <= CumulativeWeight(i) IN
    activeProvers[CHOOSE i \in 1 .. Len(activeProvers) :
                     hit(i) /\ \A j \in 1 .. i - 1 : ~hit(j)]

(* The loop of _weightedSelect and selectProver, for random below the      *)
(* total weight.                                                           *)
Selected(random) ==
    LET hit(i) == random < CumulativeWeight(i) IN
    activeProvers[CHOOSE i \in 1 .. Len(activeProvers) :
                     hit(i) /\ \A j \in 1 .. i - 1 : ~hit(j)]

requestProverSelection(secret) ==
    /\ nextRequestId \in SelectionIds
    /\ ~paused
    /\ selectionRequests' = Append(selectionRequests,
           [commitment |-> secret, blockNumber |-> block, fulfilled |-> FALSE])
    /\ nextRequestId' = nextRequestId + 1
    /\ UNCHANGED <<block, configVars, provers, poolVars, stakeVars>>

(* Which prover is selected is only emitted; the state keeps that the      *)
(* request is used up.                                                     *)
fulfillProverSelection(id, secret) ==
    LET req == selectionRequests[id + 1] IN
    /\ ~paused
    /\ ~req.fulfilled
    /\ secret = req.commitment
    /\ block > req.blockNumber
    /\ Len(activeProvers) # 0
    /\ selectionRequests' = [selectionRequests EXCEPT ![id + 1].fulfilled = TRUE]
    /\ UNCHANGED <<block, configVars, provers, poolVars, stakeVars, nextRequestId>>

----------------------------------------------------------------------------
(* Administration *)

Configure ==
    /\ configOps < MaxConfigOps
    /\ configOps' = configOps + 1
    /\ UNCHANGED <<block, provers, poolVars, stakeVars, selectionVars>>

(* Active provers below the new minimum stay active. *)
setMinStake(m) ==
    /\ Configure
    /\ minStake' = m
    /\ UNCHANGED <<paused, slashBasisPoints, slashers>>

setSlashBasisPoints(bps) ==
    /\ Configure
    /\ bps <= MAX_SLASH_BASIS_POINTS
    /\ slashBasisPoints' = bps
    /\ UNCHANGED <<paused, minStake, slashers>>

setSlasher(s, authorized) ==
    /\ Configure
    /\ slashers' = IF authorized THEN slashers \cup {s} ELSE slashers \ {s}
    /\ UNCHANGED <<paused, minStake, slashBasisPoints>>

pause ==
    /\ ~paused
    /\ paused' = TRUE
    /\ UNCHANGED <<block, minStake, slashBasisPoints, slashers, configOps, provers, poolVars,
                   stakeVars, selectionVars>>

unpause ==
    /\ paused
    /\ paused' = FALSE
    /\ UNCHANGED <<block, minStake, slashBasisPoints, slashers, configOps, provers, poolVars,
                   stakeVars, selectionVars>>

AdminNext ==
    \/ pause
    \/ unpause
    \/ \E m \in MinStakes : setMinStake(m)
    \/ \E bps \in BasisPoints : setSlashBasisPoints(bps)
    \/ \E s \in Slashers, authorized \in BOOLEAN : setSlasher(s, authorized)

ProverNext(p) ==
    \/ \E amount \in Amounts : register(p, amount) \/ addStake(p, amount) \/ withdrawStake(p, amount)
    \/ deactivate(p)
    \/ reactivate(p)
    \/ \E caller \in Slashers \cup {Owner} : slash(caller, p) \/ recordSuccess(caller, p)

SelectionNext ==
    \/ \E secret \in Secrets : requestProverSelection(secret)
    \/ \E id \in SelectionIds, secret \in Secrets :
         id < nextRequestId /\ fulfillProverSelection(id, secret)

RegistryNext ==
    \/ NewBlock
    \/ AdminNext
    \/ \E p \in Provers : ProverNext(p)
    \/ SelectionNext

RegistrySpec == RegistryInit /\ [][RegistryNext]_registryVars

----------------------------------------------------------------------------
(* Properties *)

(* Every variable has its type: no stake or balance goes below zero, no    *)
(* reputation above its cap.                                               *)
RegistryTypeOK ==
    /\ block \in Nat
    /\ paused \in BOOLEAN
    /\ minStake \in Nat
    /\ slashBasisPoints \in Nat
    /\ slashers \subseteq Slashers
    /\ provers \in [Provers -> Prover]
    /\ activeProvers \in Seq(Provers)
    /\ proverIndex \in [Provers -> Nat]
    /\ totalStaked \in Nat
    /\ tokenBalance \in Nat
    /\ nextRequestId \in 0 .. MaxSelections
    /\ selectionRequests \in Seq(SelectionRequest)
    /\ configOps \in Nat

(* The array holds exactly the provers marked active, each at the index    *)
(* the registry remembers for it, whatever the order of registrations,     *)
(* removals by swap and pop, slashes and reactivations.  So no prover is   *)
(* listed twice.                                                           *)
PoolMatchesFlags ==
    /\ \A p \in Provers :
         provers[p].active =>
             /\ proverIndex[p] < Len(activeProvers)
             /\ activeProvers[proverIndex[p] + 1] = p
    /\ \A i \in 1 .. Len(activeProvers) :
         /\ provers[activeProvers[i]].active
         /\ proverIndex[activeProvers[i]] = i - 1

Stakes == [p \in Provers |-> provers[p].stake]

(* The registry holds the tokens of every stake: no amount goes below zero *)
(* and totalStaked, the sum of the stakes and the token balance agree      *)
(* through slashes and withdrawals.                                        *)
StakesAreBacked ==
    /\ RegistryTypeOK
    /\ totalStaked = Total(Stakes)
    /\ tokenBalance = totalStaked

(* Only a raise of the minimum stake leaves an active prover below it: no  *)
(* withdrawal, slash or reactivation does.                                 *)
BelowMinimumOnlyByRaise ==
    [][\A p \in Provers :
          provers'[p].active /\ provers'[p].stake < minStake' =>
              \/ minStake' > minStake
              \/ provers[p].active /\ provers[p].stake < minStake]_registryVars

(* Selection is proportional: when some prover has weight, each active     *)
(* prover is selected by exactly as many random values as its weight, so   *)
(* one without weight never is.                                            *)
SelectionIsProportional ==
    TotalWeight > 0 =>
        \A p \in Provers :
            Cardinality({random \in 0 .. TotalWeight - 1 : Selected(random) = p})
                = IF provers[p].active THEN Weight(p) ELSE 0

=============================================================================
