--------------------------- MODULE TEEMLVerifier ---------------------------
(***************************************************************************)
(* contracts/src/tee/TEEMLVerifier.sol: the optimistic verifier of results *)
(* attested by a TEE.  A submitter stakes ETH on a result; during the      *)
(* challenge window anyone may post a bond against it; a challenged result *)
(* is settled by a ZK proof or, after the dispute window, by timeout; an   *)
(* unchallenged one is finalized once its window has passed.               *)
(*                                                                         *)
(* Every external function is one transaction and so one action: each      *)
(* takes the reentrancy lock and a revert undoes all of it.  A block is    *)
(* one time unit; any number of transactions may share a block.            *)
(***************************************************************************)
EXTENDS Integers, FiniteSets, Totals

CONSTANTS
    Accounts,           \* externally owned accounts and contract wallets
    Rejecting,          \* the wallets whose receive() reverts
    NoAccount,          \* address(0)
    EnclaveKeys,        \* enclave signing keys
    Verifiers,          \* RemainderVerifier deployments
    Jobs,               \* (modelHash, inputHash) pairs
    Amounts,            \* the ETH amounts sent or configured
    Durations,          \* the durations an admin may ask for
    MinChallengeWindow, MaxChallengeWindow,
    MinDisputeWindow, MaxDisputeWindow,
    MaxAmount,          \* "100 ether"
    ExtensionPeriod, MaxExtensions,
    InitChallengeWindow, InitDisputeWindow, InitAmount, InitVerifier,
    (* bounds of the model *)
    Horizon,            \* last block in which a result is submitted
    MaxTime,            \* last block
    MaxResults,         \* results ever submitted
    MaxConfigOps,       \* configuration transactions
    MaxDonated          \* ETH sent to receive()

ASSUME AccountAssumption == Rejecting \subseteq Accounts /\ NoAccount \notin Accounts

(* Addresses and hashes have a fixed width. *)
ASSUME FiniteAssumption == IsFiniteSet(Accounts) /\ IsFiniteSet(Jobs)

ASSUME NatAssumption ==
    /\ Amounts \subseteq Nat
    /\ Durations \subseteq Nat
    /\ {MinChallengeWindow, MaxChallengeWindow, MinDisputeWindow, MaxDisputeWindow,
        MaxAmount, ExtensionPeriod, MaxExtensions, Horizon, MaxTime,
        MaxResults, MaxConfigOps, MaxDonated} \subseteq Nat

ASSUME InitAssumption ==
    /\ InitChallengeWindow \in MinChallengeWindow .. MaxChallengeWindow
    /\ InitDisputeWindow \in MinDisputeWindow .. MaxDisputeWindow
    /\ InitAmount \in 1 .. MaxAmount
    /\ InitVerifier \in Verifiers

VARIABLES
    now,                \* block.timestamp and block.number
    paused,
    enclaves,           \* the registered and active flags of _enclaves
    remainderVerifier, challengeWindow, disputeWindow,
    challengeBondAmount, proverStake, useStylusVerifier, useStylusGroth16,
    results,            \* _results
    disputeResolved, disputeProverWon, disputeExtensions,
    balance,            \* ETH held by the contract
    donated,            \* history: ETH that came in through receive()
    received,           \* history: ETH each account was paid for each result
    verdict,            \* history: the verifier's answer for each result
    configOps           \* configuration transactions so far (bound)

clockVars   == now
configVars  == <<remainderVerifier, challengeWindow, disputeWindow, challengeBondAmount,
                 proverStake, useStylusVerifier, useStylusGroth16>>
resultVars  == <<results, disputeResolved, disputeProverWon, disputeExtensions, verdict>>
moneyVars   == <<balance, donated, received>>
adminVars   == <<paused, enclaves, configVars, configOps>>
vars        == <<clockVars, adminVars, resultVars, moneyVars>>

----------------------------------------------------------------------------
(* keccak256(msg.sender, modelHash, inputHash, block.number), taken to be  *)
(* injective.                                                              *)
ResultIds == Accounts \X Jobs \X (1 .. Horizon)

(* The packed result; challenge data is zero until someone challenges.     *)
Result ==
    [submittedAt : Nat, challengeDeadline : Nat, finalized : BOOLEAN,
     challenged : BOOLEAN, submitter : Accounts \cup {NoAccount},
     disputeDeadline : Nat, challenger : Accounts \cup {NoAccount},
     challengeBond : Nat, proverStakeAmount : Nat]

NoResult ==
    [submittedAt |-> 0, challengeDeadline |-> 0, finalized |-> FALSE,
     challenged |-> FALSE, submitter |-> NoAccount, disputeDeadline |-> 0,
     challenger |-> NoAccount, challengeBond |-> 0, proverStakeAmount |-> 0]

Exists(id) == results[id].submittedAt # 0

(* submitResult reverts with ResultExists otherwise. *)
Fresh(id) == ~Exists(id)

(* The two sides of the challenge deadline: challenge needs the first,     *)
(* finalize the second.                                                    *)
ChallengeWindowOpen(id) == now < results[id].challengeDeadline

(* Mutation: finalize does not wait. *)
ChallengeWindowPassed_early(id) == now >= results[id].submittedAt

ChallengeWindowPassed(id) == now >= results[id].challengeDeadline

(* Mutation: a resolved dispute may be resolved again. *)
OpenDispute_reopened(id) == results[id].challenged

OpenDispute(id) == results[id].challenged /\ ~disputeResolved[id]

(* Mutation: the deadline is compared the wrong way round. *)
DisputeDeadlineReached_inverted(id) == now < results[id].disputeDeadline

(* resolveDisputeByTimeout reverts with DeadlineNotReached otherwise. *)
DisputeDeadlineReached(id) == now >= results[id].disputeDeadline

(* Mutation: extensions are not counted. *)
MayExtend_unlimited(id) == disputeExtensions[id] >= 0

MayExtend(id) == disputeExtensions[id] < MaxExtensions

(* Mutation: the bond is left out of the payout. *)
Pot_withoutBond(id) == results[id].proverStakeAmount

Pot(id) == results[id].challengeBond + results[id].proverStakeAmount

(* isResultValid *)
IsResultValid(id) ==
    \/ results[id].finalized /\ ~results[id].challenged
    \/ results[id].challenged /\ disputeResolved[id] /\ disputeProverWon[id]

Init ==
    /\ now = 1
    /\ paused = FALSE
    /\ enclaves = [k \in EnclaveKeys |-> "unregistered"]
    /\ remainderVerifier = InitVerifier
    /\ challengeWindow = InitChallengeWindow
    /\ disputeWindow = InitDisputeWindow
    /\ challengeBondAmount = InitAmount
    /\ proverStake = InitAmount
    /\ useStylusVerifier = FALSE
    /\ useStylusGroth16 = FALSE
    /\ results = [id \in ResultIds |-> NoResult]
    /\ disputeResolved = [id \in ResultIds |-> FALSE]
    /\ disputeProverWon = [id \in ResultIds |-> FALSE]
    /\ disputeExtensions = [id \in ResultIds |-> 0]
    /\ balance = 0
    /\ donated = 0
    /\ received = [id \in ResultIds |-> [a \in Accounts |-> 0]]
    /\ verdict = [id \in ResultIds |-> "none"]
    /\ configOps = 0

(* A block is mined. *)
Tick ==
    /\ now < MaxTime
    /\ now' = now + 1
    /\ UNCHANGED <<adminVars, resultVars, moneyVars>>

----------------------------------------------------------------------------
(* Administration *)

registerEnclave(k) ==
    /\ enclaves[k] = "unregistered"
    /\ enclaves' = [enclaves EXCEPT ![k] = "active"]
    /\ UNCHANGED <<clockVars, paused, configVars, configOps, resultVars, moneyVars>>

(* A revoked key stays registered, so it can never be registered again.    *)
revokeEnclave(k) ==
    /\ enclaves[k] = "active"
    /\ enclaves' = [enclaves EXCEPT ![k] = "revoked"]
    /\ UNCHANGED <<clockVars, paused, configVars, configOps, resultVars, moneyVars>>

pause ==
    /\ ~paused
    /\ paused' = TRUE
    /\ UNCHANGED <<clockVars, enclaves, configVars, configOps, resultVars, moneyVars>>

unpause ==
    /\ paused
    /\ paused' = FALSE
    /\ UNCHANGED <<clockVars, enclaves, configVars, configOps, resultVars, moneyVars>>

(* What all the setters share. *)
Configure ==
    /\ configOps < MaxConfigOps
    /\ configOps' = configOps + 1
    /\ UNCHANGED <<clockVars, paused, enclaves, resultVars, moneyVars>>

setRemainderVerifier(v) ==
    /\ Configure
    /\ remainderVerifier' = v
    /\ UNCHANGED <<challengeWindow, disputeWindow, challengeBondAmount, proverStake,
                   useStylusVerifier, useStylusGroth16>>

setChallengeBondAmount(amount) ==
    /\ Configure
    /\ amount \in 1 .. MaxAmount
    /\ challengeBondAmount' = amount
    /\ UNCHANGED <<remainderVerifier, challengeWindow, disputeWindow, proverStake,
                   useStylusVerifier, useStylusGroth16>>

setProverStake(amount) ==
    /\ Configure
    /\ amount \in 1 .. MaxAmount
    /\ proverStake' = amount
    /\ UNCHANGED <<remainderVerifier, challengeWindow, disputeWindow, challengeBondAmount,
                   useStylusVerifier, useStylusGroth16>>

setChallengeWindow(duration) ==
    /\ Configure
    /\ duration \in MinChallengeWindow .. MaxChallengeWindow
    /\ challengeWindow' = duration
    /\ UNCHANGED <<remainderVerifier, disputeWindow, challengeBondAmount, proverStake,
                   useStylusVerifier, useStylusGroth16>>

setDisputeWindow(duration) ==
    /\ Configure
    /\ duration \in MinDisputeWindow .. MaxDisputeWindow
    /\ disputeWindow' = duration
    /\ UNCHANGED <<remainderVerifier, challengeWindow, challengeBondAmount, proverStake,
                   useStylusVerifier, useStylusGroth16>>

setUseStylusVerifier(enabled) ==
    /\ Configure
    /\ useStylusVerifier' = enabled
    /\ UNCHANGED <<remainderVerifier, challengeWindow, disputeWindow, challengeBondAmount,
                   proverStake, useStylusGroth16>>

setUseStylusGroth16(enabled) ==
    /\ Configure
    /\ useStylusGroth16' = enabled
    /\ UNCHANGED <<remainderVerifier, challengeWindow, disputeWindow, challengeBondAmount,
                   proverStake, useStylusVerifier>>

----------------------------------------------------------------------------
(* ETH transfers *)

Deposit(amount) == balance' = balance + amount /\ UNCHANGED <<donated, received>>

(* Mutation: a failed transfer is ignored. *)
Pay_ignoringFailure(id, payee, amount) ==
    /\ amount <= balance
    /\ IF payee \in Rejecting
       THEN UNCHANGED moneyVars
       ELSE /\ balance' = balance - amount
            /\ received' = [received EXCEPT ![id][payee] = @ + amount]
            /\ UNCHANGED donated

(* A low-level call that must succeed: the transaction reverts when the    *)
(* payee's wallet rejects the ETH or the contract does not hold it.        *)
Pay(id, payee, amount) ==
    /\ payee \notin Rejecting
    /\ amount <= balance
    /\ balance' = balance - amount
    /\ received' = [received EXCEPT ![id][payee] = @ + amount]
    /\ UNCHANGED donated

receive(amount) ==
    /\ donated + amount <= MaxDonated
    /\ balance' = balance + amount
    /\ donated' = donated + amount
    /\ UNCHANGED <<clockVars, adminVars, resultVars, received>>

----------------------------------------------------------------------------
(* Submission and challenge *)

(* The attestation's signer is any key: recovering it from the signature   *)
(* is the elliptic curve library's work.                                   *)
submitResult(sender, job, signer, value) ==
    LET id == <<sender, job, now>> IN
    /\ now <= Horizon
    /\ Cardinality({r \in ResultIds : Exists(r)}) < MaxResults
    /\ ~paused
    /\ value >= proverStake
    /\ enclaves[signer] = "active"
    /\ Fresh(id)
    /\ results' = [results EXCEPT ![id] =
           [submittedAt |-> now, challengeDeadline |-> now + challengeWindow,
            finalized |-> FALSE, challenged |-> FALSE, submitter |-> sender,
            disputeDeadline |-> 0, challenger |-> NoAccount,
            challengeBond |-> 0, proverStakeAmount |-> value]]
    /\ Deposit(value)
    /\ UNCHANGED <<clockVars, adminVars, disputeResolved, disputeProverWon,
                   disputeExtensions, verdict>>

challenge(sender, id, value) ==
    /\ ~paused
    /\ Exists(id)
    /\ ~results[id].finalized
    /\ ~results[id].challenged
    /\ value >= challengeBondAmount
    /\ ChallengeWindowOpen(id)
    /\ results' = [results EXCEPT ![id] =
           [@ EXCEPT !.challenged = TRUE, !.challenger = sender, !.challengeBond = value,
                     !.disputeDeadline = now + disputeWindow]]
    /\ Deposit(value)
    /\ UNCHANGED <<clockVars, adminVars, disputeResolved, disputeProverWon,
                   disputeExtensions, verdict>>

----------------------------------------------------------------------------
(* Dispute resolution *)

settleDispute(id, proofValid) ==
    /\ disputeResolved' = [disputeResolved EXCEPT ![id] = TRUE]
    /\ disputeProverWon' = [disputeProverWon EXCEPT ![id] = proofValid]
    /\ results' = [results EXCEPT ![id].finalized = TRUE]
    /\ Pay(id, IF proofValid THEN results[id].submitter ELSE results[id].challenger, Pot(id))
    /\ UNCHANGED <<clockVars, adminVars, disputeExtensions>>

(* The verifier's answer: a call that fails or returns nothing counts as   *)
(* a rejected proof.  The caller chooses the proof, so either answer may   *)
(* come back.                                                              *)
SettleByProof(id, proofValid) ==
    /\ ~paused
    /\ OpenDispute(id)
    /\ remainderVerifier # NoAccount
    /\ verdict' = [verdict EXCEPT ![id] = IF proofValid THEN "valid" ELSE "invalid"]
    /\ settleDispute(id, proofValid)

(* Either verifier entry point: useStylusVerifier only selects the callee. *)
resolveDispute(id, proofValid) == SettleByProof(id, proofValid)

resolveDisputeHybrid(id, proofValid) ==
    /\ useStylusGroth16
    /\ SettleByProof(id, proofValid)

resolveDisputeHybridChunked(id, proofValid) ==
    /\ useStylusGroth16
    /\ SettleByProof(id, proofValid)

resolveDisputeByTimeout(id) ==
    /\ ~paused
    /\ OpenDispute(id)
    /\ DisputeDeadlineReached(id)
    /\ settleDispute(id, FALSE)
    /\ UNCHANGED verdict

(* Not guarded by the pause. *)
extendDisputeWindow(sender, id) ==
    /\ OpenDispute(id)
    /\ results[id].submitter = sender
    /\ MayExtend(id)
    /\ disputeExtensions' = [disputeExtensions EXCEPT ![id] = @ + 1]
    /\ results' = [results EXCEPT ![id].disputeDeadline = @ + ExtensionPeriod]
    /\ UNCHANGED <<clockVars, adminVars, disputeResolved, disputeProverWon, verdict, moneyVars>>

finalize(id) ==
    /\ ~paused
    /\ Exists(id)
    /\ ChallengeWindowPassed(id)
    /\ ~results[id].challenged
    /\ ~results[id].finalized
    /\ results' = [results EXCEPT ![id].finalized = TRUE]
    /\ Pay(id, results[id].submitter, results[id].proverStakeAmount)
    /\ UNCHANGED <<clockVars, adminVars, disputeResolved, disputeProverWon,
                   disputeExtensions, verdict>>

----------------------------------------------------------------------------
AdminNext ==
    \/ \E k \in EnclaveKeys : registerEnclave(k) \/ revokeEnclave(k)
    \/ pause
    \/ unpause
    \/ \E v \in Verifiers : setRemainderVerifier(v)
    \/ \E amount \in Amounts : setChallengeBondAmount(amount) \/ setProverStake(amount)
    \/ \E d \in Durations : setChallengeWindow(d) \/ setDisputeWindow(d)
    \/ \E b \in BOOLEAN : setUseStylusVerifier(b) \/ setUseStylusGroth16(b)

ResolveNext(id) ==
    \/ \E proofValid \in BOOLEAN :
         \/ resolveDispute(id, proofValid)
         \/ resolveDisputeHybrid(id, proofValid)
         \/ resolveDisputeHybridChunked(id, proofValid)
    \/ resolveDisputeByTimeout(id)

Next ==
    \/ Tick
    \/ AdminNext
    \/ \E amount \in Amounts : receive(amount)
    \/ \E a \in Accounts, j \in Jobs, k \in EnclaveKeys, value \in Amounts :
         submitResult(a, j, k, value)
    \/ \E a \in Accounts, id \in ResultIds :
         \/ \E value \in Amounts : challenge(a, id, value)
         \/ extendDisputeWindow(a, id)
    \/ \E id \in ResultIds : ResolveNext(id) \/ finalize(id)

Spec == Init /\ [][Next]_vars

(* Blocks keep being mined and an admin does not leave the contract paused *)
(* for good.  finalize and resolveDisputeByTimeout may be called by anyone *)
(* and someone is paid by each of them, so whoever is owed the money keeps *)
(* sending the transaction; pauses may interrupt it, hence strong fairness.*)
Fairness ==
    /\ WF_vars(Tick)
    /\ WF_vars(unpause)
    /\ \A id \in ResultIds : SF_vars(finalize(id)) /\ SF_vars(resolveDisputeByTimeout(id))

FairSpec == Spec /\ Fairness
----------------------------------------------------------------------------
(* Properties *)

ConfigTypeOK ==
    /\ now \in Nat \ {0}
    /\ paused \in BOOLEAN
    /\ enclaves \in [EnclaveKeys -> {"unregistered", "active", "revoked"}]
    /\ remainderVerifier \in Verifiers
    /\ challengeWindow \in MinChallengeWindow .. MaxChallengeWindow
    /\ disputeWindow \in MinDisputeWindow .. MaxDisputeWindow
    /\ challengeBondAmount \in 1 .. MaxAmount
    /\ proverStake \in 1 .. MaxAmount
    /\ useStylusVerifier \in BOOLEAN
    /\ useStylusGroth16 \in BOOLEAN
    /\ configOps \in Nat

DisputeTypeOK ==
    /\ disputeResolved \in [ResultIds -> BOOLEAN]
    /\ disputeProverWon \in [ResultIds -> BOOLEAN]
    /\ disputeExtensions \in [ResultIds -> 0 .. MaxExtensions]
    /\ verdict \in [ResultIds -> {"none", "valid", "invalid"}]

MoneyTypeOK ==
    /\ balance \in Nat
    /\ donated \in Nat
    /\ received \in [ResultIds -> [Accounts -> Nat]]

(* Every variable has its type, and what the setters and the extension     *)
(* limit bound stays in its bounds.                                        *)
TypeOK ==
    /\ ConfigTypeOK
    /\ results \in [ResultIds -> Result]
    /\ DisputeTypeOK
    /\ MoneyTypeOK

(* What the contract still owes for a result. *)
Owed(id) == IF results[id].finalized THEN 0 ELSE Pot(id)

Debts == [id \in ResultIds |-> Owed(id)]

(* The contract holds exactly the stakes and bonds of the results that are *)
(* not settled, besides what was donated to it: no submission, challenge,  *)
(* settlement or finalization, in any order, leaves ETH locked or spends   *)
(* another result's stake.                                                 *)
Solvency ==
    balance = donated + Total(Debts)

(* Whoever the outcome names is paid: the submitter of a valid result, the *)
(* challenger of one that lost its dispute.                                *)
Winner(id) == IF IsResultValid(id) THEN results[id].submitter ELSE results[id].challenger

(* For each result the winner receives the whole pot exactly once, when it *)
(* is settled or finalized, and no one receives anything otherwise; a      *)
(* payout whose transfer fails settles nothing.                            *)
PaidOnceToWinner ==
    \A id \in ResultIds : \A a \in Accounts :
        received[id][a] =
            IF results[id].finalized /\ a = Winner(id)
            THEN results[id].challengeBond + results[id].proverStakeAmount ELSE 0

(* A result counts as valid only after a challenge window of at least the  *)
(* minimum passed without a challenge, or after the verifier accepted a    *)
(* proof for it; it lost its dispute only if the verifier rejected a proof *)
(* or the dispute deadline, extension included, has passed.                *)
OutcomeIsEarned ==
    \A id \in ResultIds :
        LET r == results[id] IN
        /\ IsResultValid(id) =>
             \/ ~r.challenged /\ now >= r.submittedAt + MinChallengeWindow
             \/ verdict[id] = "valid"
        /\ r.finalized /\ ~IsResultValid(id) =>
             verdict[id] = "invalid" \/ now >= r.disputeDeadline

(* A dispute cannot be dragged out: whatever the order of reconfiguration, *)
(* challenge and extensions, it can be timed out at most one maximal       *)
(* dispute window and the allowed extensions after the challenge window.   *)
DisputesAreBounded ==
    \A id \in ResultIds :
        results[id].challenged =>
            results[id].disputeDeadline <
                results[id].challengeDeadline + MaxDisputeWindow + MaxExtensions * ExtensionPeriod

(* Once a result is settled or finalized nothing about it ever changes:    *)
(* not its record, its outcome or what was paid for it, even when the same *)
(* job is submitted again or the dispute is resolved again.                *)
OutcomeIsFinal ==
    [][\A id \in ResultIds :
          results[id].finalized =>
              /\ results'[id] = results[id]
              /\ disputeResolved'[id] = disputeResolved[id]
              /\ disputeProverWon'[id] = disputeProverWon[id]
              /\ disputeExtensions'[id] = disputeExtensions[id]
              /\ received'[id] = received[id]]_vars

(* The escrow that this contract's results amount to: a result is a deal,  *)
(* its pot the stake and the bond, and the winner gets all of it.          *)
DealStatus(id) ==
    IF results[id].finalized THEN "closed" ELSE IF Exists(id) THEN "open" ELSE "none"

E == INSTANCE Escrow WITH
    Deals <- ResultIds, Share <- 1,
    status <- [id \in ResultIds |-> DealStatus(id)],
    pot <- [id \in ResultIds |-> results[id].challengeBond + results[id].proverStakeAmount],
    paid <- [id \in ResultIds |-> IF results[id].finalized THEN received[id][Winner(id)] ELSE 0],
    held <- balance

(* Refinement: every submission, challenge, settlement, timeout and        *)
(* finalization is a step of the escrow or invisible to it, so ETH comes   *)
(* in only for a result that is not closed and leaves only in the one      *)
(* payment of its whole pot that closes it.                                *)
ImplementsEscrow == E!Spec

(* Every submitted result is eventually finalized, with its stake and bond *)
(* paid out, however pauses, challenges and extensions fall, unless a      *)
(* party to it has a wallet that rejects the payout.                       *)
EveryStakeIsReleased ==
    \A id \in ResultIds :
        Exists(id) ~> \/ results[id].finalized
                      \/ {results[id].submitter, results[id].challenger} \cap Rejecting # {}

----------------------------------------------------------------------------
(* The inductive invariant behind the safety properties, for one result:   *)
(* how the flags, the history and the money of a result hang together in   *)
(* every reachable state.                                                  *)
Lifecycle(id) ==
    LET r == results[id] IN
    /\ ~Exists(id) => ~r.challenged /\ ~r.finalized /\ r.proverStakeAmount = 0
    /\ Exists(id) => r.submitter \in Accounts /\ r.challengeDeadline >= r.submittedAt + MinChallengeWindow
    /\ r.challenged => r.challenger \in Accounts
    /\ ~r.challenged => r.challengeBond = 0 /\ disputeExtensions[id] = 0
    /\ disputeResolved[id] <=> r.challenged /\ r.finalized
    /\ disputeProverWon[id] => disputeResolved[id]

Timing(id) ==
    LET r == results[id] IN
    /\ r.finalized /\ ~r.challenged => now >= r.challengeDeadline
    /\ r.challenged => r.disputeDeadline < r.challengeDeadline + MaxDisputeWindow
                                             + disputeExtensions[id] * ExtensionPeriod
    /\ disputeProverWon[id] => verdict[id] = "valid"
    /\ disputeResolved[id] /\ ~disputeProverWon[id] =>
         verdict[id] = "invalid" \/ now >= r.disputeDeadline

Settlement(id) ==
    \A a \in Accounts :
        received[id][a] =
            IF results[id].finalized /\ a = Winner(id)
            THEN results[id].challengeBond + results[id].proverStakeAmount ELSE 0

ResultInv == \A id \in ResultIds : Lifecycle(id) /\ Timing(id) /\ Settlement(id)
============================================================================
