-------------------------- MODULE ExecutionEngine --------------------------
(***************************************************************************)
(* contracts/src/ExecutionEngine.sol: the market of zkVM executions.  A    *)
(* requester escrows a tip; a prover claims the request and has            *)
(* CLAIM_WINDOW to prove it; the payout decays with the request's age; a   *)
(* lapsed claim may be taken over or reported; a pending request may be    *)
(* cancelled.                                                              *)
(*                                                                         *)
(* One action per transaction.  requestExecution is the one entry point    *)
(* without the reentrancy lock: called from a payee's wallet or a callback *)
(* it only appends a request, which is the same as calling it right after  *)
(* the outer transaction, so transactions stay atomic here.                *)
(***************************************************************************)
EXTENDS Integers

CONSTANTS
    Accounts, Rejecting,        \* Rejecting: wallets that revert on receipt of ETH
    NoAccount,                  \* address(0)
    Tips,                       \* msg.value of a request
    Expirations,                \* expirationSeconds of a request
    Fees,                       \* fees an owner may ask for, in basis points
    ReputationChoices,          \* what the owner passes to setReputation: is it set?
    InitFee, InitReputation,
    MIN_TIP, DEFAULT_EXPIRATION, MIN_EXPIRATION, MAX_EXPIRATION,
    CLAIM_WINDOW, TIP_DECAY_PERIOD, MAX_FEE_BPS,
    (* bounds of the model *)
    MaxRequests, Horizon, MaxTime, MaxConfigOps

ASSUME AccountAssumption == Rejecting \subseteq Accounts /\ NoAccount \notin Accounts

ASSUME NatAssumption ==
    /\ Tips \subseteq Nat
    /\ Expirations \subseteq Nat
    /\ Fees \subseteq Nat
    /\ {MIN_TIP, DEFAULT_EXPIRATION, MIN_EXPIRATION, MAX_EXPIRATION, CLAIM_WINDOW,
        MAX_FEE_BPS, MaxRequests, Horizon, MaxTime, MaxConfigOps} \subseteq Nat
    /\ TIP_DECAY_PERIOD \in Nat \ {0}
    /\ MAX_FEE_BPS <= 10000

ASSUME InitAssumption ==
    /\ InitFee \in 0 .. MAX_FEE_BPS
    /\ ReputationChoices \subseteq BOOLEAN
    /\ InitReputation \in BOOLEAN

VARIABLES
    now, paused,
    requests, nextRequestId,
    protocolFeeBps, feeRecipient,
    reputation,                 \* is a ProverReputation contract configured?
    programActive,              \* registry.isProgramActive of the one program
    proverCompletedCount, proverEarnings,
    balance,                    \* ETH held by the contract
    paidOut,                    \* history: ETH paid or refunded for each request
    claims,                     \* history: claims made on each request
    reports,                    \* history: claims reported to the reputation contract
    configOps                   \* owner transactions so far (bound)

configVars  == <<paused, protocolFeeBps, feeRecipient, reputation, programActive, configOps>>
statVars    == <<proverCompletedCount, proverEarnings>>
historyVars == <<paidOut, claims, reports>>
vars == <<now, configVars, requests, nextRequestId, statVars, balance, historyVars>>

----------------------------------------------------------------------------
RequestIds == 1 .. MaxRequests

Request ==
    [id : Nat, requester : Accounts \cup {NoAccount}, createdAt : Nat, expiresAt : Nat,
     status : {"Pending", "Claimed", "Completed", "Cancelled"},
     claimedBy : Accounts \cup {NoAccount}, claimedAt : Nat, claimDeadline : Nat,
     tip : Nat, maxTip : Nat]

(* An unused storage slot: the first member of the status enum is Pending. *)
NoRequest ==
    [id |-> 0, requester |-> NoAccount, createdAt |-> 0, expiresAt |-> 0,
     status |-> "Pending", claimedBy |-> NoAccount, claimedAt |-> 0, claimDeadline |-> 0,
     tip |-> 0, maxTip |-> 0]

Exists(id) == requests[id].id # 0

Init ==
    /\ now = 1
    /\ paused = FALSE
    /\ requests = [id \in RequestIds |-> NoRequest]
    /\ nextRequestId = 1
    /\ protocolFeeBps = InitFee
    /\ feeRecipient \in Accounts
    /\ reputation = InitReputation
    /\ programActive = TRUE
    /\ proverCompletedCount = [a \in Accounts |-> 0]
    /\ proverEarnings = [a \in Accounts |-> 0]
    /\ balance = 0
    /\ paidOut = [id \in RequestIds |-> 0]
    /\ claims = [id \in RequestIds |-> 0]
    /\ reports = [id \in RequestIds |-> 0]
    /\ configOps = 0

Tick ==
    /\ now < MaxTime
    /\ now' = now + 1
    /\ UNCHANGED <<configVars, requests, nextRequestId, statVars, balance, historyVars>>

----------------------------------------------------------------------------
(* Requests *)

Expiration(seconds) == IF seconds > 0 THEN seconds ELSE DEFAULT_EXPIRATION

(* Both overloads: they differ in the event they emit. *)
requestExecution(sender, value, seconds) ==
    /\ now <= Horizon
    /\ nextRequestId \in RequestIds
    /\ ~paused
    /\ value >= MIN_TIP
    /\ programActive
    /\ Expiration(seconds) \in MIN_EXPIRATION .. MAX_EXPIRATION
    /\ now + Expiration(seconds) > now
    /\ requests' = [requests EXCEPT ![nextRequestId] =
           [id |-> nextRequestId, requester |-> sender, createdAt |-> now,
            expiresAt |-> now + Expiration(seconds), status |-> "Pending",
            claimedBy |-> NoAccount, claimedAt |-> 0, claimDeadline |-> 0,
            tip |-> value, maxTip |-> value]]
    /\ nextRequestId' = nextRequestId + 1
    /\ balance' = balance + value
    /\ UNCHANGED <<now, configVars, statVars, historyVars>>

(* Mutation: a claimed request may be cancelled. *)
MayCancel_claimed(id) == requests[id].status \in {"Pending", "Claimed"}

(* Mutation: the pause holds up refunds too. *)
MayCancel_unpaused(id) == requests[id].status = "Pending" /\ ~paused

MayCancel(id) == requests[id].status = "Pending"

(* Deliberately not guarded by the pause. *)
cancelExecution(sender, id) ==
    /\ Exists(id)
    /\ requests[id].requester = sender
    /\ MayCancel(id)
    /\ sender \notin Rejecting
    /\ requests[id].tip <= balance
    /\ requests' = [requests EXCEPT ![id].status = "Cancelled"]
    /\ balance' = balance - requests[id].tip
    /\ paidOut' = [paidOut EXCEPT ![id] = @ + requests[id].tip]
    /\ UNCHANGED <<now, configVars, nextRequestId, statVars, claims, reports>>

----------------------------------------------------------------------------
(* Proving *)

(* try reputation.recordX(...) {} catch {}: whatever the callee does, the  *)
(* engine goes on.                                                         *)
Report(id) == reports' = IF reputation THEN [reports EXCEPT ![id] = @ + 1] ELSE reports

ClaimLapsed(id) == now > requests[id].claimDeadline

NotExpired(id) == now <= requests[id].expiresAt

claimExecution(sender, id) ==
    /\ ~paused
    /\ Exists(id)
    /\ NotExpired(id)
    /\ \/ requests[id].status = "Pending" /\ UNCHANGED reports
       \/ requests[id].status = "Claimed" /\ ClaimLapsed(id) /\ Report(id)
    /\ requests' = [requests EXCEPT ![id] =
           [@ EXCEPT !.status = "Claimed", !.claimedBy = sender, !.claimedAt = now,
                     !.claimDeadline = now + CLAIM_WINDOW]]
    /\ claims' = [claims EXCEPT ![id] = @ + 1]
    /\ UNCHANGED <<now, configVars, nextRequestId, statVars, balance, paidOut>>

(* Mutation: the payout decays without a floor. *)
calculatePayout_unfloored(req) ==
    req.maxTip - (req.maxTip * (now - req.createdAt)) \div (TIP_DECAY_PERIOD * 2)

calculatePayout(req) ==
    LET elapsed == now - req.createdAt IN
    IF elapsed >= TIP_DECAY_PERIOD
    THEN req.maxTip \div 2
    ELSE req.maxTip - (req.maxTip * elapsed) \div (TIP_DECAY_PERIOD * 2)

Fee(payout) == (payout * protocolFeeBps) \div 10000

(* What is left for the prover after the protocol fee. *)
ProverShare(payout) == payout - Fee(payout)

RecordEarnings(prover, payout) ==
    /\ proverCompletedCount' = [proverCompletedCount EXCEPT ![prover] = @ + 1]
    /\ proverEarnings' = [proverEarnings EXCEPT ![prover] = @ + ProverShare(payout)]

(* The proof passed the program's verifier; verify reverts otherwise.  The *)
(* callback may fail without effect on the engine.  Both transfers must    *)
(* succeed.                                                                *)
submitProof(sender, id) ==
    LET payout == calculatePayout(requests[id]) IN
    /\ ~paused
    /\ Exists(id)
    /\ requests[id].status = "Claimed"
    /\ requests[id].claimedBy = sender
    /\ ~ClaimLapsed(id)
    /\ requests' = [requests EXCEPT ![id].status = "Completed"]
    /\ RecordEarnings(sender, payout)
    /\ Report(id)
    /\ sender \notin Rejecting
    /\ Fee(payout) > 0 => feeRecipient \notin Rejecting
    /\ ProverShare(payout) + Fee(payout) <= balance
    /\ balance' = balance - ProverShare(payout) - Fee(payout)
    /\ paidOut' = [paidOut EXCEPT ![id] = @ + ProverShare(payout) + Fee(payout)]
    /\ UNCHANGED <<now, configVars, nextRequestId, claims>>

(* Anyone may call it, also while paused, but only when a reputation       *)
(* contract is configured.                                                 *)
reportBadProof(id) ==
    /\ Exists(id)
    /\ requests[id].status = "Claimed"
    /\ ClaimLapsed(id)
    /\ reputation
    /\ requests' = [requests EXCEPT ![id] =
           [@ EXCEPT !.status = "Pending", !.claimedBy = NoAccount, !.claimedAt = 0,
                     !.claimDeadline = 0]]
    /\ Report(id)
    /\ UNCHANGED <<now, configVars, nextRequestId, statVars, balance, paidOut, claims>>

----------------------------------------------------------------------------
(* Administration *)

Configure ==
    /\ configOps < MaxConfigOps
    /\ configOps' = configOps + 1
    /\ UNCHANGED <<now, requests, nextRequestId, statVars, balance, historyVars>>

pause ==
    /\ ~paused
    /\ paused' = TRUE
    /\ UNCHANGED <<now, requests, nextRequestId, statVars, balance, historyVars,
                   protocolFeeBps, feeRecipient, reputation, programActive, configOps>>

unpause ==
    /\ paused
    /\ paused' = FALSE
    /\ UNCHANGED <<now, requests, nextRequestId, statVars, balance, historyVars,
                   protocolFeeBps, feeRecipient, reputation, programActive, configOps>>

setProtocolFee(bps) ==
    /\ Configure
    /\ bps <= MAX_FEE_BPS
    /\ protocolFeeBps' = bps
    /\ UNCHANGED <<paused, feeRecipient, reputation, programActive>>

setFeeRecipient(a) ==
    /\ Configure
    /\ feeRecipient' = a
    /\ UNCHANGED <<paused, protocolFeeBps, reputation, programActive>>

setReputation(isSet) ==
    /\ Configure
    /\ reputation' = isSet
    /\ UNCHANGED <<paused, protocolFeeBps, feeRecipient, programActive>>

(* ProgramRegistry.deactivateProgram and reactivateProgram. *)
setProgramActive(active) ==
    /\ Configure
    /\ programActive # active
    /\ programActive' = active
    /\ UNCHANGED <<paused, protocolFeeBps, feeRecipient, reputation>>

AdminNext ==
    \/ pause
    \/ unpause
    \/ \E bps \in Fees : setProtocolFee(bps)
    \/ \E a \in Accounts : setFeeRecipient(a)
    \/ \E isSet \in ReputationChoices : setReputation(isSet)
    \/ \E active \in BOOLEAN : setProgramActive(active)

Next ==
    \/ Tick
    \/ AdminNext
    \/ \E a \in Accounts, value \in Tips, seconds \in Expirations :
         requestExecution(a, value, seconds)
    \/ \E id \in RequestIds :
         \/ \E a \in Accounts : cancelExecution(a, id) \/ claimExecution(a, id) \/ submitProof(a, id)
         \/ reportBadProof(id)

Spec == Init /\ [][Next]_vars

(* Blocks keep being mined, and a requester who wants out keeps trying:    *)
(* he reports a lapsed claim, which anyone may do, and cancels.  Provers   *)
(* may claim in between, hence strong fairness.  Nothing is assumed of     *)
(* provers or of the owner.                                                *)
Fairness ==
    /\ WF_vars(Tick)
    /\ \A id \in RequestIds :
         /\ SF_vars(reportBadProof(id))
         /\ SF_vars(\E a \in Accounts : cancelExecution(a, id))

FairSpec == Spec /\ Fairness

----------------------------------------------------------------------------
(* Properties *)

(* Every variable has its type; the fee never exceeds its cap. *)
TypeOK ==
    /\ now \in Nat
    /\ paused \in BOOLEAN
    /\ requests \in [RequestIds -> Request]
    /\ nextRequestId \in 1 .. MaxRequests + 1
    /\ protocolFeeBps \in 0 .. MAX_FEE_BPS
    /\ feeRecipient \in Accounts
    /\ reputation \in BOOLEAN
    /\ programActive \in BOOLEAN
    /\ proverCompletedCount \in [Accounts -> Nat]
    /\ proverEarnings \in [Accounts -> Nat]
    /\ balance \in Nat
    /\ paidOut \in [RequestIds -> Nat]
    /\ claims \in [RequestIds -> Nat]
    /\ reports \in [RequestIds -> Nat]
    /\ configOps \in Nat

Open(id) == Exists(id) /\ requests[id].status \in {"Pending", "Claimed"}

(* What was paid for a request follows its fate: nothing while it is open, *)
(* the whole tip to a requester who cancelled, and between half the tip    *)
(* and the tip, fee included, for a proof, however late it came.           *)
PaymentMatchesFate ==
    \A id \in RequestIds :
        LET r == requests[id] IN
        /\ r.status \in {"Pending", "Claimed"} => paidOut[id] = 0
        /\ r.status = "Cancelled" => paidOut[id] = r.tip
        /\ r.status = "Completed" => paidOut[id] \in r.tip \div 2 .. r.tip

(* No claim is reported to the reputation contract twice, by reclaiming,   *)
(* reporting and proving in any order: the reports never exceed the claims *)
(* that have ended.                                                        *)
NoClaimReportedTwice ==
    \A id \in RequestIds :
        reports[id] + (IF requests[id].status = "Claimed" THEN 1 ELSE 0) <= claims[id]

(* The escrow that the requests amount to: a request is a deal, its pot is *)
(* the tip, and whatever closes it pays out at least half of it.           *)
DealStatus(id) == IF ~Exists(id) THEN "none" ELSE IF Open(id) THEN "open" ELSE "closed"

E == INSTANCE Escrow WITH
    Deals <- RequestIds, Share <- 2,
    status <- [id \in RequestIds |-> DealStatus(id)],
    pot <- [id \in RequestIds |-> requests[id].tip],
    paid <- paidOut,
    held <- balance

(* Refinement: whatever the order of claims, takeovers, reports, proofs    *)
(* and cancellations, ETH leaves the engine only in the one payment that   *)
(* closes a request, out of that request's tip and at least half of it.    *)
ImplementsEscrow == E!Spec

(* A claim is exclusive until its deadline: while it runs no one can take, *)
(* reset or cancel the request; it can only be completed by its claimant.  *)
ClaimIsExclusive ==
    [][\A id \in RequestIds :
          requests[id].status = "Claimed" /\ now <= requests[id].claimDeadline =>
              \/ requests'[id] = requests[id]
              \/ /\ requests'[id] = [requests[id] EXCEPT !.status = "Completed"]
                 /\ proverCompletedCount'[requests[id].claimedBy]
                      = proverCompletedCount[requests[id].claimedBy] + 1]_vars

(* A request that was completed or cancelled never changes again, and no   *)
(* request is completed later than one claim window after it expired.      *)
ClosedForGood ==
    [][\A id \in RequestIds :
          /\ requests[id].status \in {"Completed", "Cancelled"} =>
               requests'[id] = requests[id] /\ paidOut'[id] = paidOut[id]
          /\ requests'[id].status = "Completed" /\ requests[id].status # "Completed" =>
               now <= requests[id].expiresAt + CLAIM_WINDOW]_vars

(* getCurrentTip *)
CurrentTip(id) == IF Open(id) THEN calculatePayout(requests[id]) ELSE 0

(* A prover never gains by waiting: the payout of an existing request only *)
(* falls, over the end of the decay period and through integer division.   *)
TipNeverRises ==
    [][\A id \in RequestIds : Exists(id) => CurrentTip(id)' <= CurrentTip(id)]_vars

(* A requester who keeps trying gets every request closed, paid for with a *)
(* proof or refunded, whatever provers do and even while the engine is     *)
(* paused, as long as the owner keeps a reputation contract configured.    *)
FundsRecoverableWithReputation ==
    \A id \in RequestIds :
        Exists(id) ~> (~Open(id) \/ requests[id].requester \in Rejecting \/ ~reputation)
============================================================================
