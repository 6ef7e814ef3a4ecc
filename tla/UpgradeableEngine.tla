-------------------------- MODULE UpgradeableEngine -------------------------
(***************************************************************************)
(* contracts/src/Upgradeable.sol: a proxy, the UUPS base with its optional *)
(* timelock, and UpgradeableExecutionEngine, governed by an admin and the  *)
(* controller of module TimelockController.                                *)
(*                                                                         *)
(* The engine's storage is that of the proxy and survives upgrades; the    *)
(* implementations it is upgraded to behave alike.  Unlike ExecutionEngine *)
(* this one does not decay tips, and a lapsed claim can neither be taken   *)
(* over nor reported.                                                      *)
(***************************************************************************)
EXTENDS TimelockController

CONSTANTS
    Rejecting,                  \* wallets that revert on receipt of ETH
    Tips, Expirations,
    Implementations, InitialImplementation,     \* the contracts, which have code
    DEFAULT_PROTOCOL_FEE_BPS, MAX_FEE_BPS,
    MIN_TIP, DEFAULT_EXPIRATION, MIN_EXPIRATION, MAX_EXPIRATION, CLAIM_WINDOW,
    (* bounds of the model *)
    MaxRequests, Horizon, MaxAdminOps

ASSUME EngineAssumption ==
    /\ Rejecting \subseteq Accounts
    /\ Tips \subseteq Nat /\ Expirations \subseteq Nat
    /\ {DEFAULT_PROTOCOL_FEE_BPS, MAX_FEE_BPS, MIN_TIP, DEFAULT_EXPIRATION, MIN_EXPIRATION,
        MAX_EXPIRATION, CLAIM_WINDOW, MaxRequests, Horizon, MaxAdminOps} \subseteq Nat
    /\ DEFAULT_PROTOCOL_FEE_BPS <= MAX_FEE_BPS /\ MAX_FEE_BPS <= 10000

VARIABLES
    admin, timelock, implementation, initialized,
    protocolFeeBps, feeRecipient, paused,
    requests, nextRequestId,
    proverEarnings,
    balance,                    \* ETH held by the proxy
    paidOut,                    \* history: ETH paid or refunded for each request
    adminOps                    \* calls made on the engine by an account (bound)

critical == <<implementation, protocolFeeBps, feeRecipient>>
configVars == <<admin, timelock, initialized, paused, critical>>
marketVars == <<requests, nextRequestId, proverEarnings, balance, paidOut>>
vars == <<now, timelockVars, configVars, marketVars, adminOps>>

RequestIds == 1 .. MaxRequests

Request == [requester : Accounts, expiresAt : Nat, status : {"Pending", "Claimed", "Completed", "Cancelled"},
            claimedBy : Accounts \cup {Nobody}, claimDeadline : Nat, tip : Nat]

ASSUME RequestAssumption == Nobody \notin Request

(* The arguments of the functions that may be called.                      *)
ASSUME CallAssumption ==
    \A call \in Calls :
        /\ call.fn \in {"setProtocolFee", "reinitialize", "setMinDelay"} => call.arg \in Nat
        /\ call.fn \in {"changeAdmin", "setTimelock", "setFeeRecipient"} => call.arg \in Addresses \cup {Nobody}

(* A proxy deployed without data.                                          *)
Init ==
    /\ TimelockInit
    /\ admin = Nobody /\ timelock = Nobody
    /\ implementation = InitialImplementation /\ initialized = 0
    /\ protocolFeeBps = 0 /\ feeRecipient = Nobody /\ paused = FALSE
    /\ requests = [r \in RequestIds |-> Nobody] /\ nextRequestId = 0
    /\ proverEarnings = [a \in Accounts |-> 0]
    /\ balance = 0 /\ paidOut = [r \in RequestIds |-> 0]
    /\ adminOps = 0

----------------------------------------------------------------------------
(* The base contract *)

(* Mutation: the guard of the initializer is missing.                      *)
MayInitialize_again == TRUE
MayInitialize == initialized = 0

initialize(recipient, a) ==
    /\ MayInitialize
    /\ adminOps < MaxAdminOps /\ adminOps' = adminOps + 1
    /\ initialized' = 1
    /\ admin' = a /\ feeRecipient' = recipient
    /\ protocolFeeBps' = DEFAULT_PROTOCOL_FEE_BPS
    /\ nextRequestId' = 1
    /\ UNCHANGED <<now, timelockVars, timelock, implementation, paused, requests, proverEarnings, balance, paidOut>>

(* Mutation: the admin may bypass the timelock.                            *)
onlyTimelocked_orAdmin(sender) == sender \in {timelock, admin}
onlyTimelocked(sender) == sender = IF timelock # Nobody THEN timelock ELSE admin

onlyAdmin(sender) == sender = admin

HasCode(address) == address \in Implementations

(* A call that changes the configuration; an unknown one reverts.  The     *)
(* call of upgradeToAndCall is a following one of the same sender.         *)
upgradeTo(sender, call) ==
    /\ call.fn = "upgradeTo" /\ onlyTimelocked(sender)
    /\ HasCode(call.arg)
    /\ implementation' = call.arg
    /\ UNCHANGED <<admin, timelock, initialized, paused, protocolFeeBps, feeRecipient>>

WithinCap(fee) == fee <= MAX_FEE_BPS

setProtocolFee(sender, call) ==
    /\ call.fn = "setProtocolFee" /\ onlyTimelocked(sender)
    /\ WithinCap(call.arg)
    /\ protocolFeeBps' = call.arg
    /\ UNCHANGED <<admin, timelock, initialized, paused, implementation, feeRecipient>>

setFeeRecipient(sender, call) ==
    /\ call.fn = "setFeeRecipient" /\ onlyTimelocked(sender)
    /\ call.arg # Nobody
    /\ feeRecipient' = call.arg
    /\ UNCHANGED <<admin, timelock, initialized, paused, implementation, protocolFeeBps>>

changeAdmin(sender, call) ==
    /\ call.fn = "changeAdmin" /\ onlyAdmin(sender)
    /\ call.arg # Nobody
    /\ admin' = call.arg
    /\ UNCHANGED <<timelock, initialized, paused, critical>>

setTimelock(sender, call) ==
    /\ call.fn = "setTimelock" /\ onlyAdmin(sender)
    /\ timelock' = call.arg
    /\ UNCHANGED <<admin, initialized, paused, critical>>

reinitialize(sender, call) ==
    /\ call.fn = "reinitialize" /\ onlyAdmin(sender)
    /\ call.arg > initialized
    /\ initialized' = call.arg
    /\ UNCHANGED <<admin, timelock, paused, critical>>

setPaused(sender, call) ==
    /\ call.fn \in {"pause", "unpause"} /\ onlyAdmin(sender)
    /\ paused = (call.fn = "unpause")
    /\ paused' = ~ paused
    /\ UNCHANGED <<admin, timelock, initialized, critical>>

Configure(sender, call) ==
    \/ upgradeTo(sender, call) \/ setProtocolFee(sender, call) \/ setFeeRecipient(sender, call)
    \/ changeAdmin(sender, call) \/ setTimelock(sender, call) \/ reinitialize(sender, call)
    \/ setPaused(sender, call)

DirectCall(sender, call) ==
    /\ adminOps < MaxAdminOps /\ adminOps' = adminOps + 1
    /\ Configure(sender, call)
    /\ UNCHANGED <<now, timelockVars, marketVars>>

(* The controller makes an announced call: on the engine, or on itself     *)
(* when it is its own owner.                                               *)
Execute(sender, id) ==
    LET call == operations[id].call
    IN  /\ execute(sender, id)
        /\ \/ Configure(Timelock, call) /\ UNCHANGED <<owner, minDelay>>
           \/ /\ call.fn = "setMinDelay" /\ owner = Timelock /\ call.arg # 0
              /\ minDelay' = call.arg
              /\ UNCHANGED <<owner, configVars>>
        /\ UNCHANGED <<now, marketVars, adminOps>>

----------------------------------------------------------------------------
(* The market *)

Expiration(seconds) == IF seconds > 0 THEN seconds ELSE DEFAULT_EXPIRATION

(* Both overloads.                                                         *)
requestExecution(sender, value, seconds) ==
    /\ now <= Horizon /\ nextRequestId \in RequestIds
    /\ ~ paused
    /\ value >= MIN_TIP
    /\ Expiration(seconds) \in MIN_EXPIRATION .. MAX_EXPIRATION
    /\ requests' = [requests EXCEPT ![nextRequestId] =
           [requester |-> sender, expiresAt |-> now + Expiration(seconds), status |-> "Pending",
            claimedBy |-> Nobody, claimDeadline |-> 0, tip |-> value]]
    /\ nextRequestId' = nextRequestId + 1
    /\ balance' = balance + value
    /\ UNCHANGED <<now, timelockVars, configVars, proverEarnings, paidOut, adminOps>>

Status(r) == IF requests[r] = Nobody THEN "None" ELSE requests[r].status

claimExecution(sender, r) ==
    /\ ~ paused
    /\ Status(r) = "Pending" /\ now <= requests[r].expiresAt
    /\ requests' = [requests EXCEPT ![r].status = "Claimed", ![r].claimedBy = sender,
                                    ![r].claimDeadline = now + CLAIM_WINDOW]
    /\ UNCHANGED <<now, timelockVars, configVars, nextRequestId, proverEarnings, balance, paidOut, adminOps>>

Fee(r) == (requests[r].tip * protocolFeeBps) \div 10000

(* With a proof the verifier accepts.                                      *)
submitProof(sender, r) ==
    /\ ~ paused
    /\ Status(r) = "Claimed" /\ requests[r].claimedBy = sender
    /\ now <= requests[r].claimDeadline
    /\ sender \notin Rejecting
    /\ Fee(r) > 0 => feeRecipient \notin Rejecting
    /\ requests[r].tip <= balance
    /\ requests' = [requests EXCEPT ![r].status = "Completed"]
    /\ proverEarnings' = [proverEarnings EXCEPT ![sender] = @ + requests[r].tip - Fee(r)]
    /\ balance' = balance - requests[r].tip
    /\ paidOut' = [paidOut EXCEPT ![r] = @ + requests[r].tip]
    /\ UNCHANGED <<now, timelockVars, configVars, nextRequestId, adminOps>>

(* Mutation: the pause holds up refunds too.                               *)
MayCancel_unpaused(r) == Status(r) = "Pending" /\ ~ paused
(* Deliberately not guarded by the pause.                                  *)
MayCancel(r) == Status(r) = "Pending"

cancelExecution(sender, r) ==
    /\ MayCancel(r) /\ requests[r].requester = sender
    /\ sender \notin Rejecting
    /\ requests[r].tip <= balance
    /\ requests' = [requests EXCEPT ![r].status = "Cancelled"]
    /\ balance' = balance - requests[r].tip
    /\ paidOut' = [paidOut EXCEPT ![r] = @ + requests[r].tip]
    /\ UNCHANGED <<now, timelockVars, configVars, nextRequestId, proverEarnings, adminOps>>

----------------------------------------------------------------------------
Tick ==
    /\ now < MaxTime /\ now' = now + 1
    /\ UNCHANGED <<timelockVars, configVars, marketVars, adminOps>>

Govern ==
    \/ OwnerNext /\ UNCHANGED <<now, configVars, marketVars, adminOps>>
    \/ \E a \in Accounts, id \in Ids : Execute(a, id)
    \/ \E a \in Accounts :
          \/ \E call \in Calls : DirectCall(a, call)
          \/ \E b \in Accounts : initialize(b, a)

Market ==
    \E a \in Accounts :
        \/ \E value \in Tips, seconds \in Expirations : requestExecution(a, value, seconds)
        \/ \E r \in RequestIds : claimExecution(a, r) \/ submitProof(a, r) \/ cancelExecution(a, r)

Next == Tick \/ Govern \/ Market

Spec == Init /\ [][Next]_vars

(* Fairness: time passes, somebody has ready operations executed, and a    *)
(* requester whose request nobody claims takes the tip back.               *)
Fairness ==
    /\ WF_vars(Tick)
    /\ \A id \in Ids : WF_vars(\E a \in Accounts : Execute(a, id))
    /\ \A r \in RequestIds : WF_vars(\E a \in Accounts : cancelExecution(a, r))

FairSpec == Spec /\ Fairness

----------------------------------------------------------------------------
(* Every variable has its type; the fee stays below its cap.               *)
TypeOK ==
    /\ TimelockTypeOK
    /\ admin \in Addresses \cup {Nobody} /\ timelock \in Addresses \cup {Nobody}
    /\ initialized \in Nat
    /\ protocolFeeBps \in 0 .. MAX_FEE_BPS
    /\ feeRecipient \in Addresses \cup {Nobody}
    /\ paused \in BOOLEAN
    /\ requests \in [RequestIds -> Request \cup {Nobody}]
    /\ nextRequestId \in 0 .. MaxRequests + 1
    /\ proverEarnings \in [Accounts -> Nat]
    /\ balance \in Nat
    /\ paidOut \in [RequestIds -> Nat]
    /\ adminOps \in 0 .. MaxAdminOps

(* The effect of an announced call on the engine.                          *)
Announced(notice) ==
    \/ notice.call.fn = "upgradeTo" /\ implementation' = notice.call.arg
    \/ notice.call.fn = "setProtocolFee" /\ protocolFeeBps' = notice.call.arg
    \/ notice.call.fn = "setFeeRecipient" /\ feeRecipient' = notice.call.arg

(* TimelockController.sol: "requiring a public waiting period before       *)
(* critical configuration changes take effect".  While the controller is   *)
(* in charge of the engine, the implementation, the fee and its recipient  *)
(* change only to what was announced at least the minimum delay before     *)
(* that was in force then, under an id that was neither cancelled nor used *)
(* before, whatever was done in between to delays, owners and admins.      *)
ChangesAreAnnounced ==
    [][critical' # critical /\ onlyTimelocked(Timelock) =>
          \E n \in announced :
              /\ Announced(n) /\ now >= n.at + n.minimum
              /\ Pending(n.id) /\ operations'[n.id].executed
              /\ \A m \in announced : m.id = n.id => m = n]_vars

(* The call is one that would not revert now if the controller made it.    *)
Accepted(call) ==
    CASE call.fn = "upgradeTo" -> onlyTimelocked(Timelock) /\ HasCode(call.arg)
      [] call.fn = "setFeeRecipient" -> onlyTimelocked(Timelock)
      [] call.fn = "setProtocolFee" -> onlyTimelocked(Timelock) /\ WithinCap(call.arg)
      [] call.fn \in {"changeAdmin", "setTimelock"} -> onlyAdmin(Timelock)
      [] call.fn = "reinitialize" -> onlyAdmin(Timelock) /\ call.arg > initialized
      [] call.fn = "pause" -> onlyAdmin(Timelock) /\ ~ paused
      [] call.fn = "unpause" -> onlyAdmin(Timelock) /\ paused
      [] call.fn = "setMinDelay" -> owner = Timelock

(* "operations cannot be blocked by an unresponsive owner": an operation   *)
(* that nobody cancels is executed, unless the engine refuses the call.    *)
AnnouncedIsExecuted ==
    \A id \in Ids : Pending(id) ~> (Pending(id) => ~ Accepted(operations[id].call))

(* cancelExecution: "so requesters can recover funds even when the         *)
(* contract is paused".  A tip comes back or is paid out; the one way to   *)
(* lose it is a prover who claims the request and lets the claim lapse.    *)
OnlyLapsedClaimsAreStuck ==
    \A r \in RequestIds :
        (Status(r) = "Pending" /\ requests[r].requester \notin Rejecting) ~>
            (\/ Status(r) \in {"Completed", "Cancelled"}
             \/ Status(r) = "Claimed" /\ now > requests[r].claimDeadline)

(* Requests as deals of an escrow.                                         *)
DealStatus(r) ==
    CASE Status(r) = "None" -> "none"
      [] Status(r) \in {"Pending", "Claimed"} -> "open"
      [] OTHER -> "closed"

E == INSTANCE Escrow WITH
         Deals <- RequestIds, Share <- 1,
         status <- [r \in RequestIds |-> DealStatus(r)],
         pot <- [r \in RequestIds |-> IF requests[r] = Nobody THEN 0 ELSE requests[r].tip],
         paid <- paidOut, held <- balance

(* Through upgrades, reinitializations, fee changes and pauses the engine  *)
(* implements the escrow: each tip is paid out once and from its own pot.  *)
ImplementsEscrow == E!Spec
=============================================================================
