------------------------- MODULE TimelockController -------------------------
(***************************************************************************)
(* contracts/src/TimelockController.sol: the owner announces a call to     *)
(* another contract, and after a delay anybody may have it made.           *)
(*                                                                         *)
(* What a call does is up to the module that extends this one: execute     *)
(* marks the operation, and the extending module conjoins the effect of    *)
(* the call.  If the call reverts, the whole transaction does.             *)
(***************************************************************************)
EXTENDS Integers

CONSTANTS
    Accounts,
    Nobody,                     \* address(0)
    Timelock,                   \* the address of this contract
    Ids,                        \* operation ids
    Calls,                      \* target and data of an operation
    Delays,                     \* delays an owner may ask for
    InitOwner, InitMinDelay,
    (* bounds of the model *)
    MaxTime, MaxOwnerOps

ASSUME TimelockAssumption ==
    /\ Nobody \notin Accounts \cup {Timelock} /\ Timelock \notin Accounts
    /\ InitOwner \in Accounts
    /\ Delays \subseteq Nat /\ InitMinDelay \in Nat \ {0}
    /\ {MaxTime, MaxOwnerOps} \subseteq Nat

VARIABLES
    now,
    owner, minDelay,
    operations,
    announced,                  \* history: when each id was scheduled, for what, and the minimum then
    ownerOps                    \* owner transactions so far (bound)

timelockVars == <<owner, minDelay, operations, announced, ownerOps>>

Addresses == Accounts \cup {Timelock}
Operation == [call : Calls, readyTimestamp : Nat, executed : BOOLEAN, cancelled : BOOLEAN]
Notice == [id : Ids, call : Calls, at : Nat, minimum : Nat]

(* A used slot differs from an unused one.                                 *)
ASSUME SlotAssumption == Nobody \notin Operation

Scheduled(id) == operations[id] # Nobody
Pending(id) == Scheduled(id) /\ ~ operations[id].executed /\ ~ operations[id].cancelled

TimelockInit ==
    /\ now = 1
    /\ owner = InitOwner
    /\ minDelay = InitMinDelay
    /\ operations = [id \in Ids |-> Nobody]
    /\ announced = {}
    /\ ownerOps = 0

OwnerOp(sender) ==
    /\ sender = owner
    /\ ownerOps < MaxOwnerOps /\ ownerOps' = ownerOps + 1

Unused(id) == ~ Scheduled(id)

LongEnough(delay) == delay >= minDelay

schedule(sender, id, call, delay) ==
    /\ OwnerOp(sender)
    /\ LongEnough(delay) /\ Unused(id)
    /\ now + delay <= MaxTime
    /\ operations' = [operations EXCEPT ![id] =
           [call |-> call, readyTimestamp |-> now + delay, executed |-> FALSE, cancelled |-> FALSE]]
    /\ announced' = announced \cup {[id |-> id, call |-> call, at |-> now, minimum |-> minDelay]}
    /\ UNCHANGED <<owner, minDelay>>

(* Mutation: the owner must be there to execute.                           *)
MayExecute_owner(sender) == sender = owner
MayExecute(sender) == TRUE

Ready(id) == Pending(id) /\ now >= operations[id].readyTimestamp

(* Without the effect of the call.                                         *)
execute(sender, id) ==
    /\ MayExecute(sender) /\ Ready(id)
    /\ operations' = [operations EXCEPT ![id].executed = TRUE]
    /\ UNCHANGED <<announced, ownerOps>>

cancel(sender, id) ==
    /\ OwnerOp(sender)
    /\ Pending(id)
    /\ operations' = [operations EXCEPT ![id].cancelled = TRUE]
    /\ UNCHANGED <<owner, minDelay, announced>>

setMinDelay(sender, delay) ==
    /\ OwnerOp(sender)
    /\ delay # 0
    /\ minDelay' = delay
    /\ UNCHANGED <<owner, operations, announced>>

transferOwnership(sender, newOwner) ==
    /\ OwnerOp(sender)
    /\ owner' = newOwner
    /\ UNCHANGED <<minDelay, operations, announced>>

(* All of it but execute.                                                  *)
OwnerNext ==
    \E a \in Accounts :
        \/ \E id \in Ids, call \in Calls, delay \in Delays : schedule(a, id, call, delay)
        \/ \E id \in Ids : cancel(a, id)
        \/ \E delay \in Delays : setMinDelay(a, delay)
        \/ \E b \in Addresses : transferOwnership(a, b)

TimelockTypeOK ==
    /\ now \in Nat
    /\ owner \in Addresses
    /\ minDelay \in Nat \ {0}
    /\ operations \in [Ids -> Operation \cup {Nobody}]
    /\ announced \subseteq Notice
    /\ ownerOps \in 0 .. MaxOwnerOps
=============================================================================
