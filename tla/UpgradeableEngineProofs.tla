---------------------- MODULE UpgradeableEngineProofs -----------------------
(* Theorems about UpgradeableEngine and its timelock, for every value of   *)
(* the constants.                                                          *)
EXTENDS UpgradeableEngine, TLAPS

----------------------------------------------------------------------------
(* Governance *)

(* What the argument about announcements needs of the types. *)
GovTypeOK ==
    /\ now \in Nat /\ minDelay \in Nat /\ initialized \in Nat
    /\ operations \in [Ids -> Operation \cup {Nobody}]
    /\ announced \subseteq Notice

(* Every operation was announced, with the delay that was due then. *)
Backed(id) ==
    Scheduled(id) =>
        \E n \in announced :
            /\ n.id = id /\ n.call = operations[id].call
            /\ operations[id].readyTimestamp >= n.at + n.minimum

GovInv ==
    /\ GovTypeOK
    /\ \A id \in Ids : Backed(id)
    /\ \A n \in announced : Scheduled(n.id)
    /\ \A m, n \in announced : m.id = n.id => m = n
    /\ initialized = 0 => admin = Nobody /\ timelock = Nobody

(* Steps that leave the controller's operations alone. *)
LEMMA SameOperations ==
    ASSUME GovInv, UNCHANGED <<operations, announced>>, now' \in Nat, minDelay' \in Nat,
           initialized' \in Nat, initialized' = 0 => admin' = Nobody /\ timelock' = Nobody
    PROVE  GovInv'
<1>1. GovTypeOK'
  BY DEF GovInv, GovTypeOK
<1>2. \A id \in Ids : Backed(id)'
  BY DEF GovInv, Backed, Scheduled
<1>3. \A n \in announced' : Scheduled(n.id)'
  BY DEF GovInv, Scheduled
<1> QED
  BY <1>1, <1>2, <1>3 DEF GovInv

(* An announcement keeps the operation to the delay in force. *)
LEMMA ScheduleKeepsGov ==
    ASSUME GovInv, NEW a \in Accounts, NEW id \in Ids, NEW call \in Calls, NEW delay \in Delays,
           schedule(a, id, call, delay), UNCHANGED <<now, admin, timelock, initialized>>
    PROVE  GovInv'
<1>1. now \in Nat /\ minDelay \in Nat /\ delay \in Nat /\ operations \in [Ids -> Operation \cup {Nobody}]
  BY TimelockAssumption DEF GovInv, GovTypeOK
<1>2. PICK op : op = [call |-> call, readyTimestamp |-> now + delay, executed |-> FALSE, cancelled |-> FALSE]
  OBVIOUS
<1>3. PICK n : n = [id |-> id, call |-> call, at |-> now, minimum |-> minDelay]
  OBVIOUS
<1>4. /\ operations' = [operations EXCEPT ![id] = op] /\ announced' = announced \cup {n}
      /\ delay >= minDelay /\ ~ Scheduled(id) /\ minDelay' = minDelay
  BY <1>2, <1>3 DEF schedule, LongEnough, Unused
<1>5. op \in Operation /\ op # Nobody /\ n \in Notice
  <2>1. now + delay \in Nat
    BY <1>1
  <2>2. op \in Operation
    BY <1>2, <2>1 DEF Operation
  <2>3. n \in Notice
    BY <1>1, <1>3 DEF Notice
  <2> QED
    BY <2>2, <2>3, SlotAssumption
<1>6. GovTypeOK'
  BY <1>1, <1>4, <1>5 DEF GovInv, GovTypeOK
<1>7. operations'[id] = op /\ \A q \in Ids : q # id => operations'[q] = operations[q]
  BY <1>1, <1>4
<1>8. ASSUME NEW q \in Ids PROVE Backed(q)'
  <2>1. CASE q = id
    <3>1. n.id = id /\ n.call = op.call /\ op.readyTimestamp >= n.at + n.minimum
      BY <1>1, <1>2, <1>3, <1>4
    <3> QED
      BY <1>4, <1>7, <2>1, <3>1 DEF Backed
  <2>2. CASE q # id
    BY <1>4, <1>7, <2>2 DEF GovInv, Backed, Scheduled
  <2> QED
    BY <2>1, <2>2
<1>9. \A m \in announced : m.id # id
  BY <1>4 DEF GovInv
<1>10. \A m \in announced' : Scheduled(m.id)'
  <2>1. ASSUME NEW m \in announced PROVE Scheduled(m.id)'
    BY <1>7, <1>9, <2>1 DEF GovInv, GovTypeOK, Notice, Scheduled
  <2>2. Scheduled(n.id)'
    BY <1>3, <1>5, <1>7 DEF Scheduled
  <2> QED
    BY <1>4, <2>1, <2>2
<1>11. \A m, k \in announced' : m.id = k.id => m = k
  BY <1>3, <1>4, <1>9 DEF GovInv
<1> QED
  BY <1>6, <1>8, <1>10, <1>11 DEF GovInv

(* Marking an operation changes neither its call nor its time. *)
LEMMA MarkKeepsGov ==
    ASSUME GovInv, NEW id \in Ids, Scheduled(id),
           \/ operations' = [operations EXCEPT ![id].executed = TRUE]
           \/ operations' = [operations EXCEPT ![id].cancelled = TRUE],
           announced' = announced, now' = now, minDelay' \in Nat,
           initialized' \in Nat, initialized' = 0 => admin' = Nobody /\ timelock' = Nobody
    PROVE  GovInv'
<1>1. operations \in [Ids -> Operation \cup {Nobody}] /\ operations[id] \in Operation /\ now \in Nat
  BY DEF GovInv, GovTypeOK, Scheduled
<1>2. /\ operations'[id] \in Operation /\ operations'[id].call = operations[id].call
      /\ operations'[id].readyTimestamp = operations[id].readyTimestamp
      /\ \A q \in Ids : q # id => operations'[q] = operations[q]
      /\ operations' \in [Ids -> Operation \cup {Nobody}]
  <2>1. CASE operations' = [operations EXCEPT ![id].executed = TRUE]
    BY <1>1, <2>1 DEF Operation
  <2>2. CASE operations' = [operations EXCEPT ![id].cancelled = TRUE]
    BY <1>1, <2>2 DEF Operation
  <2> QED
    BY <2>1, <2>2
<1>3. GovTypeOK'
  BY <1>1, <1>2 DEF GovInv, GovTypeOK
<1>4. \A q \in Ids : Scheduled(q)' <=> Scheduled(q)
  BY <1>1, <1>2, SlotAssumption DEF Scheduled
<1>5. ASSUME NEW q \in Ids PROVE Backed(q)'
  <2>1. Backed(q)
    BY DEF GovInv
  <2>2. CASE q = id
    BY <1>2, <1>4, <2>1, <2>2 DEF Backed
  <2>3. CASE q # id
    BY <1>2, <1>4, <2>1, <2>3 DEF Backed
  <2> QED
    BY <2>2, <2>3
<1>6. \A n \in announced' : Scheduled(n.id)'
  BY <1>4 DEF GovInv, GovTypeOK, Notice
<1> QED
  BY <1>3, <1>5, <1>6 DEF GovInv

(* Nobody but the admin makes the calls of an admin, so an engine that is  *)
(* not initialized stays without one.                                      *)
LEMMA ConfigureKeepsAdmin ==
    ASSUME GovInv, NEW sender \in Addresses, NEW call \in Calls, Configure(sender, call)
    PROVE  initialized' \in Nat /\ (initialized' = 0 => admin' = Nobody /\ timelock' = Nobody)
<1>1. sender # Nobody /\ initialized \in Nat /\ (initialized = 0 => admin = Nobody /\ timelock = Nobody)
  BY TimelockAssumption DEF Addresses, GovInv, GovTypeOK
<1>2. ASSUME upgradeTo(sender, call) \/ setProtocolFee(sender, call) \/ setFeeRecipient(sender, call)
                \/ setPaused(sender, call)
      PROVE  UNCHANGED <<initialized, admin, timelock>>
  BY <1>2 DEF upgradeTo, setProtocolFee, setFeeRecipient, setPaused
<1>3. ASSUME changeAdmin(sender, call) \/ setTimelock(sender, call)
      PROVE  initialized' = initialized /\ initialized # 0
  BY <1>1, <1>3 DEF changeAdmin, setTimelock, onlyAdmin
<1>4. ASSUME reinitialize(sender, call)
      PROVE  initialized' \in Nat /\ initialized' # 0
  <2>1. call.arg \in Nat
    BY <1>4, CallAssumption DEF reinitialize
  <2> QED
    BY <1>1, <1>4, <2>1 DEF reinitialize
<1> QED
  BY <1>1, <1>2, <1>3, <1>4 DEF Configure

(* The controller's books hold through every step. *)
LEMMA NextKeepsGov == GovInv /\ [Next]_vars => GovInv'
<1> SUFFICES ASSUME GovInv, [Next]_vars PROVE GovInv'
  OBVIOUS
<1>1. now \in Nat /\ minDelay \in Nat /\ initialized \in Nat /\ (initialized = 0 => admin = Nobody /\ timelock = Nobody)
  BY DEF GovInv, GovTypeOK
<1>2. CASE Tick
  <2>1. now' \in Nat /\ UNCHANGED <<operations, announced, minDelay, initialized, admin, timelock>>
    BY <1>1, <1>2 DEF Tick, timelockVars, configVars
  <2> QED
    BY <1>1, <2>1, SameOperations
<1>3. CASE OwnerNext /\ UNCHANGED <<now, configVars, marketVars, adminOps>>
  <2>1. UNCHANGED <<now, admin, timelock, initialized>>
    BY <1>3 DEF configVars
  <2>2. PICK a \in Accounts :
            \/ \E id \in Ids, call \in Calls, delay \in Delays : schedule(a, id, call, delay)
            \/ \E id \in Ids : cancel(a, id)
            \/ \E delay \in Delays : setMinDelay(a, delay)
            \/ \E b \in Addresses : transferOwnership(a, b)
    BY <1>3 DEF OwnerNext
  <2>3. CASE \E id \in Ids, call \in Calls, delay \in Delays : schedule(a, id, call, delay)
    BY <2>1, <2>3, ScheduleKeepsGov
  <2>4. ASSUME NEW id \in Ids, cancel(a, id) PROVE GovInv'
    <3>1. /\ Scheduled(id) /\ UNCHANGED <<announced, minDelay>>
          /\ operations' = [operations EXCEPT ![id].cancelled = TRUE]
      BY <2>4 DEF cancel, Pending
    <3> QED
      BY <1>1, <2>1, <3>1, MarkKeepsGov
  <2>5. ASSUME NEW delay \in Delays, setMinDelay(a, delay) PROVE GovInv'
    <3>1. UNCHANGED <<operations, announced>> /\ minDelay' \in Nat
      BY <2>5, TimelockAssumption DEF setMinDelay
    <3> QED
      BY <1>1, <2>1, <3>1, SameOperations
  <2>6. ASSUME NEW b \in Addresses, transferOwnership(a, b) PROVE GovInv'
    <3>1. UNCHANGED <<operations, announced, minDelay>>
      BY <2>6 DEF transferOwnership
    <3> QED
      BY <1>1, <2>1, <3>1, SameOperations
  <2> QED
    BY <2>2, <2>3, <2>4, <2>5, <2>6
<1>4. ASSUME NEW a \in Accounts, NEW id \in Ids, Execute(a, id) PROVE GovInv'
  <2>1. PICK call : call = operations[id].call
    OBVIOUS
  <2>2. /\ Scheduled(id) /\ UNCHANGED <<announced, now>>
        /\ operations' = [operations EXCEPT ![id].executed = TRUE]
    BY <1>4 DEF Execute, execute, Ready, Pending
  <2>3. call \in Calls
    BY <2>1, <2>2 DEF GovInv, GovTypeOK, Scheduled, Operation
  <2>4. CASE Configure(Timelock, call) /\ UNCHANGED <<owner, minDelay>>
    <3>1. initialized' \in Nat /\ (initialized' = 0 => admin' = Nobody /\ timelock' = Nobody)
      BY <2>3, <2>4, ConfigureKeepsAdmin DEF Addresses
    <3> QED
      BY <1>1, <2>2, <2>4, <3>1, MarkKeepsGov
  <2>5. CASE call.fn = "setMinDelay" /\ minDelay' = call.arg /\ UNCHANGED configVars
    <3>1. minDelay' \in Nat
      BY <2>3, <2>5, CallAssumption
    <3> QED
      BY <1>1, <2>2, <2>5, <3>1, MarkKeepsGov DEF configVars
  <2> QED
    BY <1>4, <2>1, <2>4, <2>5 DEF Execute
<1>5. ASSUME NEW a \in Accounts, NEW call \in Calls, DirectCall(a, call) PROVE GovInv'
  <2>1. Configure(a, call) /\ UNCHANGED <<now, operations, announced, minDelay>>
    BY <1>5 DEF DirectCall, timelockVars
  <2>2. initialized' \in Nat /\ (initialized' = 0 => admin' = Nobody /\ timelock' = Nobody)
    BY <2>1, ConfigureKeepsAdmin DEF Addresses
  <2> QED
    BY <1>1, <2>1, <2>2, SameOperations
<1>6. ASSUME NEW a \in Accounts, NEW b \in Accounts, initialize(b, a) PROVE GovInv'
  <2>1. initialized' = 1 /\ UNCHANGED <<now, operations, announced, minDelay>>
    BY <1>6 DEF initialize, timelockVars
  <2> QED
    BY <1>1, <2>1, SameOperations
<1>7. ASSUME Market \/ UNCHANGED vars PROVE GovInv'
  <2>1. UNCHANGED <<now, timelockVars, configVars>>
    BY <1>7 DEF Market, requestExecution, claimExecution, submitProof, cancelExecution, vars
  <2> QED
    BY <1>1, <2>1, SameOperations DEF timelockVars, configVars
<1> QED
  BY <1>2, <1>3, <1>4, <1>5, <1>6, <1>7 DEF Next, Govern

(* The controller's books hold in every reachable state.                   *)
THEOREM Books == Spec => []GovInv
<1>1. Init => GovInv
  <2> SUFFICES ASSUME Init PROVE GovInv
    OBVIOUS
  <2>1. GovTypeOK /\ \A id \in Ids : ~ Scheduled(id)
    BY TimelockAssumption DEF Init, TimelockInit, GovTypeOK, Scheduled
  <2> QED
    BY <2>1 DEF Init, TimelockInit, GovInv, Backed
<1> QED
  BY <1>1, NextKeepsGov, PTL DEF Spec

----------------------------------------------------------------------------
(* Changes *)

(* A configuring call that touches what is critical is one of three.       *)
LEMMA CriticalCalls ==
    ASSUME NEW sender, NEW call, Configure(sender, call), critical' # critical
    PROVE  /\ onlyTimelocked(sender)
           /\ \/ call.fn = "upgradeTo" /\ implementation' = call.arg
              \/ call.fn = "setProtocolFee" /\ protocolFeeBps' = call.arg
              \/ call.fn = "setFeeRecipient" /\ feeRecipient' = call.arg
  BY DEF Configure, upgradeTo, setProtocolFee, setFeeRecipient, changeAdmin, setTimelock, reinitialize,
         setPaused, critical

(* While the timelock is in charge, the implementation, the fee and its    *)
(* recipient change only by the execution of an operation that was         *)
(* announced a full delay earlier (TimelockController.execute and          *)
(* onlyTimelocked), whatever the delays, calls, accounts and bounds.       *)
THEOREM AnnouncedChanges == Spec => ChangesAreAnnounced
<1> DEFINE A == critical' # critical /\ onlyTimelocked(Timelock) =>
                  \E n \in announced :
                      /\ Announced(n) /\ now >= n.at + n.minimum
                      /\ Pending(n.id) /\ operations'[n.id].executed
                      /\ \A m \in announced : m.id = n.id => m = n
<1>1. GovInv /\ [Next]_vars => [A]_vars
  <2> SUFFICES ASSUME GovInv, Next, critical' # critical, onlyTimelocked(Timelock)
               PROVE  A
    BY DEF A
  <2>1. CASE Tick \/ Market
    BY <2>1 DEF Tick, Market, requestExecution, claimExecution, submitProof, cancelExecution, configVars
  <2>2. CASE OwnerNext /\ UNCHANGED <<now, configVars, marketVars, adminOps>>
    BY <2>2 DEF configVars
  <2>3. ASSUME NEW a \in Accounts, NEW b \in Accounts, initialize(b, a) PROVE FALSE
    <3>1. admin = Nobody /\ timelock = Nobody
      BY <2>3 DEF initialize, MayInitialize, GovInv
    <3> QED
      BY <3>1, TimelockAssumption DEF onlyTimelocked
  <2>4. ASSUME NEW a \in Accounts, NEW call \in Calls, DirectCall(a, call) PROVE FALSE
    <3>1. onlyTimelocked(a)
      BY <2>4, CriticalCalls DEF DirectCall
    <3> QED
      BY <3>1, TimelockAssumption DEF onlyTimelocked
  <2>5. ASSUME NEW a \in Accounts, NEW id \in Ids, Execute(a, id) PROVE A
    <3>1. PICK call : call = operations[id].call
      OBVIOUS
    <3>2. Configure(Timelock, call)
      BY <2>5, <3>1 DEF Execute, configVars
    <3>3. /\ Pending(id) /\ Scheduled(id) /\ now >= operations[id].readyTimestamp
          /\ operations' = [operations EXCEPT ![id].executed = TRUE]
      BY <2>5 DEF Execute, execute, Ready, Pending
    <3>4. operations \in [Ids -> Operation \cup {Nobody}] /\ operations[id] \in Operation
          /\ now \in Nat /\ announced \subseteq Notice
      BY <3>3 DEF GovInv, GovTypeOK, Scheduled
    <3>5. operations'[id].executed
      BY <3>3, <3>4 DEF Operation
    <3>6. PICK n \in announced :
              /\ n.id = id /\ n.call = operations[id].call
              /\ operations[id].readyTimestamp >= n.at + n.minimum
      BY <3>3 DEF GovInv, Backed
    <3>7. operations[id].readyTimestamp \in Nat /\ n.at \in Nat /\ n.minimum \in Nat
      BY <3>4, <3>6 DEF Operation, Notice
    <3>8. now >= n.at + n.minimum
      BY <3>3, <3>4, <3>6, <3>7
    <3>9. Announced(n)
      BY <3>1, <3>2, <3>6, CriticalCalls DEF Announced
    <3>10. \A m \in announced : m.id = n.id => m = n
      BY <3>6 DEF GovInv
    <3> QED
      BY <3>3, <3>5, <3>6, <3>8, <3>9, <3>10
  <2> QED
    BY <2>1, <2>2, <2>3, <2>4, <2>5 DEF Next, Govern
<1> HIDE DEF A
<1>2. Spec => [][A]_vars
  BY <1>1, Books, PTL DEF Spec
<1> QED
  BY <1>2 DEF ChangesAreAnnounced, A

----------------------------------------------------------------------------
(* The market *)

(* What the market keeps in its requests, next to its types. *)
Stored(r) ==
    /\ requests[r] # Nobody => r < nextRequestId
    /\ Status(r) \in {"None", "Pending", "Claimed"} => paidOut[r] = 0

MarketInv ==
    /\ TypeOK
    /\ \A r \in RequestIds : Stored(r)
    /\ initialized = 0 => nextRequestId = 0

(* Steps that leave the requests alone. *)
LEMMA SameMarket ==
    ASSUME MarketInv, UNCHANGED marketVars, TypeOK', initialized' # 0 \/ initialized' = initialized
    PROVE  MarketInv'
<1>1. \A r \in RequestIds : Stored(r)'
  BY DEF MarketInv, marketVars, Stored, Status
<1> QED
  BY <1>1 DEF MarketInv, marketVars

(* The configuration keeps its types under every call an admin or the      *)
(* controller can make.                                                    *)
LEMMA ConfigureKeepsTypes ==
    ASSUME TypeOK, NEW sender \in Addresses, NEW call \in Calls, Configure(sender, call)
    PROVE  /\ admin' \in Addresses \cup {Nobody} /\ timelock' \in Addresses \cup {Nobody}
           /\ initialized' \in Nat /\ (initialized' # 0 \/ initialized' = initialized)
           /\ protocolFeeBps' \in 0 .. MAX_FEE_BPS
           /\ feeRecipient' \in Addresses \cup {Nobody} /\ paused' \in BOOLEAN
<1>1. CASE upgradeTo(sender, call)
  BY <1>1 DEF upgradeTo, TypeOK
<1>2. CASE setProtocolFee(sender, call)
  <2>1. call.arg \in Nat
    BY <1>2, CallAssumption DEF setProtocolFee
  <2> QED
    BY <1>2, <2>1, EngineAssumption DEF setProtocolFee, WithinCap, TypeOK
<1>3. CASE setFeeRecipient(sender, call)
  BY <1>3, CallAssumption DEF setFeeRecipient, TypeOK
<1>4. CASE changeAdmin(sender, call)
  BY <1>4, CallAssumption DEF changeAdmin, TypeOK, critical
<1>5. CASE setTimelock(sender, call)
  BY <1>5, CallAssumption DEF setTimelock, TypeOK, critical
<1>6. CASE reinitialize(sender, call)
  <2>1. call.arg \in Nat
    BY <1>6, CallAssumption DEF reinitialize
  <2> QED
    BY <1>6, <2>1 DEF reinitialize, TypeOK, critical
<1>7. CASE setPaused(sender, call)
  BY <1>7 DEF setPaused, TypeOK, critical
<1> QED
  BY <1>1, <1>2, <1>3, <1>4, <1>5, <1>6, <1>7 DEF Configure

(* The fee is no more than the tip it is taken from. *)
LEMMA FeeIsBounded ==
    ASSUME NEW tip \in Nat, NEW bps \in Nat, bps <= 10000
    PROVE  (tip * bps) \div 10000 \in 0 .. tip
<1>1. tip * bps \in Nat /\ tip * bps <= tip * 10000
  OBVIOUS
<1>2. PICK p \in Nat : p = tip * bps
  BY <1>1
<1>3. p <= 10000 * tip
  BY <1>1, <1>2
<1>4. p \div 10000 \in 0 .. tip
  BY <1>3
<1> QED
  BY <1>2, <1>4

(* Governance keeps the market as it is. *)
LEMMA GovernKeepsMarket ==
    ASSUME GovInv, GovInv', MarketInv, Tick \/ Govern \/ UNCHANGED vars
    PROVE  MarketInv'
<1> USE DEF MarketInv
<1>1. {MaxOwnerOps, MaxAdminOps, MAX_FEE_BPS, DEFAULT_PROTOCOL_FEE_BPS, MaxRequests} \subseteq Nat
  BY TimelockAssumption, EngineAssumption
<1>2. GovTypeOK'
  BY DEF GovInv
<1>3. CASE Tick
  <2>1. TypeOK'
    BY <1>2, <1>3 DEF Tick, TypeOK, TimelockTypeOK, GovTypeOK, timelockVars, configVars, critical, marketVars
  <2> QED
    BY <1>3, <2>1, SameMarket DEF Tick, configVars
<1>4. CASE OwnerNext /\ UNCHANGED <<now, configVars, marketVars, adminOps>>
  <2>1. owner' \in Addresses /\ ownerOps' \in 0 .. MaxOwnerOps
    BY <1>1, <1>4 DEF OwnerNext, OwnerOp, schedule, cancel, setMinDelay, transferOwnership, TypeOK, TimelockTypeOK
  <2>2. minDelay' # 0
    BY <1>4 DEF OwnerNext, schedule, cancel, setMinDelay, transferOwnership, TypeOK, TimelockTypeOK
  <2>3. TypeOK'
    BY <1>2, <1>4, <2>1, <2>2 DEF TypeOK, TimelockTypeOK, GovTypeOK, configVars, critical, marketVars
  <2> QED
    BY <1>4, <2>3, SameMarket DEF configVars
<1>5. ASSUME NEW a \in Accounts, NEW id \in Ids, Execute(a, id) PROVE MarketInv'
  <2>1. PICK call : call = operations[id].call
    OBVIOUS
  <2>2. call \in Calls
    BY <1>5, <2>1 DEF Execute, execute, Ready, Pending, GovInv, GovTypeOK, Scheduled, Operation
  <2>3. UNCHANGED <<marketVars, adminOps, ownerOps>>
    BY <1>5 DEF Execute, execute
  <2>4. CASE Configure(Timelock, call) /\ UNCHANGED <<owner, minDelay>>
    <3>1. /\ admin' \in Addresses \cup {Nobody} /\ timelock' \in Addresses \cup {Nobody}
          /\ initialized' \in Nat /\ (initialized' # 0 \/ initialized' = initialized)
          /\ protocolFeeBps' \in 0 .. MAX_FEE_BPS
          /\ feeRecipient' \in Addresses \cup {Nobody} /\ paused' \in BOOLEAN
      BY <2>2, <2>4, ConfigureKeepsTypes DEF Addresses
    <3>2. TypeOK'
      BY <1>2, <2>3, <2>4, <3>1 DEF TypeOK, TimelockTypeOK, GovTypeOK, marketVars
    <3> QED
      BY <2>3, <3>1, <3>2, SameMarket
  <2>5. CASE minDelay' = call.arg /\ call.arg # 0 /\ UNCHANGED <<owner, configVars>>
    <3>1. TypeOK'
      BY <1>2, <2>3, <2>5 DEF TypeOK, TimelockTypeOK, GovTypeOK, configVars, critical, marketVars
    <3> QED
      BY <2>3, <2>5, <3>1, SameMarket DEF configVars
  <2> QED
    BY <1>5, <2>1, <2>4, <2>5 DEF Execute
<1>6. ASSUME NEW a \in Accounts, NEW call \in Calls, DirectCall(a, call) PROVE MarketInv'
  <2>1. Configure(a, call) /\ UNCHANGED <<timelockVars, marketVars>> /\ adminOps' \in 0 .. MaxAdminOps
    BY <1>1, <1>6 DEF DirectCall, TypeOK
  <2>2. /\ admin' \in Addresses \cup {Nobody} /\ timelock' \in Addresses \cup {Nobody}
        /\ initialized' \in Nat /\ (initialized' # 0 \/ initialized' = initialized)
        /\ protocolFeeBps' \in 0 .. MAX_FEE_BPS
        /\ feeRecipient' \in Addresses \cup {Nobody} /\ paused' \in BOOLEAN
    BY <2>1, ConfigureKeepsTypes DEF Addresses
  <2>3. TypeOK'
    BY <1>2, <2>1, <2>2 DEF TypeOK, TimelockTypeOK, GovTypeOK, timelockVars, marketVars
  <2> QED
    BY <2>1, <2>2, <2>3, SameMarket
<1>7. ASSUME NEW a \in Accounts, NEW b \in Accounts, initialize(b, a) PROVE MarketInv'
  <2>1. \A r \in RequestIds : requests[r] = Nobody
    BY <1>7 DEF initialize, MayInitialize, Stored, RequestIds, TypeOK
  <2>2. \A r \in RequestIds : Stored(r)'
    BY <1>7, <2>1 DEF initialize, Stored, Status
  <2>3. /\ adminOps' \in 0 .. MaxAdminOps /\ protocolFeeBps' \in 0 .. MAX_FEE_BPS
        /\ nextRequestId' \in 0 .. MaxRequests + 1
    BY <1>1, <1>7, EngineAssumption DEF initialize, TypeOK
  <2>4. TypeOK'
    BY <1>2, <1>7, <2>3 DEF initialize, TypeOK, TimelockTypeOK, GovTypeOK, timelockVars, Addresses
  <2> QED
    BY <1>7, <2>2, <2>4 DEF initialize
<1>8. CASE UNCHANGED vars
  <2>1. TypeOK'
    BY <1>8 DEF TypeOK, TimelockTypeOK, vars, timelockVars, configVars, critical, marketVars
  <2> QED
    BY <1>8, <2>1, SameMarket DEF vars, configVars
<1> QED
  BY <1>3, <1>4, <1>5, <1>6, <1>7, <1>8 DEF Govern

(* A request before and after a step on it, as a deal of the escrow. *)
SameDeal(r) == requests'[r] = requests[r] /\ paidOut'[r] = paidOut[r]

Funds(r) ==
    /\ requests[r] = Nobody /\ requests'[r] \in Request /\ requests'[r].status = "Pending"
    /\ paidOut'[r] = paidOut[r] /\ balance' = balance + requests'[r].tip
    /\ r < nextRequestId'

Pays(r) ==
    /\ requests[r] \in Request /\ requests[r].status \in {"Pending", "Claimed"}
    /\ requests'[r] \in Request /\ requests'[r].tip = requests[r].tip
    /\ requests'[r].status \in {"Completed", "Cancelled"}
    /\ paidOut'[r] = requests[r].tip /\ balance' = balance - requests[r].tip

Claims(r) ==
    /\ requests[r] \in Request /\ requests[r].status = "Pending"
    /\ requests'[r] \in Request /\ requests'[r].tip = requests[r].tip
    /\ requests'[r].status = "Claimed"
    /\ paidOut'[r] = paidOut[r] /\ balance' = balance

(* Each market step keeps the types and does one of three things to one    *)
(* request.                                                                *)
LEMMA MarketSteps ==
    ASSUME MarketInv, Market
    PROVE  /\ TypeOK' /\ initialized' = initialized
           /\ nextRequestId' >= nextRequestId /\ (nextRequestId = 0 => nextRequestId' = 0)
           /\ \E r \in RequestIds :
                 /\ Funds(r) \/ Pays(r) \/ Claims(r)
                 /\ \A q \in RequestIds : q # r => SameDeal(q)
<1> DEFINE Goal == /\ TypeOK' /\ initialized' = initialized
                   /\ nextRequestId' >= nextRequestId /\ (nextRequestId = 0 => nextRequestId' = 0)
                   /\ \E r \in RequestIds :
                         /\ Funds(r) \/ Pays(r) \/ Claims(r)
                         /\ \A q \in RequestIds : q # r => SameDeal(q)
<1>1. /\ requests \in [RequestIds -> Request \cup {Nobody}] /\ paidOut \in [RequestIds -> Nat]
      /\ balance \in Nat /\ nextRequestId \in 0 .. MaxRequests + 1 /\ now \in Nat
      /\ proverEarnings \in [Accounts -> Nat] /\ protocolFeeBps \in 0 .. MAX_FEE_BPS
  BY DEF MarketInv, TypeOK, TimelockTypeOK
<1>2. {MAX_FEE_BPS, DEFAULT_EXPIRATION, CLAIM_WINDOW, MaxRequests} \subseteq Nat /\ MAX_FEE_BPS <= 10000
  BY EngineAssumption
<1>3. ASSUME requests' \in [RequestIds -> Request \cup {Nobody}], paidOut' \in [RequestIds -> Nat],
             balance' \in Nat, nextRequestId' \in 0 .. MaxRequests + 1,
             proverEarnings' \in [Accounts -> Nat], UNCHANGED <<now, timelockVars, configVars, adminOps>>
      PROVE  TypeOK' /\ initialized' = initialized
  BY <1>3 DEF MarketInv, TypeOK, TimelockTypeOK, timelockVars, configVars, critical
<1>4. ASSUME NEW a \in Accounts, NEW value \in Tips, NEW seconds \in Expirations,
             requestExecution(a, value, seconds)
      PROVE  Goal
  <2>1. PICK r \in RequestIds : r = nextRequestId
    BY <1>4 DEF requestExecution
  <2>2. value \in Nat /\ now + Expiration(seconds) \in Nat
    BY <1>1, <1>2, EngineAssumption DEF Expiration
  <2>3. PICK n : n = [requester |-> a, expiresAt |-> now + Expiration(seconds), status |-> "Pending",
                      claimedBy |-> Nobody, claimDeadline |-> 0, tip |-> value]
    OBVIOUS
  <2>4. n \in Request /\ n.status = "Pending" /\ n.tip = value
    BY <2>2, <2>3 DEF Request
  <2>5. /\ requests' = [requests EXCEPT ![r] = n] /\ nextRequestId' = nextRequestId + 1
        /\ balance' = balance + value
        /\ UNCHANGED <<now, timelockVars, configVars, proverEarnings, paidOut, adminOps>>
    BY <1>4, <2>1, <2>3 DEF requestExecution
  <2>6. requests[r] = Nobody
    BY <1>1, <2>1 DEF MarketInv, Stored
  <2>7. nextRequestId' \in 0 .. MaxRequests + 1 /\ nextRequestId' > nextRequestId /\ nextRequestId # 0 /\ balance' \in Nat
    BY <1>1, <1>2, <2>1, <2>2, <2>5 DEF RequestIds
  <2>8. TypeOK' /\ initialized' = initialized
    BY <1>1, <1>3, <2>4, <2>5, <2>7
  <2>9. Funds(r) /\ \A q \in RequestIds : q # r => SameDeal(q)
    BY <1>1, <2>1, <2>4, <2>5, <2>6, <2>7 DEF Funds, SameDeal
  <2> QED
    BY <1>1, <2>7, <2>8, <2>9
<1>5. ASSUME NEW a \in Accounts, NEW r \in RequestIds, claimExecution(a, r) PROVE Goal
  <2>1. requests[r] \in Request /\ requests[r].status = "Pending"
    BY <1>1, <1>5 DEF claimExecution, Status
  <2>2. now + CLAIM_WINDOW \in Nat
    BY <1>1, <1>2
  <2>3. /\ requests' = [requests EXCEPT ![r].status = "Claimed", ![r].claimedBy = a,
                                        ![r].claimDeadline = now + CLAIM_WINDOW]
        /\ UNCHANGED <<now, timelockVars, configVars, nextRequestId, proverEarnings, balance, paidOut, adminOps>>
    BY <1>5 DEF claimExecution
  <2>4. /\ requests'[r] \in Request /\ requests'[r].status = "Claimed" /\ requests'[r].tip = requests[r].tip
    BY <1>1, <2>1, <2>2, <2>3 DEF Request
  <2>5. \A q \in RequestIds : q # r => requests'[q] = requests[q]
    BY <1>1, <2>3
  <2>6. requests' \in [RequestIds -> Request \cup {Nobody}]
    BY <1>1, <2>3, <2>4, <2>5
  <2>7. TypeOK' /\ initialized' = initialized
    BY <1>1, <1>3, <2>3, <2>6
  <2>8. Claims(r) /\ \A q \in RequestIds : q # r => SameDeal(q)
    BY <2>1, <2>3, <2>4, <2>5 DEF Claims, SameDeal
  <2> QED
    BY <1>1, <2>3, <2>7, <2>8
<1>6. ASSUME NEW r \in RequestIds, NEW s \in {"Completed", "Cancelled"},
             requests[r] \in Request, requests[r].status \in {"Pending", "Claimed"},
             requests' = [requests EXCEPT ![r].status = s],
             requests[r].tip <= balance, balance' = balance - requests[r].tip,
             paidOut' = [paidOut EXCEPT ![r] = @ + requests[r].tip],
             proverEarnings' \in [Accounts -> Nat],
             UNCHANGED <<now, timelockVars, configVars, nextRequestId, adminOps>>
      PROVE  Goal
  <2>1. requests[r].tip \in Nat /\ paidOut[r] = 0
    BY <1>6 DEF MarketInv, Stored, Status, Request
  <2>2. /\ requests'[r] \in Request /\ requests'[r].status = s /\ requests'[r].tip = requests[r].tip
    BY <1>1, <1>6 DEF Request
  <2>3. \A q \in RequestIds : q # r => requests'[q] = requests[q]
    BY <1>1, <1>6
  <2>4. requests' \in [RequestIds -> Request \cup {Nobody}]
    BY <1>1, <1>6, <2>2, <2>3
  <2>5. balance' \in Nat /\ paidOut' \in [RequestIds -> Nat] /\ paidOut'[r] = requests[r].tip
    BY <1>1, <1>6, <2>1
  <2>6. TypeOK' /\ initialized' = initialized
    BY <1>1, <1>3, <1>6, <2>4, <2>5
  <2>7. Pays(r) /\ \A q \in RequestIds : q # r => SameDeal(q)
    BY <1>1, <1>6, <2>2, <2>3, <2>5 DEF Pays, SameDeal
  <2> QED
    BY <1>1, <1>6, <2>6, <2>7
<1> HIDE DEF Goal
<1>7. ASSUME NEW a \in Accounts, NEW r \in RequestIds, submitProof(a, r) PROVE Goal
  <2>1. requests[r] \in Request /\ requests[r].status = "Claimed"
    BY <1>1, <1>7 DEF submitProof, Status
  <2>2. requests[r].tip \in Nat /\ protocolFeeBps \in Nat /\ protocolFeeBps <= 10000
    BY <1>1, <1>2, <2>1 DEF Request
  <2>3. Fee(r) \in 0 .. requests[r].tip
    BY <2>2, FeeIsBounded DEF Fee
  <2>4. proverEarnings[a] + requests[r].tip - Fee(r) \in Nat
    BY <1>1, <2>2, <2>3
  <2>5. proverEarnings' \in [Accounts -> Nat]
    BY <1>1, <1>7, <2>4 DEF submitProof
  <2> QED
    BY <1>6, <1>7, <2>1, <2>5 DEF submitProof
<1>8. ASSUME NEW a \in Accounts, NEW r \in RequestIds, cancelExecution(a, r) PROVE Goal
  <2>1. requests[r] \in Request /\ requests[r].status = "Pending"
    BY <1>1, <1>8 DEF cancelExecution, MayCancel, Status
  <2> QED
    BY <1>1, <1>6, <1>8, <2>1 DEF cancelExecution
<1>9. Goal
  BY <1>4, <1>5, <1>7, <1>8 DEF Market
<1> QED
  BY <1>9 DEF Goal

(* The market's requests stay in order through every step. *)
LEMMA NextKeepsMarket == GovInv /\ GovInv' /\ MarketInv /\ [Next]_vars => MarketInv'
<1> SUFFICES ASSUME GovInv, GovInv', MarketInv, [Next]_vars PROVE MarketInv'
  OBVIOUS
<1>1. CASE Market
  <2>1. PICK r \in RequestIds :
            /\ Funds(r) \/ Pays(r) \/ Claims(r)
            /\ \A q \in RequestIds : q # r => SameDeal(q)
    BY <1>1, MarketSteps
  <2>2. /\ TypeOK' /\ initialized' = initialized /\ nextRequestId' >= nextRequestId
        /\ nextRequestId = 0 => nextRequestId' = 0
    BY <1>1, MarketSteps
  <2>3. nextRequestId \in Int /\ nextRequestId' \in Int
    BY <2>2, EngineAssumption DEF MarketInv, TypeOK
  <2>4. ASSUME NEW q \in RequestIds, SameDeal(q) PROVE Stored(q)'
    <3>1. q \in Int
      BY DEF RequestIds
    <3> QED
      BY <2>2, <2>3, <2>4, <3>1 DEF MarketInv, Stored, SameDeal, Status
  <2>5. Stored(r)'
    <3>1. r \in Int
      BY DEF RequestIds
    <3>2. CASE Funds(r)
      BY <3>2 DEF Funds, Stored, Status, MarketInv
    <3>3. CASE Pays(r)
      BY <2>2, <2>3, <3>1, <3>3, RequestAssumption DEF Pays, Stored, Status, MarketInv
    <3>4. CASE Claims(r)
      BY <2>2, <2>3, <3>1, <3>4, RequestAssumption DEF Claims, Stored, Status, MarketInv
    <3> QED
      BY <2>1, <3>2, <3>3, <3>4
  <2> QED
    BY <2>1, <2>2, <2>4, <2>5 DEF MarketInv
<1> QED
  BY <1>1, GovernKeepsMarket DEF Next

(* The market's inductive invariant holds in every reachable state.        *)
THEOREM MarketInvariant == Spec => []MarketInv
<1>1. Init => MarketInv
  <2> SUFFICES ASSUME Init PROVE MarketInv
    OBVIOUS
  <2>1. TypeOK
    <3>1. {MaxOwnerOps, MaxRequests, MAX_FEE_BPS, MaxAdminOps} \subseteq Nat
      BY TimelockAssumption, EngineAssumption
    <3>2. TimelockTypeOK
      BY <3>1, TimelockAssumption DEF Init, TimelockInit, TimelockTypeOK, Addresses
    <3>3. requests \in [RequestIds -> Request \cup {Nobody}] /\ proverEarnings \in [Accounts -> Nat]
          /\ paidOut \in [RequestIds -> Nat]
      BY DEF Init
    <3>4. protocolFeeBps \in 0 .. MAX_FEE_BPS /\ nextRequestId \in 0 .. MaxRequests + 1
          /\ adminOps \in 0 .. MaxAdminOps /\ balance \in Nat /\ initialized \in Nat
      BY <3>1 DEF Init
    <3> QED
      BY <3>2, <3>3, <3>4 DEF Init, TypeOK
  <2> QED
    BY <2>1 DEF Init, MarketInv, Stored, Status
<1> QED
  BY <1>1, NextKeepsMarket, Books, PTL DEF Spec

(* Every variable of the controller and the engine keeps its type: the     *)
(* delay stays positive, the fee below its cap, and no amount negative     *)
(* (the subtractions of submitProof and cancelExecution cannot wrap).      *)
THEOREM TypeCorrect == Spec => []TypeOK
  BY MarketInvariant, PTL DEF MarketInv

(* A market step is a step of the escrow. *)
LEMMA MarketRefines == MarketInv /\ MarketInv' /\ Market => [E!Next]_(E!vars)
<1> SUFFICES ASSUME MarketInv, MarketInv', Market PROVE [E!Next]_(E!vars)
  OBVIOUS
<1>1. PICK r \in RequestIds :
          /\ Funds(r) \/ Pays(r) \/ Claims(r)
          /\ \A q \in RequestIds : q # r => SameDeal(q)
  BY MarketSteps
<1>2. /\ paidOut \in [RequestIds -> Nat] /\ paidOut' \in [RequestIds -> Nat] /\ balance \in Nat
      /\ paidOut = [q \in RequestIds |-> paidOut[q]]
  BY DEF MarketInv, TypeOK
<1>3. \A q \in RequestIds : q # r => DealStatus(q)' = DealStatus(q)
  BY <1>1 DEF SameDeal, DealStatus, Status
<1>4. CASE Funds(r)
  <2>1. DealStatus(r) = "none" /\ DealStatus(r)' = "open"
    BY <1>4, RequestAssumption DEF Funds, DealStatus, Status
  <2>2. paidOut' = paidOut
    BY <1>1, <1>2, <1>4 DEF Funds, SameDeal
  <2>3. requests'[r] # Nobody /\ requests'[r].tip \in Nat /\ requests[r] = Nobody /\ balance' = balance + requests'[r].tip
    BY <1>4, RequestAssumption DEF Funds, Request
  <2>4. E!Fund(r)
    <3> DEFINE st == [q \in RequestIds |-> DealStatus(q)]
               pot == [q \in RequestIds |-> IF requests[q] = Nobody THEN 0 ELSE requests[q].tip]
    <3>1. st[r] # "closed" /\ st' = [st EXCEPT ![r] = "open"]
      BY <1>3, <2>1
    <3>2. pot[r] = 0 /\ pot'[r] = requests'[r].tip
      BY <2>3
    <3>3. pot' = [pot EXCEPT ![r] = pot'[r]]
      BY <1>1, <3>2 DEF SameDeal
    <3>4. pot'[r] >= pot[r] /\ balance' = balance + pot'[r] - pot[r]
      BY <1>2, <2>3, <3>2
    <3> QED
      BY <2>2, <3>1, <3>3, <3>4 DEF E!Fund
  <2> QED
    BY <2>4 DEF E!Next
<1>5. CASE Pays(r)
  <2>1. DealStatus(r) = "open" /\ DealStatus(r)' = "closed"
    BY <1>5, RequestAssumption DEF Pays, DealStatus, Status
  <2>2. /\ requests[r] # Nobody /\ requests'[r] # Nobody /\ requests[r].tip \in Nat
        /\ requests'[r].tip = requests[r].tip /\ paidOut'[r] = requests[r].tip
        /\ balance' = balance - paidOut'[r]
    BY <1>5, RequestAssumption DEF Pays, Request
  <2>3. paidOut'[r] \in requests[r].tip \div 1 .. requests[r].tip
    BY <2>2
  <2>4. E!Release(r)
    BY <1>1, <1>2, <1>3, <2>1, <2>2, <2>3 DEF E!Release, SameDeal
  <2> QED
    BY <2>4 DEF E!Next
<1>6. CASE Claims(r)
  <2>1. DealStatus(r) = DealStatus(r)'
    BY <1>6, RequestAssumption DEF Claims, DealStatus, Status
  <2>2. paidOut' = paidOut /\ balance' = balance
    BY <1>1, <1>2, <1>6 DEF Claims, SameDeal
  <2>3. requests[r] # Nobody /\ requests'[r] # Nobody /\ requests'[r].tip = requests[r].tip
    BY <1>6, RequestAssumption DEF Claims
  <2>4. UNCHANGED E!vars
    BY <1>1, <1>3, <2>1, <2>2, <2>3 DEF E!vars, SameDeal
  <2> QED
    BY <2>4
<1> QED
  BY <1>1, <1>4, <1>5, <1>6

(* Through upgrades, new admins, fees and pauses, ETH leaves the proxy     *)
(* only in the one payment that closes a request, and it is all of its tip *)
(* (submitProof, cancelExecution).                                         *)
THEOREM Refinement == Spec => ImplementsEscrow
<1>1. Init => E!Init
  BY DEF Init, E!Init, DealStatus, Status
<1>2. MarketInv /\ MarketInv' /\ [Next]_vars => [E!Next]_(E!vars)
  <2> SUFFICES ASSUME MarketInv, MarketInv', [Next]_vars PROVE [E!Next]_(E!vars)
    OBVIOUS
  <2>1. CASE Market
    BY <2>1, MarketRefines
  <2>2. CASE Tick \/ Govern \/ UNCHANGED vars
    <3>1. UNCHANGED <<requests, paidOut, balance>>
      BY <2>2 DEF Tick, Govern, Execute, DirectCall, initialize, marketVars, vars
    <3> QED
      BY <3>1 DEF E!vars, DealStatus, Status
  <2> QED
    BY <2>1, <2>2 DEF Next
<1> QED
  BY <1>1, <1>2, MarketInvariant, PTL DEF Spec, ImplementsEscrow, E!Spec
=============================================================================
