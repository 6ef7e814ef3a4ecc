-------------------------- MODULE RatedMarketProofs -------------------------
(* Theorems about the execution engine, and about the engine with its      *)
(* reputation contract, for every value of the constants.                  *)
EXTENDS RatedMarket, TotalsProofs

----------------------------------------------------------------------------
(* Part 1.  The engine alone: theorems of Spec of ExecutionEngine. *)

(* The limits of the contract and of the model. *)
LEMMA Limits ==
    /\ MaxRequests \in Nat /\ MAX_FEE_BPS \in Nat /\ CLAIM_WINDOW \in Nat
    /\ DEFAULT_EXPIRATION \in Nat /\ MaxTime \in Nat
  BY NatAssumption

----------------------------------------------------------------------------
(* Arithmetic *)

(* A quotient by a positive number. *)
LEMMA Quotient ==
    ASSUME NEW a \in Nat, NEW d \in Nat \ {0}
    PROVE  a \div d \in Nat /\ d * (a \div d) <= a /\ a < d * (a \div d) + d
  OBVIOUS

(* A product does not fall when a factor grows. *)
LEMMA ProductMonotone ==
    ASSUME NEW m \in Nat, NEW a \in Nat, NEW b \in Nat, a <= b
    PROVE  m * a \in Nat /\ m * b \in Nat /\ m * a <= m * b
  OBVIOUS

(* Dividing by a positive number keeps the order. *)
LEMMA QuotientMonotone ==
    ASSUME NEW a \in Nat, NEW b \in Nat, a <= b, NEW d \in Nat \ {0}
    PROVE  a \div d <= b \div d
<1>1. a \div d \in Nat /\ d * (a \div d) <= a
  BY Quotient
<1>2. b \div d \in Nat /\ b < d * (b \div d) + d
  BY Quotient
<1> DEFINE x == a \div d
           y == b \div d
<1>3. d * x < d * y + d
  BY <1>1, <1>2
<1> HIDE DEF x, y
<1>4. x \in Nat /\ y \in Nat
  BY <1>1, <1>2 DEF x, y
<1>5. ASSUME x >= y + 1 PROVE FALSE
  <2>1. d * (y + 1) <= d * x
    BY <1>4, <1>5, ProductMonotone
  <2>2. d * (y + 1) = d * y + d
    BY <1>4
  <2> QED
    BY <1>3, <1>4, <2>1, <2>2
<1>6. x <= y
  BY <1>4, <1>5
<1> QED
  BY <1>6 DEF x, y

(* What the tip has decayed by is at most half of it. *)
LEMMA DecayIsBounded ==
    ASSUME NEW m \in Nat, NEW p \in Nat \ {0}, NEW e \in Nat, e < p
    PROVE  /\ (m * e) \div (p * 2) \in Nat
           /\ 2 * ((m * e) \div (p * 2)) <= m
<1> DEFINE x == (m * e) \div (p * 2)
<1>1. m * e \in Nat /\ m * p \in Nat /\ m * e <= m * p
  BY ProductMonotone
<1>2. p * 2 \in Nat \ {0}
  OBVIOUS
<1>3. x \in Nat /\ (p * 2) * x <= m * e
  BY <1>1, <1>2, Quotient
<1> HIDE DEF x
<1>4. ASSUME 2 * x >= m + 1 PROVE FALSE
  <2>1. p * (m + 1) <= p * (2 * x)
    BY <1>3, <1>4, ProductMonotone
  <2>2. p * (m + 1) = m * p + p /\ p * (2 * x) = (p * 2) * x
    BY <1>3
  <2> QED
    BY <1>1, <1>3, <2>1, <2>2
<1>5. 2 * x <= m
  BY <1>3, <1>4
<1> QED
  BY <1>3, <1>5 DEF x

(* The protocol fee is no more than what it is taken from. *)
LEMMA FeeIsBounded ==
    ASSUME TypeOK, NEW payout \in Nat
    PROVE  Fee(payout) \in 0 .. payout
<1>1. protocolFeeBps \in Nat /\ protocolFeeBps <= 10000
  BY NatAssumption DEF TypeOK
<1>2. payout * protocolFeeBps \in Nat /\ payout * protocolFeeBps <= payout * 10000
  BY <1>1, ProductMonotone
<1>3. (payout * protocolFeeBps) \div 10000 <= (payout * 10000) \div 10000
  BY <1>2, QuotientMonotone
<1>4. (payout * 10000) \div 10000 = payout
  OBVIOUS
<1>5. (payout * protocolFeeBps) \div 10000 \in Nat
  BY <1>2, Quotient
<1> QED
  BY <1>3, <1>4, <1>5 DEF Fee

(* The payout of a request lies between half its tip and its tip. *)
LEMMA PayoutRange ==
    ASSUME TypeOK, NEW id \in RequestIds, requests[id].createdAt <= now
    PROVE  /\ calculatePayout(requests[id]) \in Nat
           /\ calculatePayout(requests[id]) \in requests[id].maxTip \div 2 .. requests[id].maxTip
<1> DEFINE m == requests[id].maxTip
           e == now - requests[id].createdAt
           x == (m * e) \div (TIP_DECAY_PERIOD * 2)
<1>1. m \in Nat /\ e \in Nat
  BY DEF TypeOK, Request
<1>2. TIP_DECAY_PERIOD \in Nat \ {0}
  BY NatAssumption
<1>3. m \div 2 \in Nat /\ m \div 2 <= m /\ \A h \in Nat : 2 * h <= m => m - h >= m \div 2
  BY <1>1
<1>4. CASE e >= TIP_DECAY_PERIOD
  BY <1>1, <1>3, <1>4 DEF calculatePayout
<1>5. CASE ~(e >= TIP_DECAY_PERIOD)
  <2>1. calculatePayout(requests[id]) = m - x
    BY <1>5 DEF calculatePayout
  <2> HIDE DEF m, e
  <2>2. x \in Nat /\ 2 * x <= m
    BY <1>1, <1>2, <1>5, DecayIsBounded
  <2> HIDE DEF x
  <2>3. m - x \in Nat /\ m - x \in m \div 2 .. m
    BY <1>1, <1>3, <2>2
  <2> QED
    BY <2>1, <2>3 DEF m
<1> QED
  BY <1>4, <1>5

----------------------------------------------------------------------------
(* The invariant *)

Fate(id) ==
    LET r == requests[id] IN
    /\ r.status \in {"Pending", "Claimed"} => paidOut[id] = 0
    /\ r.status = "Cancelled" => paidOut[id] = r.tip
    /\ r.status = "Completed" => paidOut[id] \in r.tip \div 2 .. r.tip

Reported(id) == reports[id] + (IF requests[id].status = "Claimed" THEN 1 ELSE 0) <= claims[id]

Stored(id) ==
    LET r == requests[id] IN
    /\ Exists(id) => id < nextRequestId
    /\ ~Exists(id) => r = NoRequest
    /\ r.createdAt <= now
    /\ r.maxTip = r.tip
    /\ r.status = "Claimed" => r.claimDeadline <= r.expiresAt + CLAIM_WINDOW

(* For each request: how its record, its payments and the reports about    *)
(* its claims hang together.                                               *)
RequestInv(id) == Stored(id) /\ Fate(id) /\ Reported(id)

Inv == TypeOK /\ \A id \in RequestIds : RequestInv(id)

(* Nothing about a request changes in a step. *)
Untouched(id) ==
    /\ requests'[id] = requests[id]
    /\ paidOut'[id] = paidOut[id]
    /\ claims'[id] = claims[id]
    /\ reports'[id] = reports[id]

(* A request a step does not touch keeps its invariant. *)
LEMMA UntouchedInv ==
    ASSUME Inv, NEW id \in RequestIds, Untouched(id), now' \in Nat, now' >= now,
           nextRequestId' \in Nat, nextRequestId' >= nextRequestId
    PROVE  RequestInv(id)'
<1>1. /\ requests[id].id \in Nat /\ requests[id].createdAt \in Nat
      /\ now \in Nat /\ nextRequestId \in Nat /\ id \in Nat
  <2>1. requests[id] \in Request /\ now \in Nat /\ nextRequestId \in 1 .. MaxRequests + 1 /\ id \in 1 .. MaxRequests
    BY DEF Inv, TypeOK, RequestIds
  <2> QED
    BY <2>1, Limits DEF Request
<1>2. Stored(id)'
  BY <1>1 DEF Inv, RequestInv, Stored, Exists, Untouched
<1>3. Fate(id)' /\ Reported(id)'
  BY DEF Inv, RequestInv, Fate, Reported, Untouched
<1> QED
  BY <1>2, <1>3 DEF RequestInv

(* The constructor's state. *)
LEMMA InitInv == Init => Inv
<1> SUFFICES ASSUME Init PROVE Inv
  OBVIOUS
<1>1. NoRequest \in Request
  BY DEF NoRequest, Request
<1>2. TypeOK
  <2>1. requests \in [RequestIds -> Request]
    BY <1>1 DEF Init
  <2>2. nextRequestId \in 1 .. MaxRequests + 1
    BY Limits DEF Init
  <2>3. feeRecipient \in Accounts /\ reputation \in BOOLEAN /\ protocolFeeBps \in 0 .. MAX_FEE_BPS
    BY InitAssumption DEF Init
  <2> QED
    BY <2>1, <2>2, <2>3 DEF Init, TypeOK
<1>3. ASSUME NEW id \in RequestIds PROVE RequestInv(id)
  <2>1. requests[id] = NoRequest /\ paidOut[id] = 0 /\ claims[id] = 0 /\ reports[id] = 0 /\ now = 1
    BY DEF Init
  <2>2. Stored(id)
    BY <2>1 DEF Stored, NoRequest, Exists
  <2>3. Fate(id) /\ Reported(id)
    BY <2>1 DEF Fate, Reported, NoRequest
  <2> QED
    BY <2>2, <2>3 DEF RequestInv
<1> QED
  BY <1>2, <1>3 DEF Inv

(* Blocks and administration touch no request. *)
LEMMA OtherStepsInv ==
    ASSUME Inv, Tick \/ AdminNext \/ UNCHANGED vars
    PROVE  Inv' /\ UNCHANGED <<requests, balance, historyVars>>
<1> USE DEF Configure, pause, unpause, setProtocolFee, setFeeRecipient, setReputation, setProgramActive
<1>1. UNCHANGED <<requests, nextRequestId, statVars, balance, historyVars>>
  BY DEF Tick, AdminNext, vars
<1>2. TypeOK
  BY DEF Inv
<1>3. now' \in Nat /\ now' >= now
  BY <1>2 DEF Tick, AdminNext, vars, TypeOK
<1>4. TypeOK'
  <2>1. paused' \in BOOLEAN
    BY <1>2 DEF Tick, AdminNext, vars, configVars, TypeOK
  <2>2. configOps' \in Nat
    BY <1>2 DEF Tick, AdminNext, vars, configVars, TypeOK
  <2>3. protocolFeeBps' \in 0 .. MAX_FEE_BPS
    <3>1. CASE protocolFeeBps' = protocolFeeBps
      BY <1>2, <3>1 DEF TypeOK
    <3>2. ASSUME NEW bps \in Fees, setProtocolFee(bps) PROVE protocolFeeBps' \in 0 .. MAX_FEE_BPS
      <4>1. bps \in Nat
        BY NatAssumption
      <4> QED
        BY <3>2, <4>1, Limits
    <3> QED
      BY <3>1, <3>2 DEF Tick, AdminNext, vars, configVars
  <2>4. feeRecipient' \in Accounts /\ reputation' \in BOOLEAN /\ programActive' \in BOOLEAN
    BY <1>2, InitAssumption DEF Tick, AdminNext, vars, configVars, TypeOK
  <2> QED
    BY <1>1, <1>2, <1>3, <2>1, <2>2, <2>3, <2>4 DEF TypeOK, statVars, historyVars
<1>5. ASSUME NEW id \in RequestIds PROVE RequestInv(id)'
  BY <1>1, <1>2, <1>3, UntouchedInv, NatAssumption DEF Untouched, historyVars, TypeOK
<1> QED
  BY <1>1, <1>4, <1>5 DEF Inv

(* A request is stored in an unused slot. *)
LEMMA RequestKeepsInv ==
    ASSUME Inv, NEW a \in Accounts, NEW value \in Tips, NEW seconds \in Expirations,
           requestExecution(a, value, seconds)
    PROVE  Inv'
<1>1. TypeOK
  BY DEF Inv
<1> DEFINE new == [id |-> nextRequestId, requester |-> a, createdAt |-> now,
                   expiresAt |-> now + Expiration(seconds), status |-> "Pending",
                   claimedBy |-> NoAccount, claimedAt |-> 0, claimDeadline |-> 0,
                   tip |-> value, maxTip |-> value]
<1>2. Expiration(seconds) \in Nat /\ value \in Nat /\ now \in Nat
  BY <1>1, NatAssumption DEF Expiration, TypeOK
<1>3. new \in Request
  BY <1>1, <1>2 DEF Request, TypeOK
<1>4. PICK d \in RequestIds : d = nextRequestId /\ d \in Nat /\ d # 0
  BY NatAssumption DEF requestExecution, RequestIds
<1>5. /\ requests' = [requests EXCEPT ![d] = new]
      /\ nextRequestId' = nextRequestId + 1
      /\ balance' = balance + value
      /\ now' = now
      /\ UNCHANGED <<configVars, statVars, historyVars>>
  BY <1>4 DEF requestExecution
<1> HIDE DEF new
<1>6. nextRequestId' \in 1 .. MaxRequests + 1 /\ nextRequestId' >= nextRequestId /\ nextRequestId' \in Nat
  BY <1>4, <1>5, NatAssumption DEF RequestIds
<1>7. TypeOK'
  BY <1>1, <1>2, <1>3, <1>5, <1>6 DEF TypeOK, configVars, statVars, historyVars
<1>8. ASSUME NEW q \in RequestIds PROVE RequestInv(q)'
  <2>1. CASE q # d
    <3>1. Untouched(q)
      BY <1>1, <1>5, <2>1 DEF Untouched, historyVars, TypeOK
    <3> QED
      BY <1>2, <1>5, <1>6, <3>1, UntouchedInv
  <2>2. CASE q = d
    <3>1. requests'[q] = new
      BY <1>1, <1>5, <2>2 DEF TypeOK
    <3>2. ~Exists(q) /\ RequestInv(q)
      BY <1>4, <2>2 DEF Inv, RequestInv, Stored
    <3>3. requests[q].status = "Pending"
      BY <3>2 DEF RequestInv, Stored, NoRequest
    <3>4. paidOut'[q] = 0 /\ reports'[q] <= claims'[q]
      BY <1>1, <1>5, <3>2, <3>3 DEF RequestInv, Fate, Reported, historyVars, TypeOK
    <3>5. reports'[q] \in Nat /\ claims'[q] \in Nat
      BY <1>7 DEF TypeOK
    <3>6. Stored(q)'
      BY <1>2, <1>4, <1>5, <2>2, <3>1 DEF Stored, Exists, new
    <3>7. Fate(q)' /\ Reported(q)'
      BY <3>1, <3>4, <3>5 DEF Fate, Reported, new
    <3> QED
      BY <3>6, <3>7 DEF RequestInv
  <2> QED
    BY <2>1, <2>2
<1> QED
  BY <1>7, <1>8 DEF Inv

(* A step on one stored request need only be looked at there. *)
LEMMA OneRequestInv ==
    ASSUME Inv, TypeOK', NEW d \in RequestIds, now' = now, nextRequestId' = nextRequestId,
           \A q \in RequestIds : q # d => Untouched(q), RequestInv(d)'
    PROVE  Inv'
<1>1. now \in Nat /\ nextRequestId \in Nat
  BY Limits DEF Inv, TypeOK
<1>2. ASSUME NEW q \in RequestIds, q # d PROVE RequestInv(q)'
  BY <1>1, <1>2, UntouchedInv
<1> QED
  BY <1>2 DEF Inv

(* Fields of a stored request. *)
LEMMA Fields ==
    ASSUME TypeOK, NEW id \in RequestIds
    PROVE  /\ requests[id] \in Request /\ id \in Nat
           /\ requests[id].tip \in Nat /\ requests[id].maxTip \in Nat
           /\ requests[id].createdAt \in Nat /\ requests[id].expiresAt \in Nat
           /\ paidOut[id] \in Nat /\ claims[id] \in Nat /\ reports[id] \in Nat
<1>1. requests[id] \in Request /\ paidOut[id] \in Nat /\ claims[id] \in Nat /\ reports[id] \in Nat
  BY DEF TypeOK
<1> QED
  BY <1>1, Limits DEF Request, RequestIds

(* Cancelling refunds the tip. *)
LEMMA CancelKeepsInv ==
    ASSUME Inv, NEW a \in Accounts, NEW d \in RequestIds, cancelExecution(a, d)
    PROVE  Inv'
<1>1. TypeOK /\ RequestInv(d)
  BY DEF Inv
<1>2. requests[d] \in Request /\ requests[d].tip \in Nat /\ paidOut[d] \in Nat
  BY <1>1, Fields
<1>3. /\ requests' = [requests EXCEPT ![d].status = "Cancelled"]
      /\ requests[d].tip <= balance /\ balance' = balance - requests[d].tip
      /\ paidOut' = [paidOut EXCEPT ![d] = @ + requests[d].tip]
      /\ requests[d].status = "Pending" /\ Exists(d)
      /\ UNCHANGED <<now, configVars, nextRequestId, statVars, claims, reports>>
  BY DEF cancelExecution, MayCancel
<1>4. TypeOK'
  <2>1. [requests[d] EXCEPT !.status = "Cancelled"] \in Request
    BY <1>2 DEF Request
  <2>2. requests' \in [RequestIds -> Request]
    BY <1>1, <1>3, <2>1 DEF TypeOK
  <2>3. balance' \in Nat /\ paidOut' \in [RequestIds -> Nat]
    BY <1>1, <1>2, <1>3 DEF TypeOK
  <2> QED
    BY <1>1, <1>3, <2>2, <2>3 DEF TypeOK, configVars, statVars
<1>5. \A q \in RequestIds : q # d => Untouched(q)
  BY <1>1, <1>3 DEF Untouched, TypeOK
<1>6. /\ requests'[d] = [requests[d] EXCEPT !.status = "Cancelled"]
      /\ paidOut'[d] = paidOut[d] + requests[d].tip
      /\ reports'[d] = reports[d] /\ claims'[d] = claims[d]
  BY <1>1, <1>3 DEF TypeOK
<1>7. /\ requests'[d].status = "Cancelled" /\ requests'[d].tip = requests[d].tip
      /\ requests'[d].maxTip = requests[d].maxTip /\ requests'[d].id = requests[d].id
      /\ requests'[d].createdAt = requests[d].createdAt
  BY <1>2, <1>6 DEF Request
<1>8. paidOut[d] = 0
  BY <1>1, <1>3 DEF RequestInv, Fate
<1>9. RequestInv(d)'
  <2>1. Stored(d)'
    BY <1>1, <1>3, <1>7 DEF RequestInv, Stored, Exists
  <2>2. Fate(d)'
    BY <1>2, <1>6, <1>7, <1>8 DEF Fate
  <2>3. Reported(d)'
    BY <1>1, <1>3, <1>6, <1>7 DEF RequestInv, Reported
  <2> QED
    BY <2>1, <2>2, <2>3 DEF RequestInv
<1> QED
  BY <1>3, <1>4, <1>5, <1>9, OneRequestInv

(* A report is made at most once per step. *)
LEMMA ReportIsOne ==
    ASSUME TypeOK, NEW d \in RequestIds, Report(d)
    PROVE  /\ reports' \in [RequestIds -> Nat]
           /\ reports'[d] = reports[d] \/ reports'[d] = reports[d] + 1
           /\ \A q \in RequestIds : q # d => reports'[q] = reports[q]
  BY DEF Report, TypeOK

(* Claiming starts a claim window, and reports a claim it takes over. *)
LEMMA ClaimKeepsInv ==
    ASSUME Inv, NEW a \in Accounts, NEW d \in RequestIds, claimExecution(a, d)
    PROVE  Inv'
<1>1. TypeOK /\ RequestInv(d)
  BY DEF Inv
<1>2. requests[d] \in Request /\ claims[d] \in Nat /\ reports[d] \in Nat /\ now \in Nat
  BY <1>1, Fields DEF TypeOK
<1> DEFINE new == [requests[d] EXCEPT !.status = "Claimed", !.claimedBy = a, !.claimedAt = now,
                                      !.claimDeadline = now + CLAIM_WINDOW]
<1>3. /\ requests' = [requests EXCEPT ![d] = new]
      /\ now <= requests[d].expiresAt /\ Exists(d)
      /\ claims' = [claims EXCEPT ![d] = @ + 1]
      /\ UNCHANGED <<now, configVars, nextRequestId, statVars, balance, paidOut>>
  BY DEF claimExecution, NotExpired
<1>4. /\ reports' \in [RequestIds -> Nat]
      /\ \A q \in RequestIds : q # d => reports'[q] = reports[q]
      /\ \/ requests[d].status = "Pending" /\ reports'[d] = reports[d]
         \/ requests[d].status = "Claimed" /\ reports'[d] <= reports[d] + 1
  <2>1. CASE requests[d].status = "Pending" /\ UNCHANGED reports
    BY <1>1, <2>1 DEF TypeOK
  <2>2. CASE requests[d].status = "Claimed" /\ Report(d)
    BY <1>1, <1>2, <2>2, ReportIsOne
  <2> QED
    BY <2>1, <2>2 DEF claimExecution
<1>5. /\ new \in Request /\ new.status = "Claimed" /\ new.claimDeadline = now + CLAIM_WINDOW
      /\ new.tip = requests[d].tip /\ new.maxTip = requests[d].maxTip /\ new.id = requests[d].id
      /\ new.createdAt = requests[d].createdAt /\ new.expiresAt = requests[d].expiresAt
  <2>1. now \in Nat /\ now + CLAIM_WINDOW \in Nat
    BY <1>1, Limits DEF TypeOK
  <2>2. new \in Request
    BY <1>2, <2>1 DEF Request
  <2> QED
    BY <1>2, <2>2 DEF Request
<1> HIDE DEF new
<1>6. TypeOK'
  <2>1. requests' \in [RequestIds -> Request]
    BY <1>1, <1>3, <1>5 DEF TypeOK
  <2>2. claims' \in [RequestIds -> Nat]
    BY <1>1, <1>3 DEF TypeOK
  <2> QED
    BY <1>1, <1>3, <1>4, <2>1, <2>2 DEF TypeOK, configVars, statVars
<1>7. \A q \in RequestIds : q # d => Untouched(q)
  BY <1>1, <1>3, <1>4 DEF Untouched, TypeOK
<1>8. requests'[d] = new /\ paidOut'[d] = paidOut[d] /\ claims'[d] = claims[d] + 1
  BY <1>1, <1>3 DEF TypeOK
<1>9. RequestInv(d)'
  <2>1. Stored(d)'
    BY <1>1, <1>2, <1>3, <1>5, <1>8, Fields, Limits DEF RequestInv, Stored, Exists
  <2>2. Fate(d)'
    BY <1>1, <1>4, <1>5, <1>8 DEF RequestInv, Fate
  <2>3. reports'[d] + 1 <= claims'[d]
    <3>1. reports'[d] \in Nat
      BY <1>4
    <3> QED
      BY <1>1, <1>2, <1>4, <1>8, <3>1 DEF RequestInv, Reported
  <2>4. Reported(d)'
    BY <1>5, <1>8, <2>3 DEF Reported
  <2> QED
    BY <2>1, <2>2, <2>4 DEF RequestInv
<1> QED
  BY <1>3, <1>6, <1>7, <1>9, OneRequestInv

(* What a proof pays, the fee included, is the payout. *)
LEMMA SharesAddUp ==
    ASSUME TypeOK, NEW payout \in Nat
    PROVE  ProverShare(payout) \in Nat /\ Fee(payout) \in Nat /\ ProverShare(payout) + Fee(payout) = payout
<1>1. Fee(payout) \in 0 .. payout
  BY FeeIsBounded
<1> HIDE DEF Fee
<1> QED
  BY <1>1 DEF ProverShare

(* A proof completes the request and pays the payout. *)
LEMMA SubmitKeepsInv ==
    ASSUME Inv, NEW a \in Accounts, NEW d \in RequestIds, submitProof(a, d)
    PROVE  /\ Inv'
           /\ paidOut[d] = 0 /\ paidOut'[d] \in requests[d].tip \div 2 .. requests[d].tip
           /\ balance' = balance - paidOut'[d]
<1>1. TypeOK /\ RequestInv(d)
  BY DEF Inv
<1>2. /\ requests[d] \in Request /\ requests[d].tip \in Nat /\ paidOut[d] \in Nat
      /\ claims[d] \in Nat /\ reports[d] \in Nat /\ balance \in Nat
  BY <1>1, Fields DEF TypeOK
<1>3. PICK payout \in Nat : payout = calculatePayout(requests[d])
                            /\ payout \in requests[d].tip \div 2 .. requests[d].tip
  BY <1>1, PayoutRange DEF RequestInv, Stored
<1>4. PICK share \in Nat, fee \in Nat :
        /\ share = ProverShare(payout) /\ fee = Fee(payout) /\ share + fee = payout
  BY <1>1, <1>3, SharesAddUp
<1>5. /\ requests' = [requests EXCEPT ![d].status = "Completed"]
      /\ share + fee <= balance /\ balance' = balance - share - fee
      /\ paidOut' = [paidOut EXCEPT ![d] = @ + share + fee]
      /\ proverCompletedCount' = [proverCompletedCount EXCEPT ![a] = @ + 1]
      /\ proverEarnings' = [proverEarnings EXCEPT ![a] = @ + share]
      /\ requests[d].status = "Claimed" /\ Exists(d)
      /\ Report(d)
      /\ UNCHANGED <<now, configVars, nextRequestId, claims>>
  BY <1>3, <1>4 DEF submitProof, RecordEarnings
<1>6. /\ reports' \in [RequestIds -> Nat]
      /\ reports'[d] <= reports[d] + 1
      /\ \A q \in RequestIds : q # d => reports'[q] = reports[q]
  BY <1>1, <1>2, <1>5, ReportIsOne
<1>7. /\ requests'[d] = [requests[d] EXCEPT !.status = "Completed"]
      /\ paidOut'[d] = paidOut[d] + share + fee
      /\ claims'[d] = claims[d]
  BY <1>1, <1>5 DEF TypeOK
<1>8. /\ requests'[d] \in Request
      /\ requests'[d].status = "Completed" /\ requests'[d].tip = requests[d].tip
      /\ requests'[d].maxTip = requests[d].maxTip /\ requests'[d].id = requests[d].id
      /\ requests'[d].createdAt = requests[d].createdAt
  BY <1>2, <1>7 DEF Request
<1>9. TypeOK'
  <2>1. requests' \in [RequestIds -> Request]
    BY <1>1, <1>5, <1>7, <1>8 DEF TypeOK
  <2>2. balance' \in Nat
    BY <1>1, <1>2, <1>5 DEF TypeOK
  <2>3. paidOut' \in [RequestIds -> Nat]
    BY <1>1, <1>5 DEF TypeOK
  <2>4. proverCompletedCount' \in [Accounts -> Nat] /\ proverEarnings' \in [Accounts -> Nat]
    BY <1>1, <1>5 DEF TypeOK
  <2> QED
    BY <1>1, <1>5, <1>6, <2>1, <2>2, <2>3, <2>4 DEF TypeOK, configVars
<1>10. \A q \in RequestIds : q # d => Untouched(q)
  BY <1>1, <1>5, <1>6 DEF Untouched, TypeOK
<1>11. paidOut[d] = 0
  BY <1>1, <1>5 DEF RequestInv, Fate
<1>12. paidOut'[d] = payout
  BY <1>4, <1>7, <1>11
<1>13. RequestInv(d)'
  <2>1. Stored(d)'
    BY <1>1, <1>5, <1>8 DEF RequestInv, Stored, Exists
  <2>2. Fate(d)'
    BY <1>3, <1>8, <1>12 DEF Fate
  <2>3. reports'[d] \in Nat /\ reports'[d] <= claims[d]
    BY <1>1, <1>2, <1>5, <1>6 DEF RequestInv, Reported
  <2>4. Reported(d)'
    BY <1>7, <1>8, <2>3 DEF Reported
  <2> QED
    BY <2>1, <2>2, <2>4 DEF RequestInv
<1>14. Inv'
  BY <1>5, <1>9, <1>10, <1>13, OneRequestInv
<1>15. balance' = balance - paidOut'[d]
  BY <1>2, <1>4, <1>5, <1>12
<1> QED
  BY <1>3, <1>11, <1>12, <1>14, <1>15

(* A report of a lapsed claim makes the request pending again. *)
LEMMA ReportKeepsInv ==
    ASSUME Inv, NEW d \in RequestIds, reportBadProof(d)
    PROVE  Inv'
<1>1. TypeOK /\ RequestInv(d)
  BY DEF Inv
<1>2. requests[d] \in Request /\ claims[d] \in Nat /\ reports[d] \in Nat
  BY <1>1, Fields
<1> DEFINE new == [requests[d] EXCEPT !.status = "Pending", !.claimedBy = NoAccount, !.claimedAt = 0,
                                      !.claimDeadline = 0]
<1>3. /\ requests' = [requests EXCEPT ![d] = new]
      /\ requests[d].status = "Claimed" /\ Exists(d)
      /\ Report(d)
      /\ UNCHANGED <<now, configVars, nextRequestId, statVars, balance, paidOut, claims>>
  BY DEF reportBadProof
<1>4. /\ reports' \in [RequestIds -> Nat]
      /\ reports'[d] <= reports[d] + 1
      /\ \A q \in RequestIds : q # d => reports'[q] = reports[q]
  BY <1>1, <1>2, <1>3, ReportIsOne
<1>5. /\ new \in Request /\ new.status = "Pending"
      /\ new.tip = requests[d].tip /\ new.maxTip = requests[d].maxTip /\ new.id = requests[d].id
      /\ new.createdAt = requests[d].createdAt
  BY <1>2 DEF Request
<1> HIDE DEF new
<1>6. TypeOK'
  BY <1>1, <1>3, <1>4, <1>5 DEF TypeOK, configVars, statVars
<1>7. \A q \in RequestIds : q # d => Untouched(q)
  BY <1>1, <1>3, <1>4 DEF Untouched, TypeOK
<1>8. requests'[d] = new /\ paidOut'[d] = paidOut[d] /\ claims'[d] = claims[d]
  BY <1>1, <1>3 DEF TypeOK
<1>9. RequestInv(d)'
  <2>1. Stored(d)'
    BY <1>1, <1>3, <1>5, <1>8 DEF RequestInv, Stored, Exists
  <2>2. Fate(d)'
    BY <1>1, <1>3, <1>5, <1>8 DEF RequestInv, Fate
  <2>3. reports'[d] \in Nat /\ reports'[d] <= claims'[d]
    BY <1>1, <1>2, <1>3, <1>4, <1>8 DEF RequestInv, Reported
  <2>4. Reported(d)'
    BY <1>5, <1>8, <2>3 DEF Reported
  <2> QED
    BY <2>1, <2>2, <2>4 DEF RequestInv
<1> QED
  BY <1>3, <1>6, <1>7, <1>9, OneRequestInv

(* The invariant is inductive. *)
LEMMA NextInv == Inv /\ [Next]_vars => Inv'
  BY OtherStepsInv, RequestKeepsInv, CancelKeepsInv, ClaimKeepsInv, SubmitKeepsInv, ReportKeepsInv DEF Next

(* The invariant holds in every reachable state. *)
THEOREM EngineInvariant == Spec => []Inv
<1> QED
  BY InitInv, NextInv, PTL DEF Spec

(* Every variable keeps its type and the fee its cap. *)
THEOREM TypeCorrect == Spec => []TypeOK
<1>1. Inv => TypeOK
  BY DEF Inv
<1> QED
  BY <1>1, EngineInvariant, PTL

(* What was paid for a request follows its fate. *)
THEOREM Payment == Spec => []PaymentMatchesFate
<1>1. Inv => PaymentMatchesFate
  BY DEF Inv, RequestInv, Fate, PaymentMatchesFate
<1> QED
  BY <1>1, EngineInvariant, PTL

(* A claim is never reported twice. *)
THEOREM Reports == Spec => []NoClaimReportedTwice
<1>1. Inv => NoClaimReportedTwice
  BY DEF Inv, RequestInv, Reported, NoClaimReportedTwice
<1> QED
  BY <1>1, EngineInvariant, PTL

----------------------------------------------------------------------------
(* What a step may do to a request *)

SameRequest(id) == requests'[id] = requests[id] /\ paidOut'[id] = paidOut[id]

(* A step that changes a stored request is a transaction on that request. *)
LEMMA StepOnRequest ==
    ASSUME Inv, [Next]_vars, NEW id \in RequestIds
    PROVE  \/ SameRequest(id)
           \/ ~Exists(id)
           \/ \E a \in Accounts : cancelExecution(a, id) \/ claimExecution(a, id) \/ submitProof(a, id)
           \/ reportBadProof(id)
<1>1. TypeOK
  BY DEF Inv
<1>2. CASE Tick \/ AdminNext \/ UNCHANGED vars
  BY <1>2, OtherStepsInv DEF SameRequest, historyVars
<1>3. ASSUME NEW a \in Accounts, NEW value \in Tips, NEW seconds \in Expirations,
             requestExecution(a, value, seconds)
      PROVE  SameRequest(id) \/ ~Exists(id)
  <2>1. CASE id = nextRequestId
    <3>1. id \in Nat /\ ~(id < id)
      BY Limits DEF RequestIds
    <3> QED
      BY <2>1, <3>1 DEF Inv, RequestInv, Stored
  <2>2. CASE id # nextRequestId
    BY <1>1, <1>3, <2>2 DEF requestExecution, historyVars, SameRequest, TypeOK
  <2> QED
    BY <2>1, <2>2
<1>4. ASSUME NEW d \in RequestIds, d # id,
             \/ \E a \in Accounts : cancelExecution(a, d) \/ claimExecution(a, d) \/ submitProof(a, d)
             \/ reportBadProof(d)
      PROVE  SameRequest(id)
  <2>1. ASSUME NEW a \in Accounts, cancelExecution(a, d) PROVE SameRequest(id)
    BY <1>1, <1>4, <2>1 DEF cancelExecution, SameRequest, TypeOK
  <2>2. ASSUME NEW a \in Accounts, claimExecution(a, d) PROVE SameRequest(id)
    BY <1>1, <1>4, <2>2 DEF claimExecution, SameRequest, TypeOK
  <2>3. ASSUME NEW a \in Accounts, submitProof(a, d) PROVE SameRequest(id)
    BY <1>1, <1>4, <2>3 DEF submitProof, SameRequest, TypeOK
  <2>4. CASE reportBadProof(d)
    BY <1>1, <1>4, <2>4 DEF reportBadProof, SameRequest, TypeOK
  <2> QED
    BY <1>4, <2>1, <2>2, <2>3, <2>4
<1> QED
  BY <1>2, <1>3, <1>4 DEF Next

(* While a claim runs, only its claimant's proof changes the request. *)
THEOREM Exclusive == Spec => ClaimIsExclusive
<1> DEFINE Kept(id) ==
      requests[id].status = "Claimed" /\ now <= requests[id].claimDeadline =>
          \/ requests'[id] = requests[id]
          \/ /\ requests'[id] = [requests[id] EXCEPT !.status = "Completed"]
             /\ proverCompletedCount'[requests[id].claimedBy]
                  = proverCompletedCount[requests[id].claimedBy] + 1
<1>1. ASSUME Inv, [Next]_vars, NEW id \in RequestIds PROVE Kept(id)
  <2> SUFFICES ASSUME requests[id].status = "Claimed", now <= requests[id].claimDeadline
               PROVE  \/ requests'[id] = requests[id]
                      \/ /\ requests'[id] = [requests[id] EXCEPT !.status = "Completed"]
                         /\ proverCompletedCount'[requests[id].claimedBy]
                              = proverCompletedCount[requests[id].claimedBy] + 1
    OBVIOUS
  <2>1. TypeOK /\ now \in Nat /\ requests[id].claimDeadline \in Nat
    <3>1. TypeOK /\ now \in Nat /\ requests[id] \in Request
      BY <1>1 DEF Inv, TypeOK
    <3> QED
      BY <3>1 DEF Request
  <2>2. Exists(id) /\ ~ClaimLapsed(id)
    BY <1>1, <2>1 DEF Inv, RequestInv, Stored, NoRequest, ClaimLapsed
  <2>3. ASSUME NEW a \in Accounts, submitProof(a, id)
        PROVE  /\ requests'[id] = [requests[id] EXCEPT !.status = "Completed"]
               /\ proverCompletedCount'[requests[id].claimedBy]
                    = proverCompletedCount[requests[id].claimedBy] + 1
    BY <2>1, <2>3 DEF submitProof, RecordEarnings, TypeOK
  <2>4. ASSUME NEW a \in Accounts, cancelExecution(a, id) \/ claimExecution(a, id) PROVE FALSE
    BY <2>2, <2>4 DEF cancelExecution, MayCancel, claimExecution
  <2>5. ~reportBadProof(id)
    BY <2>2 DEF reportBadProof
  <2> QED
    BY <1>1, <2>2, <2>3, <2>4, <2>5, StepOnRequest DEF SameRequest
<1>2. Inv /\ [Next]_vars => [\A id \in RequestIds : Kept(id)]_vars
  BY <1>1
<1> QED
  BY <1>2, EngineInvariant, PTL DEF Spec, ClaimIsExclusive

(* A closed request never changes, and none is completed too late. *)
THEOREM Closed == Spec => ClosedForGood
<1> DEFINE Kept(id) ==
      /\ requests[id].status \in {"Completed", "Cancelled"} =>
           requests'[id] = requests[id] /\ paidOut'[id] = paidOut[id]
      /\ requests'[id].status = "Completed" /\ requests[id].status # "Completed" =>
           now <= requests[id].expiresAt + CLAIM_WINDOW
<1>1. ASSUME Inv, [Next]_vars, NEW id \in RequestIds PROVE Kept(id)
  <2>1. TypeOK /\ RequestInv(id) /\ requests[id] \in Request
    BY <1>1 DEF Inv, TypeOK
  <2>2. CASE SameRequest(id)
    BY <2>2 DEF SameRequest
  <2>3. CASE ~Exists(id)
    <3>1. requests[id].status = "Pending"
      BY <2>1, <2>3 DEF RequestInv, Stored, NoRequest
    <3>2. requests'[id].status = "Pending" \/ SameRequest(id)
      <4>1. CASE \E a \in Accounts, value \in Tips, seconds \in Expirations :
                    requestExecution(a, value, seconds)
        BY <2>1, <4>1 DEF requestExecution, historyVars, SameRequest, TypeOK
      <4>2. ASSUME NEW d \in RequestIds, d # id,
                   \/ \E a \in Accounts : cancelExecution(a, d) \/ claimExecution(a, d) \/ submitProof(a, d)
                   \/ reportBadProof(d)
            PROVE  requests'[id] = requests[id]
        BY <2>1, <4>2 DEF cancelExecution, claimExecution, submitProof, reportBadProof, TypeOK
      <4>3. ASSUME \/ \E a \in Accounts : cancelExecution(a, id) \/ claimExecution(a, id) \/ submitProof(a, id)
                   \/ reportBadProof(id)
            PROVE  FALSE
        BY <2>3, <4>3 DEF cancelExecution, claimExecution, submitProof, reportBadProof
      <4>4. CASE Tick \/ AdminNext \/ UNCHANGED vars
        BY <1>1, <4>4, OtherStepsInv DEF SameRequest, historyVars
      <4> QED
        BY <1>1, <3>1, <4>1, <4>2, <4>3, <4>4 DEF Next
    <3> QED
      BY <3>1, <3>2 DEF SameRequest
  <2>4. ASSUME NEW a \in Accounts, cancelExecution(a, id) \/ claimExecution(a, id) PROVE Kept(id)
    <3>1. requests[id].status \in {"Pending", "Claimed"}
      BY <2>4 DEF cancelExecution, MayCancel, claimExecution
    <3>2. requests'[id].status \in {"Cancelled", "Claimed"}
      <4>1. CASE cancelExecution(a, id)
        BY <2>1, <4>1 DEF cancelExecution, TypeOK, Request
      <4>2. CASE claimExecution(a, id)
        BY <2>1, <4>2 DEF claimExecution, TypeOK, Request
      <4> QED
        BY <2>4, <4>1, <4>2
    <3> QED
      BY <3>1, <3>2
  <2>5. ASSUME NEW a \in Accounts, submitProof(a, id) PROVE Kept(id)
    <3>1. requests[id].status = "Claimed" /\ ~(now > requests[id].claimDeadline)
      BY <2>5 DEF submitProof, ClaimLapsed
    <3>2. requests[id].claimDeadline <= requests[id].expiresAt + CLAIM_WINDOW
      BY <2>1, <3>1 DEF RequestInv, Stored
    <3>3. now \in Nat /\ requests[id].claimDeadline \in Nat /\ requests[id].expiresAt + CLAIM_WINDOW \in Nat
      BY <2>1, Limits DEF TypeOK, Request
    <3>4. now <= requests[id].expiresAt + CLAIM_WINDOW
      BY <3>1, <3>2, <3>3
    <3> QED
      BY <3>1, <3>4
  <2>6. CASE reportBadProof(id)
    <3>1. requests[id].status = "Claimed"
      BY <2>6 DEF reportBadProof
    <3>2. requests'[id].status # "Completed"
      BY <2>1, <2>6 DEF reportBadProof, TypeOK, Request
    <3> QED
      BY <3>1, <3>2
  <2> QED
    BY <1>1, <2>2, <2>3, <2>4, <2>5, <2>6, StepOnRequest
<1>2. Inv /\ [Next]_vars => [\A id \in RequestIds : Kept(id)]_vars
  BY <1>1
<1> QED
  BY <1>2, EngineInvariant, PTL DEF Spec, ClosedForGood

----------------------------------------------------------------------------
(* The tip only falls *)

(* The payout of an unchanged request falls with time. *)
LEMMA PayoutFalls ==
    ASSUME Inv, Inv', NEW id \in RequestIds, now' >= now,
           requests'[id].maxTip = requests[id].maxTip,
           requests'[id].createdAt = requests[id].createdAt
    PROVE  calculatePayout(requests[id])' <= calculatePayout(requests[id])
<1>1. PICK m \in Nat, e \in Nat, f \in Nat, p \in Nat \ {0} :
        /\ m = requests[id].maxTip /\ e = now - requests[id].createdAt
        /\ f = now' - requests[id].createdAt /\ p = TIP_DECAY_PERIOD /\ e <= f
  <2>1. requests[id].maxTip \in Nat /\ requests[id].createdAt \in Nat /\ now \in Nat /\ now' \in Nat
    BY Fields DEF Inv, TypeOK
  <2>2. requests[id].createdAt <= now
    BY DEF Inv, RequestInv, Stored
  <2>3. TIP_DECAY_PERIOD \in Nat \ {0}
    BY NatAssumption
  <2>4. /\ now - requests[id].createdAt \in Nat /\ now' - requests[id].createdAt \in Nat
        /\ now - requests[id].createdAt <= now' - requests[id].createdAt
    BY <2>1, <2>2
  <2> QED
    BY <2>1, <2>3, <2>4
<1>2. calculatePayout(requests[id]) = IF e >= p THEN m \div 2 ELSE m - (m * e) \div (p * 2)
  BY <1>1 DEF calculatePayout
<1>3. calculatePayout(requests[id])' = IF f >= p THEN m \div 2 ELSE m - (m * f) \div (p * 2)
  BY <1>1 DEF calculatePayout
<1>4. calculatePayout(requests[id]) \in Nat /\ calculatePayout(requests[id]) >= m \div 2
  <2>1. calculatePayout(requests[id]) \in Nat
        /\ calculatePayout(requests[id]) \in requests[id].maxTip \div 2 .. requests[id].maxTip
    BY PayoutRange DEF Inv, RequestInv, Stored
  <2> HIDE DEF calculatePayout
  <2> QED
    BY <1>1, <2>1
<1>5. CASE f >= p
  BY <1>3, <1>4, <1>5
<1>6. CASE ~(f >= p)
  <2>1. e < p /\ f < p
    BY <1>1, <1>6
  <2>2. m * e \in Nat /\ m * f \in Nat /\ m * e <= m * f /\ p * 2 \in Nat \ {0}
    BY <1>1, ProductMonotone
  <2>3. PICK x \in Nat, y \in Nat : x = (m * e) \div (p * 2) /\ y = (m * f) \div (p * 2) /\ x <= y
    <3>1. (m * e) \div (p * 2) <= (m * f) \div (p * 2)
      BY <2>2, QuotientMonotone
    <3>2. (m * e) \div (p * 2) \in Nat /\ (m * f) \div (p * 2) \in Nat
      BY <2>2, Quotient
    <3> QED
      BY <3>1, <3>2
  <2>4. m - y <= m - x
    BY <2>3
  <2> QED
    BY <1>2, <1>3, <2>1, <2>3, <2>4
<1> QED
  BY <1>5, <1>6

(* A prover never gains by waiting. *)
THEOREM TipFalls == Spec => TipNeverRises
<1>1. ASSUME Inv, Inv', [Next]_vars, NEW id \in RequestIds, Exists(id)
      PROVE  CurrentTip(id)' <= CurrentTip(id)
  <2>1. TypeOK /\ requests[id] \in Request /\ RequestInv(id)
    BY <1>1 DEF Inv, TypeOK
  <2>2. CurrentTip(id) \in Nat
    <3>1. calculatePayout(requests[id]) \in Nat
      BY <2>1, PayoutRange DEF RequestInv, Stored
    <3> QED
      BY <3>1 DEF CurrentTip
  <2>3. now' >= now
    <3>1. now \in Nat
      BY <2>1 DEF TypeOK
    <3>2. CASE Tick \/ AdminNext \/ UNCHANGED vars
      BY <3>1, <3>2 DEF Tick, AdminNext, vars, Configure, pause, unpause, setProtocolFee,
                        setFeeRecipient, setReputation, setProgramActive
    <3>3. ASSUME NEW a \in Accounts, NEW value \in Tips, NEW seconds \in Expirations,
                 requestExecution(a, value, seconds)
          PROVE  now' = now
      BY <3>3 DEF requestExecution
    <3>4. ASSUME NEW d \in RequestIds,
                 \/ \E a \in Accounts : cancelExecution(a, d) \/ claimExecution(a, d) \/ submitProof(a, d)
                 \/ reportBadProof(d)
          PROVE  now' = now
      BY <3>4, Zenon DEF cancelExecution, claimExecution, submitProof, reportBadProof
    <3>5. CASE now' = now
      BY <3>1, <3>5
    <3> QED
      BY <1>1, <3>2, <3>3, <3>4, <3>5 DEF Next
  <2>4. ASSUME requests'[id].maxTip = requests[id].maxTip,
               requests'[id].createdAt = requests[id].createdAt, Open(id)
        PROVE  CurrentTip(id)' <= CurrentTip(id)
    <3>1. calculatePayout(requests[id])' <= calculatePayout(requests[id])
      BY <1>1, <2>3, <2>4, PayoutFalls
    <3>2. CurrentTip(id) = calculatePayout(requests[id])
      BY <2>4 DEF CurrentTip
    <3>3. CurrentTip(id)' = calculatePayout(requests[id])' \/ CurrentTip(id)' = 0
      BY DEF CurrentTip
    <3> QED
      BY <2>2, <3>1, <3>2, <3>3
  <2>5. CASE SameRequest(id)
    <3>1. CASE Open(id)
      BY <2>4, <2>5, <3>1 DEF SameRequest
    <3>2. CASE ~Open(id)
      BY <2>5, <3>2 DEF SameRequest, CurrentTip, Open, Exists
    <3> QED
      BY <3>1, <3>2
  <2>6. ASSUME NEW a \in Accounts, cancelExecution(a, id) \/ submitProof(a, id)
        PROVE  CurrentTip(id)' <= CurrentTip(id)
    <3>1. requests'[id].status \in {"Cancelled", "Completed"}
      <4>1. CASE cancelExecution(a, id)
        BY <2>1, <4>1 DEF cancelExecution, TypeOK, Request
      <4>2. CASE submitProof(a, id)
        BY <2>1, <4>2 DEF submitProof, TypeOK, Request
      <4> QED
        BY <2>6, <4>1, <4>2
    <3>2. CurrentTip(id)' = 0
      BY <3>1 DEF CurrentTip, Open
    <3> QED
      BY <2>2, <3>2
  <2>7. ASSUME NEW a \in Accounts, claimExecution(a, id) PROVE CurrentTip(id)' <= CurrentTip(id)
    <3>1. Open(id)
      BY <1>1, <2>7 DEF claimExecution, Open
    <3>2. requests'[id].maxTip = requests[id].maxTip /\ requests'[id].createdAt = requests[id].createdAt
      BY <2>1, <2>7 DEF claimExecution, TypeOK, Request
    <3> QED
      BY <2>4, <3>1, <3>2
  <2>8. CASE reportBadProof(id)
    <3>1. Open(id)
      BY <1>1, <2>8 DEF reportBadProof, Open
    <3>2. requests'[id].maxTip = requests[id].maxTip /\ requests'[id].createdAt = requests[id].createdAt
      BY <2>1, <2>8 DEF reportBadProof, TypeOK, Request
    <3> QED
      BY <2>4, <3>1, <3>2
  <2> QED
    BY <1>1, <2>5, <2>6, <2>7, <2>8, StepOnRequest
<1>2. Inv /\ Inv' /\ [Next]_vars
        => [\A id \in RequestIds : Exists(id) => CurrentTip(id)' <= CurrentTip(id)]_vars
  BY <1>1
<1> QED
  BY <1>2, EngineInvariant, PTL DEF Spec, TipNeverRises

----------------------------------------------------------------------------
(* The refinement *)

SameDeal(id) ==
    /\ DealStatus(id)' = DealStatus(id)
    /\ requests'[id].tip = requests[id].tip
    /\ paidOut'[id] = paidOut[id]

(* A request a step does not change is a deal it does not change. *)
LEMMA UntouchedDeal == ASSUME NEW id \in RequestIds, SameRequest(id) PROVE SameDeal(id)
  BY DEF SameRequest, SameDeal, DealStatus, Exists, Open

(* A step that stores one request funds that deal. *)
LEMMA FundsDeal ==
    ASSUME paidOut \in [RequestIds -> Nat], paidOut' \in [RequestIds -> Nat],
           NEW d \in RequestIds, \A q \in RequestIds : q # d => SameDeal(q),
           DealStatus(d) # "closed", DealStatus(d)' = "open", paidOut'[d] = paidOut[d],
           requests'[d].tip >= requests[d].tip, balance' = balance + requests'[d].tip - requests[d].tip
    PROVE  E!Fund(d)
<1>1. paidOut' = paidOut
  BY DEF SameDeal
<1> QED
  BY <1>1 DEF E!Fund, SameDeal

(* A step that closes one request with a payment releases that deal. *)
LEMMA ReleasesDeal ==
    ASSUME paidOut \in [RequestIds -> Nat], paidOut' \in [RequestIds -> Nat],
           NEW d \in RequestIds, \A q \in RequestIds : q # d => SameDeal(q),
           DealStatus(d) = "open", DealStatus(d)' = "closed", requests'[d].tip = requests[d].tip,
           paidOut'[d] \in requests[d].tip \div 2 .. requests[d].tip,
           balance' = balance - paidOut'[d]
    PROVE  E!Release(d)
  BY DEF E!Release, SameDeal

(* A step that leaves all deals and the balance alone is no step of the escrow. *)
LEMMA NoDeal ==
    ASSUME paidOut \in [RequestIds -> Nat], paidOut' \in [RequestIds -> Nat],
           \A q \in RequestIds : SameDeal(q), balance' = balance
    PROVE  UNCHANGED E!vars
  BY DEF E!vars, SameDeal

(* A step on one request leaves the deals of the others alone. *)
LEMMA OtherDeals ==
    ASSUME TypeOK, NEW d \in RequestIds, NEW q \in RequestIds, q # d,
           \/ \E a \in Accounts : cancelExecution(a, d) \/ claimExecution(a, d) \/ submitProof(a, d)
           \/ reportBadProof(d)
    PROVE  SameDeal(q)
<1>1. ASSUME NEW a \in Accounts, cancelExecution(a, d) PROVE SameRequest(q)
  BY <1>1 DEF cancelExecution, SameRequest, TypeOK
<1>2. ASSUME NEW a \in Accounts, claimExecution(a, d) PROVE SameRequest(q)
  BY <1>2 DEF claimExecution, SameRequest, TypeOK
<1>3. ASSUME NEW a \in Accounts, submitProof(a, d) PROVE SameRequest(q)
  BY <1>3 DEF submitProof, SameRequest, TypeOK
<1>4. ASSUME reportBadProof(d) PROVE SameRequest(q)
  BY <1>4 DEF reportBadProof, SameRequest, TypeOK
<1> QED
  BY <1>1, <1>2, <1>3, <1>4, UntouchedDeal

(* Every step of the engine is a step of the escrow or invisible to it. *)
LEMMA StepRefines ==
    ASSUME Inv, Inv', [Next]_vars
    PROVE  [E!Next]_(E!vars)
<1>1. /\ TypeOK /\ balance \in Nat
      /\ paidOut \in [RequestIds -> Nat] /\ paidOut' \in [RequestIds -> Nat]
  BY DEF Inv, TypeOK
<1>2. CASE Tick \/ AdminNext \/ UNCHANGED vars
  <2>1. UNCHANGED <<requests, balance, historyVars>>
    BY <1>2, OtherStepsInv
  <2>2. \A q \in RequestIds : SameDeal(q)
    BY <2>1, UntouchedDeal DEF SameRequest, historyVars
  <2> QED
    BY <1>1, <2>1, <2>2, NoDeal
<1>3. ASSUME NEW a \in Accounts, NEW value \in Tips, NEW seconds \in Expirations,
             requestExecution(a, value, seconds)
      PROVE  E!Next
  <2>1. PICK d \in RequestIds : d = nextRequestId /\ d # 0 /\ ~(d < d)
    BY <1>3, Limits DEF requestExecution, RequestIds
  <2>2. ASSUME NEW q \in RequestIds, q # d PROVE SameDeal(q)
    BY <1>1, <1>3, <2>1, <2>2, UntouchedDeal DEF requestExecution, historyVars, SameRequest, TypeOK
  <2>3. ~Exists(d) /\ requests[d].tip = 0
    BY <2>1 DEF Inv, RequestInv, Stored, NoRequest
  <2>4. /\ requests'[d].id = d /\ requests'[d].status = "Pending" /\ requests'[d].tip = value
        /\ paidOut'[d] = paidOut[d] /\ balance' = balance + value
    BY <1>1, <1>3, <2>1 DEF requestExecution, historyVars, TypeOK
  <2>5. value \in Nat
    BY NatAssumption
  <2>6. DealStatus(d) = "none" /\ DealStatus(d)' = "open"
    BY <2>1, <2>3, <2>4 DEF DealStatus, Exists, Open
  <2>7. requests'[d].tip >= requests[d].tip /\ balance' = balance + requests'[d].tip - requests[d].tip
    BY <1>1, <2>3, <2>4, <2>5
  <2>8. E!Fund(d)
    BY <1>1, <2>2, <2>4, <2>6, <2>7, FundsDeal
  <2> QED
    BY <2>8 DEF E!Next
<1>4. ASSUME NEW a \in Accounts, NEW d \in RequestIds, cancelExecution(a, d) PROVE E!Next
  <2>1. requests[d] \in Request /\ requests[d].tip \in Nat /\ paidOut[d] \in Nat /\ RequestInv(d)
    BY <1>1, Fields DEF Inv
  <2>2. /\ requests[d].status = "Pending" /\ Exists(d) /\ balance' = balance - requests[d].tip
        /\ paidOut'[d] = paidOut[d] + requests[d].tip
    BY <1>1, <1>4 DEF cancelExecution, MayCancel, TypeOK
  <2>3. /\ requests'[d].status = "Cancelled" /\ requests'[d].tip = requests[d].tip
        /\ requests'[d].id = requests[d].id
    BY <1>1, <1>4, <2>1 DEF cancelExecution, TypeOK, Request
  <2>4. paidOut[d] = 0
    BY <2>1, <2>2 DEF RequestInv, Fate
  <2>5. paidOut'[d] = requests[d].tip /\ paidOut'[d] \in requests[d].tip \div 2 .. requests[d].tip
    BY <2>1, <2>2, <2>4
  <2>6. DealStatus(d) = "open" /\ DealStatus(d)' = "closed"
    BY <2>2, <2>3 DEF DealStatus, Exists, Open
  <2>7. E!Release(d)
    BY <1>1, <1>4, <2>2, <2>3, <2>5, <2>6, OtherDeals, ReleasesDeal
  <2> QED
    BY <2>7 DEF E!Next
<1>5. ASSUME NEW a \in Accounts, NEW d \in RequestIds, submitProof(a, d) PROVE E!Next
  <2>1. requests[d] \in Request
    BY <1>1, Fields
  <2>2. requests[d].status = "Claimed" /\ Exists(d)
    BY <1>5 DEF submitProof
  <2>3. /\ requests'[d].status = "Completed" /\ requests'[d].tip = requests[d].tip
        /\ requests'[d].id = requests[d].id
    BY <1>1, <1>5, <2>1 DEF submitProof, TypeOK, Request
  <2>4. paidOut'[d] \in requests[d].tip \div 2 .. requests[d].tip /\ balance' = balance - paidOut'[d]
    BY <1>5, SubmitKeepsInv
  <2>5. DealStatus(d) = "open" /\ DealStatus(d)' = "closed"
    BY <2>2, <2>3 DEF DealStatus, Exists, Open
  <2>6. E!Release(d)
    BY <1>1, <1>5, <2>3, <2>4, <2>5, OtherDeals, ReleasesDeal
  <2> QED
    BY <2>6 DEF E!Next
<1>6. ASSUME NEW d \in RequestIds, reportBadProof(d) \/ \E a \in Accounts : claimExecution(a, d)
      PROVE  UNCHANGED E!vars
  <2>1. requests[d] \in Request
    BY <1>1, Fields
  <2>2. /\ requests[d].status \in {"Pending", "Claimed"}
        /\ balance' = balance /\ paidOut' = paidOut
    BY <1>6 DEF reportBadProof, claimExecution
  <2>3. /\ requests'[d].status \in {"Pending", "Claimed"} /\ requests'[d].tip = requests[d].tip
        /\ requests'[d].id = requests[d].id
    <3>1. CASE reportBadProof(d)
      BY <1>1, <2>1, <3>1 DEF reportBadProof, TypeOK, Request
    <3>2. ASSUME NEW a \in Accounts, claimExecution(a, d)
          PROVE  /\ requests'[d].status \in {"Pending", "Claimed"} /\ requests'[d].tip = requests[d].tip
                 /\ requests'[d].id = requests[d].id
      BY <1>1, <2>1, <3>2 DEF claimExecution, TypeOK, Request
    <3> QED
      BY <1>6, <3>1, <3>2
  <2>4. SameDeal(d)
    BY <2>2, <2>3 DEF SameDeal, DealStatus, Exists, Open
  <2> QED
    BY <1>1, <1>6, <2>2, <2>4, OtherDeals, NoDeal
<1> QED
  BY <1>2, <1>3, <1>4, <1>5, <1>6 DEF Next

(* ETH leaves the engine only in the one payment that closes a request. *)
THEOREM Refinement == Spec => ImplementsEscrow
<1>1. Init => E!Init
  BY DEF Init, E!Init, DealStatus, Exists, Open, NoRequest
<1>2. Inv /\ Inv' /\ [Next]_vars => [E!Next]_(E!vars)
  BY StepRefines
<1> QED
  BY <1>1, <1>2, EngineInvariant, PTL DEF Spec, ImplementsEscrow, E!Spec

----------------------------------------------------------------------------
(* Part 2.  The engine and its reputation contract: theorems of RatedSpec. *)

----------------------------------------------------------------------------
(* The engine *)

(* A step of the two contracts is a step of the engine or none of its.     *)
LEMMA EngineStepOrNone == [RatedNext]_ratedVars => [Next]_vars
<1> SUFFICES ASSUME [RatedNext]_ratedVars PROVE [Next]_vars
  OBVIOUS
<1>1. CASE EngineStep
  BY <1>1 DEF EngineStep, QuietStep, ClaimStep, ProofStep, ReportStep, Next
<1>2. CASE ReputationStep
  BY <1>2 DEF ReputationStep
<1>3. CASE UNCHANGED ratedVars
  BY <1>3 DEF ratedVars
<1> QED
  BY <1>1, <1>2, <1>3 DEF RatedNext

(* Whatever the reputation contract does or refuses (try/catch around      *)
(* every call), the engine behaves as it does alone: every theorem about   *)
(* ExecutionEngine holds of the two contracts together.                    *)
THEOREM ReputationNeverInterferes == RatedSpec => Spec
<1>1. RatedInit => Init
  BY DEF RatedInit
<1> QED
  BY <1>1, EngineStepOrNone, PTL DEF RatedSpec, Spec

----------------------------------------------------------------------------
(* The reputation contract *)

RepInv == RepTypeOK /\ TiersAddUp

(* A tier is a tier. *)
LEMMA TierRange == ASSUME NEW score \in Nat PROVE calculateTier(score) \in Tiers
  BY DEF calculateTier, Tiers

(* A penalty leaves a score in its range. *)
LEMMA LessRange ==
    ASSUME NEW score \in 0 .. MAX_SCORE, NEW penalty \in Nat
    PROVE  Less(score, penalty) \in 0 .. MAX_SCORE
  BY ScoreAssumption DEF Less

(* What storing a record does to the books. *)
LEMMA UpdateKeepsBooks ==
    ASSUME RepInv, NEW p \in Provers, NEW rep \in Reputation,
           reputations[p].isRegistered, rep.isRegistered,
           rep.totalJobs = rep.completedJobs + rep.failedJobs + rep.abandonedJobs,
           Update(p, rep)
    PROVE  /\ reputations' \in [Provers -> Reputation] /\ totalProvers' \in Nat
           /\ proversByTier' \in [Tiers -> Nat] /\ TiersAddUp'
           /\ reputations'[p].completedJobs = rep.completedJobs
           /\ reputations'[p].totalEarnings = rep.totalEarnings
           /\ \A q \in Provers : q # p => reputations'[q] = reputations[q]
<1>1. reputations \in [Provers -> Reputation] /\ proversByTier \in [Tiers -> Nat] /\ totalProvers \in Nat
  BY DEF RepInv, RepTypeOK
<1>2. PICK old \in Tiers : old = reputations[p].tier
  BY <1>1 DEF Reputation
<1>3. rep.score \in Nat
  BY ScoreAssumption DEF Reputation
<1>4. PICK new \in Tiers : new = calculateTier(rep.score)
  BY <1>3, TierRange
<1>5. PICK r : r = [rep EXCEPT !.tier = new]
  OBVIOUS
<1>6. /\ r \in Reputation /\ r.tier = new /\ r.score = rep.score /\ r.isRegistered
      /\ r.totalJobs = r.completedJobs + r.failedJobs + r.abandonedJobs
      /\ r.completedJobs = rep.completedJobs /\ r.totalEarnings = rep.totalEarnings
  BY <1>5 DEF Reputation
<1>7. reputations' = [reputations EXCEPT ![p] = r] /\ totalProvers' = totalProvers /\ MoveTier(old, new)
  BY <1>2, <1>4, <1>5 DEF Update
<1>8. reputations' \in [Provers -> Reputation] /\ reputations'[p] = r
      /\ \A q \in Provers : q # p => reputations'[q] = reputations[q]
  BY <1>1, <1>6, <1>7
<1>9. \A t \in Tiers : IsFiniteSet(InTier(t)) /\ Cardinality(InTier(t)) \in Nat /\ proversByTier[t] = Cardinality(InTier(t))
  <2>1. ASSUME NEW t \in Tiers PROVE IsFiniteSet(InTier(t))
    BY ProverAssumption, FS_Subset DEF InTier
  <2> QED
    BY <2>1, FS_CardinalityType DEF RepInv, TiersAddUp
<1>10. p \in InTier(old) /\ (old # new => p \notin InTier(new))
  BY <1>2 DEF InTier
<1>11. ASSUME NEW t \in Tiers
       PROVE  /\ proversByTier'[t] = Cardinality(InTier(t)') /\ proversByTier'[t] \in Nat
              /\ DOMAIN proversByTier' = Tiers
  <2>1. CASE old = new \/ t \notin {old, new}
    <3>1. InTier(t)' = InTier(t)
      BY <1>2, <1>6, <1>8, <2>1 DEF InTier
    <3>2. proversByTier'[t] = proversByTier[t] /\ DOMAIN proversByTier' = Tiers
      BY <1>1, <1>7, <2>1 DEF MoveTier
    <3> QED
      BY <1>9, <3>1, <3>2
  <2>2. CASE old # new /\ t = old
    <3>1. InTier(t)' = InTier(t) \ {p}
      BY <1>6, <1>8, <2>2 DEF InTier
    <3>2. proversByTier'[t] = proversByTier[t] - 1 /\ DOMAIN proversByTier' = Tiers
      BY <1>1, <1>7, <2>2 DEF MoveTier
    <3>3. Cardinality(InTier(t) \ {p}) = Cardinality(InTier(t)) - 1 /\ IsFiniteSet(InTier(t) \ {p})
      BY <1>9, <1>10, <2>2, FS_RemoveElement
    <3>4. Cardinality(InTier(t) \ {p}) \in Nat
      BY <3>3, FS_CardinalityType
    <3> QED
      BY <1>9, <3>1, <3>2, <3>3, <3>4
  <2>3. CASE old # new /\ t = new
    <3>1. InTier(t)' = InTier(t) \cup {p}
      BY <1>6, <1>8, <2>3 DEF InTier
    <3>2. proversByTier'[t] = proversByTier[t] + 1 /\ DOMAIN proversByTier' = Tiers
      BY <1>1, <1>7, <2>3 DEF MoveTier
    <3>3. Cardinality(InTier(t) \cup {p}) = Cardinality(InTier(t)) + 1
      BY <1>9, <1>10, <2>3, FS_AddElement
    <3> QED
      BY <1>9, <3>1, <3>2, <3>3
  <2> QED
    BY <2>1, <2>2, <2>3
<1>12. proversByTier' \in [Tiers -> Nat]
  BY <1>1, <1>7, <1>11 DEF MoveTier
<1>13. {q \in Provers : reputations'[q].isRegistered} = {q \in Provers : reputations[q].isRegistered}
  BY <1>6, <1>8
<1>14. ASSUME NEW q \in Provers
       PROVE  /\ reputations'[q].totalJobs = reputations'[q].completedJobs + reputations'[q].failedJobs
                                             + reputations'[q].abandonedJobs
              /\ reputations'[q].totalJobs > 0 \/ reputations'[q].isSlashed =>
                    reputations'[q].tier = calculateTier(reputations'[q].score)
  <2>1. CASE q = p
    BY <1>4, <1>6, <1>8, <2>1
  <2>2. CASE q # p
    BY <1>8, <2>2 DEF RepInv, TiersAddUp
  <2> QED
    BY <2>1, <2>2
<1>15. TiersAddUp'
  BY <1>7, <1>11, <1>13, <1>14 DEF RepInv, TiersAddUp
<1> QED
  BY <1>1, <1>6, <1>7, <1>8, <1>12, <1>15

(* Steps that leave the counts alone and of the records only the ban flag. *)
LEMMA SameBooks ==
    ASSUME RepInv, reputations' \in [Provers -> Reputation], UNCHANGED <<totalProvers, proversByTier>>,
           \A q \in Provers :
               \/ reputations'[q] = reputations[q]
               \/ \E b \in BOOLEAN : reputations'[q] = [reputations[q] EXCEPT !.isBanned = b]
    PROVE  TiersAddUp'
<1>1. reputations \in [Provers -> Reputation]
  BY DEF RepInv, RepTypeOK
<1>2. ASSUME NEW q \in Provers
      PROVE  /\ reputations'[q].isRegistered = reputations[q].isRegistered
             /\ reputations'[q].tier = reputations[q].tier
             /\ reputations'[q].score = reputations[q].score
             /\ reputations'[q].isSlashed = reputations[q].isSlashed
             /\ reputations'[q].totalJobs = reputations[q].totalJobs
             /\ reputations'[q].completedJobs = reputations[q].completedJobs
             /\ reputations'[q].failedJobs = reputations[q].failedJobs
             /\ reputations'[q].abandonedJobs = reputations[q].abandonedJobs
  BY <1>1 DEF Reputation
<1>3. \A t \in Tiers : InTier(t)' = InTier(t)
  BY <1>2 DEF InTier
<1>4. {q \in Provers : reputations'[q].isRegistered} = {q \in Provers : reputations[q].isRegistered}
  BY <1>2
<1> QED
  BY <1>2, <1>3, <1>4 DEF RepInv, TiersAddUp

(* Registration adds an unranked prover. *)
LEMMA RegisterKeepsBooks ==
    ASSUME RepInv, NEW p \in Provers, register(p)
    PROVE  /\ RepInv'
           /\ reputations'[p].completedJobs = 0 /\ reputations'[p].totalEarnings = 0
           /\ \A q \in Provers : q # p => reputations'[q] = reputations[q]
<1>1. /\ reputations \in [Provers -> Reputation] /\ proversByTier \in [Tiers -> Nat] /\ totalProvers \in Nat
      /\ 0 \in Tiers
  BY DEF RepInv, RepTypeOK, Tiers
<1>2. PICK r : r = [NoReputation EXCEPT !.score = INITIAL_SCORE, !.isRegistered = TRUE]
  OBVIOUS
<1>3. INITIAL_SCORE \in 0 .. MAX_SCORE
  BY ScoreAssumption
<1>4. r = [totalJobs |-> 0, completedJobs |-> 0, failedJobs |-> 0, abandonedJobs |-> 0, totalEarnings |-> 0,
           avgProofTimeMs |-> 0, score |-> INITIAL_SCORE, tier |-> 0,
           isRegistered |-> TRUE, isSlashed |-> FALSE, isBanned |-> FALSE]
  BY <1>2 DEF NoReputation
<1>5. r \in Reputation
  BY <1>1, <1>3, <1>4 DEF Reputation
<1>6. /\ reputations' = [reputations EXCEPT ![p] = r] /\ totalProvers' = totalProvers + 1
      /\ proversByTier' = [proversByTier EXCEPT ![0] = @ + 1] /\ UNCHANGED controlVars
      /\ ~ reputations[p].isRegistered
  BY <1>2 DEF register
<1>7. /\ reputations' \in [Provers -> Reputation] /\ reputations'[p] = r
      /\ \A q \in Provers : q # p => reputations'[q] = reputations[q]
  BY <1>1, <1>5, <1>6
<1>8. \A t \in Tiers : IsFiniteSet(InTier(t)) /\ Cardinality(InTier(t)) \in Nat /\ proversByTier[t] = Cardinality(InTier(t))
  <2>1. ASSUME NEW t \in Tiers PROVE IsFiniteSet(InTier(t))
    BY ProverAssumption, FS_Subset DEF InTier
  <2> QED
    BY <2>1, FS_CardinalityType DEF RepInv, TiersAddUp
<1>9. ASSUME NEW t \in Tiers PROVE proversByTier'[t] = Cardinality(InTier(t)')
  <2>1. CASE t = 0
    <3>1. InTier(t)' = InTier(t) \cup {p} /\ p \notin InTier(t)
      BY <1>4, <1>6, <1>7, <2>1 DEF InTier
    <3>2. Cardinality(InTier(t) \cup {p}) = Cardinality(InTier(t)) + 1
      BY <1>8, <3>1, FS_AddElement
    <3> QED
      BY <1>1, <1>6, <1>8, <2>1, <3>1, <3>2
  <2>2. CASE t # 0
    <3>1. InTier(t)' = InTier(t)
      BY <1>4, <1>6, <1>7, <2>2 DEF InTier
    <3> QED
      BY <1>1, <1>6, <1>8, <2>2, <3>1
  <2> QED
    BY <2>1, <2>2
<1>10. totalProvers' = Cardinality({q \in Provers : reputations'[q].isRegistered})
  <2>1. PICK S : S = {q \in Provers : reputations[q].isRegistered}
    OBVIOUS
  <2>2. IsFiniteSet(S) /\ p \notin S /\ totalProvers = Cardinality(S)
    BY <1>6, <2>1, ProverAssumption, FS_Subset DEF RepInv, TiersAddUp
  <2>3. {q \in Provers : reputations'[q].isRegistered} = S \cup {p}
    BY <1>4, <1>7, <2>1
  <2> QED
    BY <1>6, <2>2, <2>3, FS_AddElement
<1>11. ASSUME NEW q \in Provers
       PROVE  /\ reputations'[q].totalJobs = reputations'[q].completedJobs + reputations'[q].failedJobs
                                             + reputations'[q].abandonedJobs
              /\ reputations'[q].totalJobs > 0 \/ reputations'[q].isSlashed =>
                    reputations'[q].tier = calculateTier(reputations'[q].score)
  <2>1. CASE q = p
    BY <1>4, <1>7, <2>1
  <2>2. CASE q # p
    BY <1>7, <2>2 DEF RepInv, TiersAddUp
  <2> QED
    BY <2>1, <2>2
<1>12. TiersAddUp'
  BY <1>9, <1>10, <1>11 DEF TiersAddUp
<1>13. RepTypeOK'
  BY <1>1, <1>6, <1>7 DEF RepInv, RepTypeOK, controlVars
<1> QED
  BY <1>4, <1>7, <1>12, <1>13 DEF RepInv

(* A step that adds to the credit of a prover, and to nobody else's. *)
Credits(p, jobs, earnings) ==
    /\ RepInv'
    /\ reputations'[p].completedJobs = reputations[p].completedJobs + jobs
    /\ reputations'[p].totalEarnings = reputations[p].totalEarnings + earnings
    /\ \A q \in Provers : q # p => reputations'[q] = reputations[q]

(* A recorded success credits the prover with it. *)
LEMMA SuccessCredits ==
    ASSUME RepInv, NEW sender, NEW p \in Provers, NEW ms \in Nat, NEW earnings \in Nat,
           recordSuccess(sender, p, ms, earnings)
    PROVE  Credits(p, 1, earnings)
<1>1. PICK rep \in Reputation : rep = reputations[p]
  BY DEF RepInv, RepTypeOK
<1>2. PICK avg : avg = Average(rep, ms)
  OBVIOUS
<1>3. avg \in Nat
  BY <1>2 DEF Average, Reputation
<1>4. PICK score : score = Bounded(rep.score + Bonus(rep, ms))
  OBVIOUS
<1>5. score \in 0 .. MAX_SCORE
  <2>1. Bonus(rep, ms) \in Nat
    BY ScoreAssumption DEF Bonus
  <2>2. rep.score \in 0 .. MAX_SCORE /\ MAX_SCORE \in Nat
    BY ScoreAssumption DEF Reputation
  <2> QED
    BY <1>4, <2>1, <2>2 DEF Bounded
<1>6. PICK r : r = [rep EXCEPT !.totalJobs = @ + 1, !.completedJobs = @ + 1, !.totalEarnings = @ + earnings,
                               !.avgProofTimeMs = avg, !.score = score]
  OBVIOUS
<1>7. /\ r \in Reputation /\ r.isRegistered = rep.isRegistered /\ r.totalJobs = rep.totalJobs + 1
      /\ r.completedJobs = rep.completedJobs + 1 /\ r.failedJobs = rep.failedJobs
      /\ r.abandonedJobs = rep.abandonedJobs /\ r.totalEarnings = rep.totalEarnings + earnings
  <2>1. {rep.totalJobs, rep.completedJobs, rep.failedJobs, rep.abandonedJobs, rep.totalEarnings,
         rep.avgProofTimeMs} \subseteq Nat
        /\ rep.tier \in Tiers /\ {rep.isRegistered, rep.isSlashed, rep.isBanned} \subseteq BOOLEAN
    BY DEF Reputation
  <2>2. r = [totalJobs |-> rep.totalJobs + 1, completedJobs |-> rep.completedJobs + 1, failedJobs |-> rep.failedJobs,
             abandonedJobs |-> rep.abandonedJobs, totalEarnings |-> rep.totalEarnings + earnings, avgProofTimeMs |-> avg, score |-> score,
             tier |-> rep.tier, isRegistered |-> rep.isRegistered, isSlashed |-> rep.isSlashed,
             isBanned |-> rep.isBanned]
    BY <1>6 DEF Reputation
  <2>3. rep.totalJobs + 1 \in Nat /\ rep.completedJobs + 1 \in Nat /\ rep.totalEarnings + earnings \in Nat
    BY <2>1
  <2>4. r \in Reputation
    BY <1>3, <1>5, <2>1, <2>2, <2>3 DEF Reputation
  <2> QED
    BY <2>2, <2>4
<1>8. Update(p, r) /\ reputations[p].isRegistered /\ UNCHANGED controlVars
  BY <1>1, <1>2, <1>4, <1>6 DEF recordSuccess, Accepts
<1>9. r.totalJobs = r.completedJobs + r.failedJobs + r.abandonedJobs
  BY <1>1, <1>7 DEF RepInv, TiersAddUp, Reputation
<1>10. /\ reputations' \in [Provers -> Reputation] /\ totalProvers' \in Nat
       /\ proversByTier' \in [Tiers -> Nat] /\ TiersAddUp'
       /\ reputations'[p].completedJobs = r.completedJobs
       /\ reputations'[p].totalEarnings = r.totalEarnings
       /\ \A q \in Provers : q # p => reputations'[q] = reputations[q]
  BY <1>1, <1>7, <1>8, <1>9, UpdateKeepsBooks
<1>11. RepInv'
  BY <1>8, <1>10 DEF RepInv, RepTypeOK, controlVars
<1> QED
  BY <1>1, <1>7, <1>10, <1>11 DEF Credits

(* A recorded failure or abandoned job credits nobody. *)
LEMMA PenaltyCreditsNobody ==
    ASSUME RepInv, NEW sender, NEW p \in Provers, recordFailure(sender, p) \/ recordAbandon(sender, p)
    PROVE  Credits(p, 0, 0)
<1>1. PICK rep \in Reputation : rep = reputations[p]
  BY DEF RepInv, RepTypeOK
<1>2. PICK r : /\ Update(p, r)
               /\ \/ r = [rep EXCEPT !.totalJobs = @ + 1, !.failedJobs = @ + 1, !.score = Less(@, FAILURE_PENALTY)]
                  \/ r = [rep EXCEPT !.totalJobs = @ + 1, !.abandonedJobs = @ + 1, !.score = Less(@, ABANDON_PENALTY)]
  BY <1>1 DEF recordFailure, recordAbandon
<1>3. rep.score \in 0 .. MAX_SCORE
  BY DEF Reputation
<1>4. Less(rep.score, FAILURE_PENALTY) \in 0 .. MAX_SCORE /\ Less(rep.score, ABANDON_PENALTY) \in 0 .. MAX_SCORE
  BY <1>3, LessRange, ScoreAssumption
<1>5. /\ r \in Reputation /\ r.isRegistered = rep.isRegistered /\ r.completedJobs = rep.completedJobs
      /\ r.totalEarnings = rep.totalEarnings
      /\ rep.totalJobs = rep.completedJobs + rep.failedJobs + rep.abandonedJobs =>
             r.totalJobs = r.completedJobs + r.failedJobs + r.abandonedJobs
  <2>1. {rep.totalJobs, rep.completedJobs, rep.failedJobs, rep.abandonedJobs, rep.totalEarnings,
         rep.avgProofTimeMs} \subseteq Nat
        /\ rep.tier \in Tiers /\ {rep.isRegistered, rep.isSlashed, rep.isBanned} \subseteq BOOLEAN
    BY DEF Reputation
  <2>2. rep.totalJobs + 1 \in Nat /\ rep.failedJobs + 1 \in Nat /\ rep.abandonedJobs + 1 \in Nat
    BY <2>1
  <2>3. CASE r = [rep EXCEPT !.totalJobs = @ + 1, !.failedJobs = @ + 1, !.score = Less(@, FAILURE_PENALTY)]
    <3>1. r = [totalJobs |-> rep.totalJobs + 1, completedJobs |-> rep.completedJobs, failedJobs |-> rep.failedJobs + 1,
               abandonedJobs |-> rep.abandonedJobs, totalEarnings |-> rep.totalEarnings, avgProofTimeMs |-> rep.avgProofTimeMs, score |-> Less(rep.score, FAILURE_PENALTY),
               tier |-> rep.tier, isRegistered |-> rep.isRegistered, isSlashed |-> rep.isSlashed,
               isBanned |-> rep.isBanned]
      BY <2>3 DEF Reputation
    <3>2. r \in Reputation
      BY <1>4, <3>1, <2>1, <2>2 DEF Reputation
    <3> QED
      BY <2>1, <3>1, <3>2
  <2>4. CASE r = [rep EXCEPT !.totalJobs = @ + 1, !.abandonedJobs = @ + 1, !.score = Less(@, ABANDON_PENALTY)]
    <3>1. r = [totalJobs |-> rep.totalJobs + 1, completedJobs |-> rep.completedJobs, failedJobs |-> rep.failedJobs,
               abandonedJobs |-> rep.abandonedJobs + 1, totalEarnings |-> rep.totalEarnings, avgProofTimeMs |-> rep.avgProofTimeMs, score |-> Less(rep.score, ABANDON_PENALTY),
               tier |-> rep.tier, isRegistered |-> rep.isRegistered, isSlashed |-> rep.isSlashed,
               isBanned |-> rep.isBanned]
      BY <2>4 DEF Reputation
    <3>2. r \in Reputation
      BY <1>4, <3>1, <2>1, <2>2 DEF Reputation
    <3> QED
      BY <2>1, <3>1, <3>2
  <2> QED
    BY <1>2, <2>3, <2>4
<1>6. r.totalJobs = r.completedJobs + r.failedJobs + r.abandonedJobs
  BY <1>1, <1>5 DEF RepInv, TiersAddUp
<1>7. reputations[p].isRegistered /\ UNCHANGED controlVars
  BY DEF recordFailure, recordAbandon, Accepts
<1>8. /\ reputations' \in [Provers -> Reputation] /\ totalProvers' \in Nat
      /\ proversByTier' \in [Tiers -> Nat] /\ TiersAddUp'
      /\ reputations'[p].completedJobs = r.completedJobs
      /\ reputations'[p].totalEarnings = r.totalEarnings
      /\ \A q \in Provers : q # p => reputations'[q] = reputations[q]
  BY <1>1, <1>2, <1>5, <1>6, <1>7, UpdateKeepsBooks
<1>9. RepInv'
  BY <1>7, <1>8 DEF RepInv, RepTypeOK, controlVars
<1>10. rep.completedJobs \in Nat /\ rep.totalEarnings \in Nat
  BY DEF Reputation
<1> QED
  BY <1>1, <1>5, <1>8, <1>9, <1>10 DEF Credits

(* Nor does a slash. *)
LEMMA SlashCreditsNobody ==
    ASSUME RepInv, now \in Nat, NEW p \in Provers, NEW bps \in Penalties, slash(p, bps, now)
    PROVE  Credits(p, 0, 0)
<1>1. PICK rep \in Reputation : rep = reputations[p]
  BY DEF RepInv, RepTypeOK
<1>2. rep.score \in 0 .. MAX_SCORE /\ rep.isBanned \in BOOLEAN /\ MAX_SCORE \in Nat /\ bps \in Nat
  BY ScoreAssumption, ArgumentAssumption DEF Reputation
<1>3. (rep.score * bps) \div 10000 \in Nat
  <2>1. PICK x \in Nat : x = rep.score * bps
    BY <1>2
  <2> QED
    BY <2>1
<1>4. PICK score : score = Less(rep.score, (rep.score * bps) \div 10000)
  OBVIOUS
<1>5. score \in 0 .. MAX_SCORE
  <2>1. PICK x \in Nat : x = (rep.score * bps) \div 10000
    BY <1>3
  <2>2. Less(rep.score, x) \in 0 .. MAX_SCORE
    BY <1>2, LessRange
  <2> QED
    BY <1>4, <2>1, <2>2
<1>6. PICK r : r = [rep EXCEPT !.isSlashed = TRUE, !.score = score, !.isBanned = @ \/ score = 0]
  OBVIOUS
<1>7. (rep.isBanned \/ score = 0) \in BOOLEAN
  BY <1>2
<1>8. /\ r \in Reputation /\ r.isRegistered = rep.isRegistered /\ r.completedJobs = rep.completedJobs
      /\ r.totalEarnings = rep.totalEarnings /\ r.totalJobs = rep.totalJobs
      /\ r.failedJobs = rep.failedJobs /\ r.abandonedJobs = rep.abandonedJobs
  BY <1>5, <1>6, <1>7 DEF Reputation
<1>9. /\ Update(p, r) /\ reputations[p].isRegistered /\ lastSlash' = [lastSlash EXCEPT ![p] = now]
      /\ UNCHANGED <<authorizedReporters, slashCooldown, repPaused>>
  BY <1>1, <1>4, <1>6 DEF slash
<1>10. r.totalJobs = r.completedJobs + r.failedJobs + r.abandonedJobs
  BY <1>1, <1>8 DEF RepInv, TiersAddUp
<1>11. /\ reputations' \in [Provers -> Reputation] /\ totalProvers' \in Nat
       /\ proversByTier' \in [Tiers -> Nat] /\ TiersAddUp'
       /\ reputations'[p].completedJobs = r.completedJobs
       /\ reputations'[p].totalEarnings = r.totalEarnings
       /\ \A q \in Provers : q # p => reputations'[q] = reputations[q]
  BY <1>1, <1>8, <1>9, <1>10, UpdateKeepsBooks
<1>12. RepInv'
  BY <1>9, <1>11 DEF RepInv, RepTypeOK
<1>13. rep.completedJobs \in Nat /\ rep.totalEarnings \in Nat
  BY DEF Reputation
<1> QED
  BY <1>1, <1>8, <1>11, <1>12, <1>13 DEF Credits

(* Nor do the owner's other transactions. *)
LEMMA ControlCreditsNobody ==
    ASSUME RepInv,
           \/ \E p \in Provers, banned \in BOOLEAN : setBanned(p, banned)
           \/ \E authorized \in BOOLEAN : setReporter(Engine, authorized)
           \/ \E p \in BOOLEAN : setRepPaused(p)
           \/ \E cooldown \in Cooldowns : setSlashCooldown(cooldown)
    PROVE  /\ RepInv'
           /\ \A q \in Provers : /\ reputations'[q].completedJobs = reputations[q].completedJobs
                                 /\ reputations'[q].totalEarnings = reputations[q].totalEarnings
<1>1. reputations \in [Provers -> Reputation] /\ RepTypeOK
  BY DEF RepInv, RepTypeOK
<1>2. ASSUME NEW p \in Provers, NEW banned \in BOOLEAN, setBanned(p, banned)
      PROVE  /\ RepTypeOK' /\ UNCHANGED <<totalProvers, proversByTier>>
             /\ \A q \in Provers : \/ reputations'[q] = reputations[q]
                                   \/ \E b \in BOOLEAN : reputations'[q] = [reputations[q] EXCEPT !.isBanned = b]
  <2>1. reputations' = [reputations EXCEPT ![p].isBanned = banned] /\ UNCHANGED <<totalProvers, proversByTier, controlVars>>
    BY <1>2 DEF setBanned
  <2>2. [reputations[p] EXCEPT !.isBanned = banned] \in Reputation
    BY <1>1 DEF Reputation
  <2>3. reputations' \in [Provers -> Reputation]
    BY <1>1, <2>1, <2>2
  <2>4. RepTypeOK'
    BY <1>1, <2>1, <2>3 DEF RepTypeOK, controlVars
  <2>5. reputations'[p] = [reputations[p] EXCEPT !.isBanned = banned]
        /\ \A q \in Provers : q # p => reputations'[q] = reputations[q]
    BY <1>1, <2>1
  <2> QED
    BY <2>1, <2>4, <2>5
<1>3. ASSUME \/ \E authorized \in BOOLEAN : setReporter(Engine, authorized)
             \/ \E p \in BOOLEAN : setRepPaused(p)
             \/ \E cooldown \in Cooldowns : setSlashCooldown(cooldown)
      PROVE  RepTypeOK' /\ UNCHANGED recordVars
  BY <1>1, <1>3 DEF setReporter, setRepPaused, setSlashCooldown, RepTypeOK, recordVars
<1>4. /\ RepTypeOK' /\ UNCHANGED <<totalProvers, proversByTier>>
      /\ \A q \in Provers : \/ reputations'[q] = reputations[q]
                            \/ \E b \in BOOLEAN : reputations'[q] = [reputations[q] EXCEPT !.isBanned = b]
  BY <1>2, <1>3 DEF recordVars
<1>5. TiersAddUp'
  BY <1>4, SameBooks DEF RepTypeOK
<1>6. \A q \in Provers : /\ reputations'[q].completedJobs = reputations[q].completedJobs
                         /\ reputations'[q].totalEarnings = reputations[q].totalEarnings
  BY <1>1, <1>4 DEF Reputation
<1> QED
  BY <1>4, <1>5, <1>6 DEF RepInv

----------------------------------------------------------------------------
(* Both contracts *)

(* A running claim has a claimant, and was made in the past. *)
Named(id) == requests[id].status = "Claimed" => requests[id].claimedBy \in Accounts /\ requests[id].claimedAt <= now

(* Claims keep their claimants. *)
LEMMA ClaimantsKept ==
    ASSUME Inv, Inv', \A id \in RequestIds : Named(id), [Next]_vars
    PROVE  \A id \in RequestIds : Named(id)'
<1> SUFFICES ASSUME NEW q \in RequestIds PROVE Named(q)'
  OBVIOUS
<1>1. /\ requests \in [RequestIds -> Request] /\ now \in Nat /\ requests[q].claimedAt \in Nat
      /\ requests[q].status = "Claimed" => requests[q].claimedBy \in Accounts /\ requests[q].claimedAt <= now
  BY DEF Inv, TypeOK, Named, Request
<1>2. ASSUME requests'[q] = requests[q], now' \in Nat, now' >= now PROVE Named(q)'
  BY <1>1, <1>2 DEF Named
<1>3. CASE Tick
  BY <1>1, <1>2, <1>3 DEF Tick
<1>4. CASE AdminNext \/ UNCHANGED vars
  BY <1>1, <1>2, <1>4 DEF AdminNext, Configure, pause, unpause, setProtocolFee, setFeeRecipient, setReputation,
                          setProgramActive, vars
<1>5. ASSUME NEW a \in Accounts, NEW value \in Tips, NEW seconds \in Expirations, requestExecution(a, value, seconds)
      PROVE  Named(q)'
  <2>1. CASE q = nextRequestId
    <3>1. requests'[q].status = "Pending"
      BY <1>1, <1>5, <2>1 DEF requestExecution
    <3> QED
      BY <3>1 DEF Named
  <2>2. CASE q # nextRequestId
    BY <1>1, <1>2, <1>5, <2>2 DEF requestExecution
  <2> QED
    BY <2>1, <2>2
<1>6. ASSUME NEW a \in Accounts, NEW id \in RequestIds, claimExecution(a, id) PROVE Named(q)'
  <2>1. CASE q = id
    <3>1. requests'[q].claimedBy = a /\ requests'[q].claimedAt = now /\ now' = now
      BY <1>1, <1>6, <2>1 DEF claimExecution, Request
    <3> QED
      BY <1>1, <3>1 DEF Named
  <2>2. CASE q # id
    BY <1>1, <1>2, <1>6, <2>2 DEF claimExecution
  <2> QED
    BY <2>1, <2>2
<1>7. ASSUME NEW id \in RequestIds, NEW a \in Accounts,
             cancelExecution(a, id) \/ submitProof(a, id) \/ reportBadProof(id)
      PROVE  Named(q)'
  <2>1. CASE q = id
    <3>1. requests'[q].status \in {"Cancelled", "Completed", "Pending"}
      BY <1>1, <1>7, <2>1 DEF cancelExecution, submitProof, reportBadProof, Request
    <3> QED
      BY <3>1 DEF Named
  <2>2. CASE q # id
    BY <1>1, <1>2, <1>7, <2>2 DEF cancelExecution, submitProof, reportBadProof
  <2> QED
    BY <2>1, <2>2
<1>8. ASSUME NEW id \in RequestIds, reportBadProof(id) PROVE Named(q)'
  <2>1. PICK a \in Accounts : a = feeRecipient
    BY DEF Inv, TypeOK
  <2>2. cancelExecution(a, id) \/ submitProof(a, id) \/ reportBadProof(id)
    BY <1>8
  <2> QED
    BY <1>7, <2>2
<1> QED
  BY <1>3, <1>4, <1>5, <1>6, <1>7, <1>8 DEF Next

RatedInv ==
    /\ RepInv /\ CreditsAreEarned /\ byHand \in Nat
    /\ \A id \in RequestIds : Named(id)

(* A step that leaves the reputation contract alone and takes nothing from *)
(* what the engine has paid.                                               *)
LEMMA NoCredit ==
    ASSUME TypeOK, RepInv, CreditsAreEarned, byHand \in Nat, RepInv',
           \A q \in Accounts : /\ reputations'[q].completedJobs = reputations[q].completedJobs
                               /\ reputations'[q].totalEarnings = reputations[q].totalEarnings,
           UNCHANGED statVars, byHand' \in Nat, byHand' >= byHand
    PROVE  CreditsAreEarned'
<1> SUFFICES ASSUME NEW q \in Accounts
             PROVE  /\ reputations'[q].completedJobs <= proverCompletedCount'[q] + byHand'
                    /\ reputations'[q].totalEarnings <= proverEarnings'[q] + byHand' * HandEarnings
  BY DEF CreditsAreEarned
<1>1. /\ proverCompletedCount[q] \in Nat /\ proverEarnings[q] \in Nat /\ UNCHANGED <<proverCompletedCount, proverEarnings>>
      /\ HandEarnings \in Nat
  BY ArgumentAssumption DEF TypeOK, statVars
<1>2. reputations[q].completedJobs \in Nat /\ reputations[q].totalEarnings \in Nat
  BY SameAccounts DEF RepInv, RepTypeOK, Reputation
<1>3. /\ reputations[q].completedJobs <= proverCompletedCount[q] + byHand
      /\ reputations[q].totalEarnings <= proverEarnings[q] + byHand * HandEarnings
  BY DEF CreditsAreEarned
<1>4. /\ byHand * HandEarnings \in Nat /\ byHand' * HandEarnings \in Nat
      /\ byHand * HandEarnings <= byHand' * HandEarnings
  <2>1. HandEarnings * byHand \in Nat /\ HandEarnings * byHand' \in Nat /\ HandEarnings * byHand <= HandEarnings * byHand'
    BY <1>1, ProductMonotone
  <2>2. \A x, y \in Nat : x * y = y * x
    OBVIOUS
  <2> QED
    BY <1>1, <2>1, <2>2
<1> QED
  BY <1>1, <1>2, <1>3, <1>4

(* A report the engine makes about a claimant, or its refusal. *)
LEMMA TryPenalty ==
    ASSUME RepInv, NEW p \in Accounts,
           Try(recordAbandon(Engine, p), p) \/ Try(recordFailure(Engine, p), p)
    PROVE  /\ RepInv'
           /\ \A q \in Accounts : /\ reputations'[q].completedJobs = reputations[q].completedJobs
                                  /\ reputations'[q].totalEarnings = reputations[q].totalEarnings
<1>1. CASE UNCHANGED repVars
  <2>1. UNCHANGED <<reputations, totalProvers, proversByTier, lastSlash, authorizedReporters, slashCooldown, repPaused>>
    BY <1>1 DEF repVars, recordVars, controlVars
  <2> QED
    BY <2>1 DEF RepInv, RepTypeOK, TiersAddUp, InTier
<1>2. CASE recordAbandon(Engine, p) \/ recordFailure(Engine, p)
  <2>1. Credits(p, 0, 0)
    BY <1>2, PenaltyCreditsNobody, SameAccounts
  <2>2. reputations[p].completedJobs \in Nat /\ reputations[p].totalEarnings \in Nat
    BY SameAccounts DEF RepInv, RepTypeOK, Reputation
  <2> QED
    BY <2>1, <2>2, SameAccounts DEF Credits
<1> QED
  BY <1>1, <1>2 DEF Try

(* A proof credits its prover with what the engine pays for it, if at all. *)
LEMMA ProofKeepsCredits ==
    ASSUME Inv, RatedInv, NEW a \in Accounts, NEW id \in RequestIds, ProofStep(a, id), byHand' = byHand
    PROVE  RepInv' /\ CreditsAreEarned'
<1>1. TypeOK /\ requests[id].createdAt <= now
  BY DEF Inv, RequestInv, Stored
<1>2. /\ proverCompletedCount \in [Accounts -> Nat] /\ proverEarnings \in [Accounts -> Nat] /\ now \in Nat
      /\ requests[id].claimedAt \in Nat /\ requests[id].tip \in Nat /\ byHand \in Nat /\ HandEarnings \in Nat
  BY <1>1, ArgumentAssumption DEF TypeOK, Request, RatedInv
<1>3. PICK share : share = Earned(id)
  OBVIOUS
<1>4. share \in Nat
  <2>1. PICK payout \in Nat : payout = calculatePayout(requests[id])
    BY <1>1, PayoutRange
  <2> QED
    BY <1>1, <1>3, <2>1, SharesAddUp DEF Earned
<1>5. /\ proverCompletedCount' = [proverCompletedCount EXCEPT ![a] = @ + 1]
      /\ proverEarnings' = [proverEarnings EXCEPT ![a] = @ + share]
      /\ requests[id].status = "Claimed"
  BY <1>3 DEF ProofStep, submitProof, RecordEarnings, Earned
<1>6. PICK ms \in Nat : ms = (now - requests[id].claimedAt) * 1000
  <2>1. requests[id].claimedAt <= now
    BY <1>5 DEF RatedInv, Named
  <2> QED
    BY <1>2, <2>1
<1>7. \/ UNCHANGED repVars
      \/ recordSuccess(Engine, a, ms, share)
  BY <1>3, <1>6 DEF ProofStep, Try, Quiet
<1>8. \A q \in Accounts : reputations[q].completedJobs \in Nat /\ reputations[q].totalEarnings \in Nat
  BY SameAccounts DEF RatedInv, RepInv, RepTypeOK, Reputation
<1>9. /\ RepInv'
      /\ \A q \in Accounts :
            /\ reputations'[q].completedJobs \in Nat /\ reputations'[q].totalEarnings \in Nat
            /\ q # a => reputations'[q].completedJobs = reputations[q].completedJobs
                        /\ reputations'[q].totalEarnings = reputations[q].totalEarnings
            /\ reputations'[q].completedJobs <= reputations[q].completedJobs + 1
            /\ reputations'[q].totalEarnings <= reputations[q].totalEarnings + share
  <2>1. CASE UNCHANGED repVars
    <3>1. UNCHANGED <<reputations, totalProvers, proversByTier, lastSlash, authorizedReporters, slashCooldown, repPaused>>
      BY <2>1 DEF repVars, recordVars, controlVars
    <3>2. RepInv'
      BY <3>1 DEF RatedInv, RepInv, RepTypeOK, TiersAddUp, InTier
    <3> QED
      BY <1>4, <1>8, <3>1, <3>2
  <2>2. CASE recordSuccess(Engine, a, ms, share)
    <3>1. Credits(a, 1, share)
      BY <1>4, <2>2, SuccessCredits, SameAccounts DEF RatedInv
    <3> QED
      BY <1>4, <1>8, <3>1, SameAccounts DEF Credits
  <2> QED
    BY <1>7, <2>1, <2>2
<1>10. byHand * HandEarnings \in Nat
  BY <1>2
<1>11. PICK hand \in Nat : hand = byHand * HandEarnings
  BY <1>10
<1>12. ASSUME NEW q \in Accounts
       PROVE  /\ reputations'[q].completedJobs <= proverCompletedCount'[q] + byHand'
              /\ reputations'[q].totalEarnings <= proverEarnings'[q] + byHand' * HandEarnings
  <2>1. /\ reputations[q].completedJobs <= proverCompletedCount[q] + byHand
        /\ reputations[q].totalEarnings <= proverEarnings[q] + hand
    BY <1>11 DEF RatedInv, CreditsAreEarned
  <2>2. CASE q = a
    <3>1. proverCompletedCount'[q] = proverCompletedCount[q] + 1 /\ proverEarnings'[q] = proverEarnings[q] + share
      BY <1>2, <1>5, <2>2
    <3> QED
      BY <1>2, <1>4, <1>8, <1>9, <1>11, <2>1, <3>1
  <2>3. CASE q # a
    <3>1. proverCompletedCount'[q] = proverCompletedCount[q] /\ proverEarnings'[q] = proverEarnings[q]
      BY <1>2, <1>5, <2>3
    <3> QED
      BY <1>9, <1>11, <2>1, <2>3, <3>1
  <2> QED
    BY <2>2, <2>3
<1> QED
  BY <1>9, <1>12 DEF CreditsAreEarned

(* What the owner records by hand is accounted for. *)
LEMMA HandKeepsCredits ==
    ASSUME TypeOK, RatedInv, NEW p \in Accounts, ByHand(p), UNCHANGED statVars
    PROVE  RepInv' /\ CreditsAreEarned' /\ byHand' \in Nat
<1>1. /\ proverCompletedCount \in [Accounts -> Nat] /\ proverEarnings \in [Accounts -> Nat]
      /\ byHand \in Nat /\ HandEarnings \in Nat /\ byHand' = byHand + 1
      /\ UNCHANGED <<proverCompletedCount, proverEarnings>>
  BY ArgumentAssumption DEF TypeOK, RatedInv, ByHand, statVars
<1>2. CASE recordFailure(RepOwner, p) \/ recordAbandon(RepOwner, p)
  <2>1. Credits(p, 0, 0)
    BY <1>2, PenaltyCreditsNobody, SameAccounts DEF RatedInv
  <2>2. reputations[p].completedJobs \in Nat /\ reputations[p].totalEarnings \in Nat
    BY SameAccounts DEF RatedInv, RepInv, RepTypeOK, Reputation
  <2>3. RepInv' /\ \A q \in Accounts : /\ reputations'[q].completedJobs = reputations[q].completedJobs
                                       /\ reputations'[q].totalEarnings = reputations[q].totalEarnings
    BY <2>1, <2>2, SameAccounts DEF Credits
  <2>4. CreditsAreEarned'
    BY <1>1, <2>3, NoCredit DEF RatedInv
  <2> QED
    BY <1>1, <2>3, <2>4
<1>3. CASE recordSuccess(RepOwner, p, 1000, HandEarnings)
  <2>1. Credits(p, 1, HandEarnings)
    BY <1>1, <1>3, SuccessCredits, SameAccounts DEF RatedInv
  <2>2. \A q \in Accounts : reputations[q].completedJobs \in Nat /\ reputations[q].totalEarnings \in Nat
    BY SameAccounts DEF RatedInv, RepInv, RepTypeOK, Reputation
  <2>3. PICK hand \in Nat : hand = byHand * HandEarnings
    BY <1>1
  <2>4. byHand' * HandEarnings = hand + HandEarnings
    BY <1>1, <2>3
  <2>5. ASSUME NEW q \in Accounts
        PROVE  /\ reputations'[q].completedJobs <= proverCompletedCount'[q] + byHand'
               /\ reputations'[q].totalEarnings <= proverEarnings'[q] + byHand' * HandEarnings
    <3>1. /\ reputations[q].completedJobs <= proverCompletedCount[q] + byHand
          /\ reputations[q].totalEarnings <= proverEarnings[q] + hand
      BY <2>3 DEF RatedInv, CreditsAreEarned
    <3>2. CASE q = p
      BY <1>1, <2>1, <2>2, <2>4, <3>1, <3>2 DEF Credits
    <3>3. CASE q # p
      BY <1>1, <2>1, <2>2, <2>4, <3>1, <3>3, SameAccounts DEF Credits
    <3> QED
      BY <3>2, <3>3
  <2> QED
    BY <1>1, <2>1, <2>5 DEF Credits, CreditsAreEarned
<1> QED
  BY <1>2, <1>3 DEF ByHand

(* Every step keeps the books of the reputation contract, and its credits  *)
(* below what the engine has paid.                                         *)
LEMMA NextKeepsBooks == Inv /\ Inv' /\ RatedInv /\ [RatedNext]_ratedVars => RatedInv'
<1> SUFFICES ASSUME Inv, Inv', RatedInv, [RatedNext]_ratedVars PROVE RatedInv'
  OBVIOUS
<1>1. \A id \in RequestIds : Named(id)'
  BY EngineStepOrNone, ClaimantsKept DEF RatedInv
<1>2. TypeOK /\ RepInv /\ CreditsAreEarned /\ byHand \in Nat
  BY DEF Inv, RatedInv
<1>3. ASSUME UNCHANGED <<repVars, statVars, byHand>> PROVE RatedInv'
  <2>1. UNCHANGED <<reputations, totalProvers, proversByTier, lastSlash, authorizedReporters, slashCooldown, repPaused>>
    BY <1>3 DEF repVars, recordVars, controlVars
  <2>2. RepInv'
    BY <1>2, <2>1 DEF RepInv, RepTypeOK, TiersAddUp, InTier
  <2>3. CreditsAreEarned'
    BY <1>2, <1>3, <2>1, <2>2, NoCredit
  <2> QED
    BY <1>1, <1>2, <1>3, <2>2, <2>3 DEF RatedInv
<1>4. CASE UNCHANGED ratedVars
  BY <1>3, <1>4 DEF ratedVars, vars
<1>5. CASE QuietStep /\ UNCHANGED byHand
  <2>1. UNCHANGED statVars
    BY <1>5 DEF QuietStep, Tick, AdminNext, Configure, pause, unpause, setProtocolFee, setFeeRecipient,
                setReputation, setProgramActive, requestExecution, cancelExecution
  <2> QED
    BY <1>3, <1>5, <2>1 DEF QuietStep, Quiet
<1>6. ASSUME NEW a \in Accounts, NEW id \in RequestIds, ClaimStep(a, id), UNCHANGED byHand PROVE RatedInv'
  <2>1. UNCHANGED statVars
    BY <1>6 DEF ClaimStep, claimExecution
  <2>2. CASE Quiet
    BY <1>3, <1>6, <2>1, <2>2 DEF Quiet
  <2>3. CASE requests[id].status = "Claimed" /\ Try(recordAbandon(Engine, requests[id].claimedBy), requests[id].claimedBy)
    <3>1. requests[id].claimedBy \in Accounts
      BY <2>3 DEF RatedInv, Named
    <3>2. /\ RepInv'
          /\ \A q \in Accounts : /\ reputations'[q].completedJobs = reputations[q].completedJobs
                                 /\ reputations'[q].totalEarnings = reputations[q].totalEarnings
      BY <1>2, <2>3, <3>1, TryPenalty
    <3>3. CreditsAreEarned'
      BY <1>2, <1>6, <2>1, <3>2, NoCredit
    <3> QED
      BY <1>1, <1>2, <1>6, <3>2, <3>3 DEF RatedInv
  <2> QED
    BY <1>6, <2>2, <2>3 DEF ClaimStep
<1>7. ASSUME NEW a \in Accounts, NEW id \in RequestIds, ProofStep(a, id), UNCHANGED byHand PROVE RatedInv'
  BY <1>1, <1>2, <1>7, ProofKeepsCredits DEF RatedInv
<1>8. ASSUME NEW id \in RequestIds, ReportStep(id), UNCHANGED byHand PROVE RatedInv'
  <2>1. UNCHANGED statVars /\ requests[id].status = "Claimed"
        /\ Try(recordFailure(Engine, requests[id].claimedBy), requests[id].claimedBy)
    BY <1>8 DEF ReportStep, reportBadProof
  <2>2. requests[id].claimedBy \in Accounts
    BY <2>1 DEF RatedInv, Named
  <2>3. /\ RepInv'
        /\ \A q \in Accounts : /\ reputations'[q].completedJobs = reputations[q].completedJobs
                               /\ reputations'[q].totalEarnings = reputations[q].totalEarnings
    BY <1>2, <2>1, <2>2, TryPenalty
  <2>4. CreditsAreEarned'
    BY <1>2, <1>8, <2>1, <2>3, NoCredit
  <2> QED
    BY <1>1, <1>2, <1>8, <2>3, <2>4 DEF RatedInv
<1>9. CASE ReputationStep
  <2>1. UNCHANGED statVars
    BY <1>9 DEF ReputationStep, vars
  <2>2. \A q \in Accounts : reputations[q].completedJobs \in Nat /\ reputations[q].totalEarnings \in Nat
    BY <1>2, SameAccounts DEF RepInv, RepTypeOK, Reputation
  <2>3. ASSUME NEW p \in Accounts, register(p), UNCHANGED byHand PROVE RatedInv'
    <3>1. /\ RepInv' /\ reputations'[p].completedJobs = 0 /\ reputations'[p].totalEarnings = 0
          /\ \A q \in Accounts : q # p => reputations'[q] = reputations[q]
      BY <1>2, <2>3, RegisterKeepsBooks, SameAccounts
    <3>2. /\ proverCompletedCount \in [Accounts -> Nat] /\ proverEarnings \in [Accounts -> Nat]
          /\ byHand * HandEarnings \in Nat /\ UNCHANGED <<proverCompletedCount, proverEarnings>>
      BY <1>2, <2>1, ArgumentAssumption DEF TypeOK, statVars
    <3>3. CreditsAreEarned'
      <4> SUFFICES ASSUME NEW q \in Accounts
                   PROVE  /\ reputations'[q].completedJobs <= proverCompletedCount'[q] + byHand'
                          /\ reputations'[q].totalEarnings <= proverEarnings'[q] + byHand' * HandEarnings
        BY DEF CreditsAreEarned
      <4>1. CASE q = p
        BY <1>2, <2>3, <3>1, <3>2, <4>1
      <4>2. CASE q # p
        BY <1>2, <2>3, <3>1, <3>2, <4>2 DEF CreditsAreEarned
      <4> QED
        BY <4>1, <4>2
    <3> QED
      BY <1>1, <1>2, <2>3, <3>1, <3>3 DEF RatedInv
  <2>4. ASSUME NEW p \in Accounts, ByHand(p) PROVE RatedInv'
    BY <1>1, <1>2, <2>1, <2>4, HandKeepsCredits DEF RatedInv
  <2>5. ASSUME UNCHANGED byHand, RepInv',
               \A q \in Accounts : /\ reputations'[q].completedJobs = reputations[q].completedJobs
                                   /\ reputations'[q].totalEarnings = reputations[q].totalEarnings
        PROVE  RatedInv'
    <3>1. CreditsAreEarned'
      BY <1>2, <2>1, <2>5, NoCredit
    <3> QED
      BY <1>1, <1>2, <2>5, <3>1 DEF RatedInv
  <2>6. ASSUME NEW p \in Accounts, NEW bps \in Penalties, slash(p, bps, now), UNCHANGED byHand PROVE RatedInv'
    <3>1. Credits(p, 0, 0)
      BY <1>2, <2>6, SlashCreditsNobody, SameAccounts DEF TypeOK
    <3> QED
      BY <2>2, <2>5, <2>6, <3>1, SameAccounts DEF Credits
  <2>7. ASSUME \/ \E p \in Accounts, banned \in BOOLEAN : setBanned(p, banned)
               \/ \E authorized \in BOOLEAN : setReporter(Engine, authorized)
               \/ \E p \in BOOLEAN : setRepPaused(p)
               \/ \E cooldown \in Cooldowns : setSlashCooldown(cooldown),
               UNCHANGED byHand
        PROVE  RatedInv'
    BY <1>2, <2>5, <2>7, ControlCreditsNobody, SameAccounts
  <2> QED
    BY <1>9, <2>3, <2>4, <2>6, <2>7 DEF ReputationStep, OwnerStep
<1> QED
  BY <1>4, <1>5, <1>6, <1>7, <1>8, <1>9 DEF RatedNext, EngineStep

(* The inductive invariant of the two contracts together.                  *)
THEOREM RatedInvariant == RatedSpec => [](Inv /\ RatedInv)
<1>1. RatedSpec => []Inv
  BY ReputationNeverInterferes, EngineInvariant, PTL
<1>2. RatedInit => RatedInv
  <2> SUFFICES ASSUME RatedInit PROVE RatedInv
    OBVIOUS
  <2>1. NoReputation \in Reputation
    BY ScoreAssumption DEF NoReputation, Reputation, Tiers
  <2>2. RepTypeOK
    BY <2>1, ScoreAssumption DEF RatedInit, RepInit, RepTypeOK
  <2>3. \A t \in Tiers : InTier(t) = {}
    BY DEF RatedInit, RepInit, InTier, NoReputation
  <2>4. {q \in Provers : reputations[q].isRegistered} = {}
    BY DEF RatedInit, RepInit, NoReputation
  <2>5. TiersAddUp
    <3>1. Cardinality({}) = 0
      BY FS_EmptySet
    <3>2. \A t \in Tiers : proversByTier[t] = Cardinality(InTier(t))
      BY <2>3, <3>1 DEF RatedInit, RepInit
    <3>3. totalProvers = Cardinality({q \in Provers : reputations[q].isRegistered})
      BY <2>4, <3>1 DEF RatedInit, RepInit
    <3>4. \A p \in Provers : reputations[p] = NoReputation
      BY DEF RatedInit, RepInit
    <3>5. \A p \in Provers : /\ reputations[p].totalJobs = 0 /\ ~ reputations[p].isSlashed
                             /\ reputations[p].completedJobs + reputations[p].failedJobs
                                   + reputations[p].abandonedJobs = 0
      BY <3>4 DEF NoReputation
    <3> QED
      BY <3>2, <3>3, <3>5 DEF TiersAddUp
  <2>6. CreditsAreEarned
    <3> SUFFICES ASSUME NEW p \in Accounts
                 PROVE  /\ reputations[p].completedJobs <= proverCompletedCount[p] + byHand
                        /\ reputations[p].totalEarnings <= proverEarnings[p] + byHand * HandEarnings
      BY DEF CreditsAreEarned
    <3>1. reputations[p].completedJobs = 0 /\ reputations[p].totalEarnings = 0
      BY SameAccounts DEF RatedInit, RepInit, NoReputation
    <3>2. proverCompletedCount[p] = 0 /\ proverEarnings[p] = 0 /\ byHand = 0
      BY DEF RatedInit, Init
    <3> QED
      BY <3>1, <3>2, ArgumentAssumption
  <2>7. \A id \in RequestIds : Named(id)
    BY DEF RatedInit, Init, Named, NoRequest
  <2> QED
    BY <2>2, <2>5, <2>6, <2>7 DEF RatedInit, RatedInv, RepInv
<1> QED
  BY <1>1, <1>2, NextKeepsBooks, PTL DEF RatedSpec

(* The counts by tier are exact for any number of provers, so that the     *)
(* decrement of _updateTier never underflows and makes a report revert,    *)
(* and no score leaves its range.                                          *)
THEOREM ExactTiers == RatedSpec => [](RepTypeOK /\ TiersAddUp)
  BY RatedInvariant, PTL DEF RatedInv, RepInv

(* No record credits a prover with proofs or earnings the engine did not   *)
(* pay for (submitProof, recordSuccess), apart from records by hand.       *)
THEOREM EarnedCredits == RatedSpec => []CreditsAreEarned
  BY RatedInvariant, PTL DEF RatedInv

----------------------------------------------------------------------------
(* One record or one refusal for each report *)

Unregistered(p) == ~ reputations[p].isRegistered => reputations[p].totalJobs = 0

(* What the reputation contract has on record, and what it refused, is     *)
(* what the engine reported and the owner entered.                         *)
Ledger ==
    /\ refused \in Nat
    /\ \A p \in Accounts : Unregistered(p)
    /\ Total(Jobs) + refused = Total(reports) + byHand

(* A step that counts n more jobs of a prover, and none of anybody else. *)
Counts(p, n) ==
    /\ reputations'[p].isRegistered
    /\ reputations'[p].totalJobs = reputations[p].totalJobs + n
    /\ \A q \in Provers : q # p => reputations'[q] = reputations[q]

(* Every record counts one job. *)
LEMMA RecordCounts ==
    ASSUME RepInv, NEW sender, NEW p \in Provers, NEW ms, NEW earnings,
           recordSuccess(sender, p, ms, earnings) \/ recordFailure(sender, p) \/ recordAbandon(sender, p)
    PROVE  Counts(p, 1)
<1>1. PICK rep \in Reputation : rep = reputations[p]
  BY DEF RepInv, RepTypeOK
<1>2. reputations \in [Provers -> Reputation] /\ rep.isRegistered
  BY <1>1 DEF RepInv, RepTypeOK, recordSuccess, recordFailure, recordAbandon, Accepts
<1>3. PICK r : Update(p, r) /\ r.totalJobs = rep.totalJobs + 1 /\ r.isRegistered = rep.isRegistered
               /\ DOMAIN r = DOMAIN rep
  <2>1. CASE recordSuccess(sender, p, ms, earnings)
    <3>1. PICK avg : avg = Average(rep, ms)
      OBVIOUS
    <3>2. PICK score : score = Bounded(rep.score + Bonus(rep, ms))
      OBVIOUS
    <3>3. PICK r : r = [rep EXCEPT !.totalJobs = @ + 1, !.completedJobs = @ + 1, !.totalEarnings = @ + earnings,
                                   !.avgProofTimeMs = avg, !.score = score]
      OBVIOUS
    <3>4. Update(p, r)
      BY <1>1, <2>1, <3>1, <3>2, <3>3 DEF recordSuccess
    <3>5. r.totalJobs = rep.totalJobs + 1 /\ r.isRegistered = rep.isRegistered /\ DOMAIN r = DOMAIN rep
      BY <3>3 DEF Reputation
    <3> QED
      BY <3>4, <3>5
  <2>2. CASE recordFailure(sender, p)
    <3>1. PICK score : score = Less(rep.score, FAILURE_PENALTY)
      OBVIOUS
    <3>2. PICK r : r = [rep EXCEPT !.totalJobs = @ + 1, !.failedJobs = @ + 1, !.score = score]
      OBVIOUS
    <3>3. Update(p, r)
      BY <1>1, <2>2, <3>1, <3>2 DEF recordFailure
    <3>4. r.totalJobs = rep.totalJobs + 1 /\ r.isRegistered = rep.isRegistered /\ DOMAIN r = DOMAIN rep
      BY <3>2 DEF Reputation
    <3> QED
      BY <3>3, <3>4
  <2>3. CASE recordAbandon(sender, p)
    <3>1. PICK score : score = Less(rep.score, ABANDON_PENALTY)
      OBVIOUS
    <3>2. PICK r : r = [rep EXCEPT !.totalJobs = @ + 1, !.abandonedJobs = @ + 1, !.score = score]
      OBVIOUS
    <3>3. Update(p, r)
      BY <1>1, <2>3, <3>1, <3>2 DEF recordAbandon
    <3>4. r.totalJobs = rep.totalJobs + 1 /\ r.isRegistered = rep.isRegistered /\ DOMAIN r = DOMAIN rep
      BY <3>2 DEF Reputation
    <3> QED
      BY <3>3, <3>4
  <2> QED
    BY <2>1, <2>2, <2>3
<1>4. PICK new : new = calculateTier(r.score)
  OBVIOUS
<1>5. reputations' = [reputations EXCEPT ![p] = [r EXCEPT !.tier = new]]
  BY <1>3, <1>4 DEF Update
<1>6. [r EXCEPT !.tier = new].totalJobs = r.totalJobs /\ [r EXCEPT !.tier = new].isRegistered = r.isRegistered
  BY <1>3 DEF Reputation
<1> QED
  BY <1>1, <1>2, <1>3, <1>5, <1>6 DEF Counts

(* A slash counts none. *)
LEMMA SlashCounts ==
    ASSUME RepInv, NEW p \in Provers, NEW bps, NEW time, slash(p, bps, time)
    PROVE  Counts(p, 0)
<1>1. PICK rep \in Reputation : rep = reputations[p]
  BY DEF RepInv, RepTypeOK
<1>2. reputations \in [Provers -> Reputation] /\ rep.isRegistered /\ rep.totalJobs \in Nat
  BY <1>1 DEF RepInv, RepTypeOK, slash, Reputation
<1>3. PICK r : Update(p, r) /\ r.totalJobs = rep.totalJobs /\ r.isRegistered = rep.isRegistered
               /\ DOMAIN r = DOMAIN rep
  <2>1. PICK score : score = Less(rep.score, (rep.score * bps) \div 10000)
    OBVIOUS
  <2>2. PICK r : r = [rep EXCEPT !.isSlashed = TRUE, !.score = score, !.isBanned = @ \/ score = 0]
    OBVIOUS
  <2>3. Update(p, r)
    BY <1>1, <2>1, <2>2 DEF slash
  <2>4. r.totalJobs = rep.totalJobs /\ r.isRegistered = rep.isRegistered /\ DOMAIN r = DOMAIN rep
    BY <2>2 DEF Reputation
  <2> QED
    BY <2>3, <2>4
<1>4. PICK new : new = calculateTier(r.score)
  OBVIOUS
<1>5. reputations' = [reputations EXCEPT ![p] = [r EXCEPT !.tier = new]]
  BY <1>3, <1>4 DEF Update
<1>6. [r EXCEPT !.tier = new].totalJobs = r.totalJobs /\ [r EXCEPT !.tier = new].isRegistered = r.isRegistered
  BY <1>3 DEF Reputation
<1>7. rep.totalJobs + 0 = rep.totalJobs
  BY <1>2
<1> QED
  BY <1>1, <1>2, <1>3, <1>5, <1>6, <1>7 DEF Counts

(* What n more jobs of one prover do to the ledger. *)
LEMMA CountsAdd ==
    ASSUME RepInv, RepInv', Ledger, NEW p \in Accounts, NEW n \in Nat, Counts(p, n)
    PROVE  /\ \A q \in Accounts : Unregistered(q)'
           /\ Total(Jobs) \in Int /\ Total(Jobs') = Total(Jobs) + n
<1>1. /\ reputations \in [Accounts -> Reputation] /\ reputations' \in [Accounts -> Reputation]
      /\ IsFiniteSet(Accounts)
  BY SameAccounts, ProverAssumption DEF RepInv, RepTypeOK
<1>2. /\ Jobs \in [Accounts -> Int] /\ Jobs' \in [Accounts -> Int]
      /\ \A q \in Accounts : Jobs[q] = reputations[q].totalJobs /\ Jobs'[q] = reputations'[q].totalJobs
  BY <1>1 DEF Jobs, Reputation
<1>3. Jobs'[p] = Jobs[p] + n /\ \A q \in Accounts \ {p} : Jobs'[q] = Jobs[q]
  BY <1>2, SameAccounts DEF Counts
<1>4. Total(Jobs) \in Int /\ Total(Jobs') = Total(Jobs) - Jobs[p] + Jobs'[p]
  BY <1>1, <1>2, <1>3, TotalChange
<1>5. ASSUME NEW q \in Accounts PROVE Unregistered(q)'
  BY SameAccounts DEF Ledger, Unregistered, Counts
<1> QED
  BY <1>2, <1>3, <1>4, <1>5

(* A step that leaves the counts of jobs alone. *)
LEMMA CountsSame ==
    ASSUME RepInv, Ledger,
           \A q \in Accounts : /\ reputations'[q].totalJobs = reputations[q].totalJobs
                               /\ reputations[q].isRegistered => reputations'[q].isRegistered
    PROVE  /\ \A q \in Accounts : Unregistered(q)'
           /\ Total(Jobs) \in Int /\ Total(Jobs') = Total(Jobs)
<1>1. reputations \in [Accounts -> Reputation] /\ IsFiniteSet(Accounts)
  BY SameAccounts, ProverAssumption DEF RepInv, RepTypeOK
<1>2. Jobs \in [Accounts -> Nat]
  BY <1>1 DEF Jobs, Reputation
<1>3. Jobs' = Jobs
  BY DEF Jobs
<1>4. Total(Jobs) \in Nat
  BY <1>1, <1>2, TotalNat
<1> QED
  BY <1>3, <1>4 DEF Ledger, Unregistered

(* There are finitely many requests. *)
LEMMA FiniteRequests == IsFiniteSet(RequestIds)
<1>1. MaxRequests \in Int
  BY NatAssumption
<1> QED
  BY <1>1, FS_Interval DEF RequestIds

(* A report is counted once, if a reputation contract is set. *)
LEMMA ReportsAdd ==
    ASSUME TypeOK, NEW id \in RequestIds, Report(id)
    PROVE  /\ Total(reports) \in Int
           /\ Total(reports') = Total(reports) + IF reputation THEN 1 ELSE 0
<1>1. IsFiniteSet(RequestIds) /\ reports \in [RequestIds -> Nat]
  BY FiniteRequests DEF TypeOK
<1>2. Total(reports) \in Nat
  BY <1>1, TotalNat
<1>3. CASE ~ reputation
  BY <1>2, <1>3 DEF Report
<1>4. CASE reputation
  <2>1. /\ reports \in [RequestIds -> Int] /\ reports' \in [RequestIds -> Int]
        /\ reports'[id] = reports[id] + 1 /\ \A q \in RequestIds \ {id} : reports'[q] = reports[q]
    BY <1>1, <1>4 DEF Report
  <2>2. Total(reports') = Total(reports) - reports[id] + reports'[id]
    BY <1>1, <2>1, TotalChange
  <2> QED
    BY <1>1, <1>2, <1>4, <2>1, <2>2
<1> QED
  BY <1>3, <1>4

(* A call of the reputation contract: a record, or a refusal. *)
LEMMA TryCounts ==
    ASSUME RepInv, RepInv', Ledger, NEW p \in Accounts, NEW ms, NEW earnings,
           \/ Try(recordSuccess(Engine, p, ms, earnings), p)
           \/ Try(recordFailure(Engine, p), p)
           \/ Try(recordAbandon(Engine, p), p)
    PROVE  /\ \A q \in Accounts : Unregistered(q)'
           /\ refused' \in Nat /\ Total(Jobs) \in Int /\ Total(Jobs') \in Int
           /\ Total(Jobs') + refused' = Total(Jobs) + refused + 1
<1>1. refused \in Nat
  BY DEF Ledger
<1>2. CASE refused' = refused + 1 /\ UNCHANGED repVars
  <2>1. UNCHANGED reputations
    BY <1>2 DEF repVars, recordVars
  <2>2. /\ \A q \in Accounts : Unregistered(q)'
        /\ Total(Jobs) \in Int /\ Total(Jobs') = Total(Jobs)
    BY <2>1, CountsSame
  <2> QED
    BY <1>1, <1>2, <2>2
<1>3. CASE /\ refused' = refused
           /\ recordSuccess(Engine, p, ms, earnings) \/ recordFailure(Engine, p) \/ recordAbandon(Engine, p)
  <2>1. Counts(p, 1)
    BY <1>3, RecordCounts, SameAccounts
  <2>2. /\ \A q \in Accounts : Unregistered(q)'
        /\ Total(Jobs) \in Int /\ Total(Jobs') = Total(Jobs) + 1
    BY <2>1, CountsAdd
  <2> QED
    BY <1>1, <1>3, <2>2
<1> QED
  BY <1>2, <1>3 DEF Try

(* Every step keeps the ledger: the engine counts a report exactly when it *)
(* calls, and a call is recorded or refused.                               *)
LEMMA NextKeepsLedger == Inv /\ RatedInv /\ RatedInv' /\ Ledger /\ [RatedNext]_ratedVars => Ledger'
<1> SUFFICES ASSUME Inv, RatedInv, RatedInv', Ledger, [RatedNext]_ratedVars PROVE Ledger'
  OBVIOUS
<1>1. /\ TypeOK /\ RepInv /\ RepInv' /\ byHand \in Nat /\ refused \in Nat
      /\ Total(Jobs) + refused = Total(reports) + byHand
  BY DEF Inv, RatedInv, Ledger
<1>2. Total(reports) \in Nat
  <2>1. IsFiniteSet(RequestIds) /\ reports \in [RequestIds -> Nat]
    BY <1>1, FiniteRequests DEF TypeOK
  <2> QED
    BY <2>1, TotalNat
<1>3. ASSUME UNCHANGED <<reputations, reports, refused, byHand>> PROVE Ledger'
  <2>1. /\ \A q \in Accounts : Unregistered(q)'
        /\ Total(Jobs) \in Int /\ Total(Jobs') = Total(Jobs)
    BY <1>1, <1>3, CountsSame
  <2> QED
    BY <1>1, <1>3, <2>1 DEF Ledger
<1>4. CASE UNCHANGED ratedVars
  BY <1>3, <1>4 DEF ratedVars, vars, repVars, recordVars, historyVars
<1>5. CASE QuietStep /\ UNCHANGED byHand
  <2>1. UNCHANGED reports
    BY <1>5 DEF QuietStep, Tick, AdminNext, Configure, pause, unpause, setProtocolFee, setFeeRecipient,
                setReputation, setProgramActive, requestExecution, cancelExecution, historyVars
  <2> QED
    BY <1>3, <1>5, <2>1 DEF QuietStep, Quiet, repVars, recordVars
<1>6. ASSUME NEW id \in RequestIds, NEW p \in Accounts, NEW ms, NEW earnings, UNCHANGED byHand,
             reputation, Report(id),
             \/ Try(recordSuccess(Engine, p, ms, earnings), p)
             \/ Try(recordFailure(Engine, p), p)
             \/ Try(recordAbandon(Engine, p), p)
      PROVE  Ledger'
  <2>1. Total(reports') = Total(reports) + 1
    BY <1>1, <1>6, ReportsAdd
  <2>2. /\ \A q \in Accounts : Unregistered(q)'
        /\ refused' \in Nat /\ Total(Jobs) \in Int /\ Total(Jobs') \in Int
        /\ Total(Jobs') + refused' = Total(Jobs) + refused + 1
    BY <1>1, <1>6, TryCounts
  <2> QED
    BY <1>1, <1>2, <1>6, <2>1, <2>2 DEF Ledger
<1>7. ASSUME NEW a \in Accounts, NEW id \in RequestIds, ClaimStep(a, id), UNCHANGED byHand PROVE Ledger'
  <2>1. CASE requests[id].status = "Claimed" /\ reputation
    <3>1. requests[id].claimedBy \in Accounts
      BY <2>1 DEF RatedInv, Named
    <3>2. Report(id) /\ Try(recordAbandon(Engine, requests[id].claimedBy), requests[id].claimedBy)
      BY <1>7, <2>1 DEF ClaimStep, claimExecution
    <3> QED
      BY <1>6, <1>7, <2>1, <3>1, <3>2
  <2>2. CASE ~ (requests[id].status = "Claimed" /\ reputation)
    <3>1. UNCHANGED reports /\ Quiet
      BY <1>7, <2>2 DEF ClaimStep, claimExecution, Report
    <3> QED
      BY <1>3, <1>7, <3>1 DEF Quiet, repVars, recordVars
  <2> QED
    BY <2>1, <2>2
<1>8. ASSUME NEW a \in Accounts, NEW id \in RequestIds, ProofStep(a, id), UNCHANGED byHand PROVE Ledger'
  <2>1. Report(id)
    BY <1>8 DEF ProofStep, submitProof
  <2>2. CASE reputation
    <3>1. PICK ms, earnings : Try(recordSuccess(Engine, a, ms, earnings), a)
      BY <1>8, <2>2 DEF ProofStep
    <3> QED
      BY <1>6, <1>8, <2>1, <2>2, <3>1
  <2>3. CASE ~ reputation
    BY <1>3, <1>8, <2>1, <2>3 DEF ProofStep, Quiet, repVars, recordVars, Report
  <2> QED
    BY <2>2, <2>3
<1>9. ASSUME NEW id \in RequestIds, ReportStep(id), UNCHANGED byHand PROVE Ledger'
  <2>1. /\ reputation /\ Report(id) /\ requests[id].claimedBy \in Accounts
        /\ Try(recordFailure(Engine, requests[id].claimedBy), requests[id].claimedBy)
    BY <1>9 DEF ReportStep, reportBadProof, RatedInv, Named
  <2> QED
    BY <1>6, <1>9, <2>1
<1>10. CASE ReputationStep
  <2>1. UNCHANGED <<reports, refused>>
    BY <1>10 DEF ReputationStep, vars, historyVars
  <2>2. ASSUME NEW p \in Accounts, NEW n \in Nat, Counts(p, n), byHand' = byHand + n PROVE Ledger'
    <3>1. /\ \A q \in Accounts : Unregistered(q)'
          /\ Total(Jobs) \in Int /\ Total(Jobs') = Total(Jobs) + n
      BY <1>1, <2>2, CountsAdd
    <3> QED
      BY <1>1, <1>2, <2>1, <2>2, <3>1 DEF Ledger
  <2>3. ASSUME NEW p \in Accounts, register(p), UNCHANGED byHand PROVE Ledger'
    <3>1. reputations \in [Provers -> Reputation] /\ p \in Provers
      BY <1>1, SameAccounts DEF RepInv, RepTypeOK
    <3>2. PICK r : /\ r = [NoReputation EXCEPT !.score = INITIAL_SCORE, !.isRegistered = TRUE]
                   /\ reputations' = [reputations EXCEPT ![p] = r] /\ ~ reputations[p].isRegistered
      BY <2>3 DEF register
    <3>3. r.isRegistered /\ r.totalJobs = 0
      BY <3>2 DEF NoReputation
    <3>4. reputations[p].totalJobs = 0
      BY <3>2 DEF Ledger, Unregistered
    <3>5. Counts(p, 0)
      BY <3>1, <3>2, <3>3, <3>4 DEF Counts
    <3> QED
      BY <1>1, <2>2, <2>3, <3>5
  <2>4. ASSUME NEW p \in Accounts, ByHand(p) PROVE Ledger'
    <3>1. Counts(p, 1)
      BY <1>1, <2>4, RecordCounts, SameAccounts DEF ByHand
    <3> QED
      BY <2>2, <2>4, <3>1 DEF ByHand
  <2>5. ASSUME NEW p \in Accounts, NEW bps \in Penalties, slash(p, bps, now), UNCHANGED byHand PROVE Ledger'
    <3>1. Counts(p, 0)
      BY <1>1, <2>5, SlashCounts, SameAccounts
    <3> QED
      BY <1>1, <2>2, <2>5, <3>1
  <2>6. ASSUME NEW p \in Accounts, NEW banned \in BOOLEAN, setBanned(p, banned), UNCHANGED byHand PROVE Ledger'
    <3>1. reputations \in [Provers -> Reputation] /\ p \in Provers
      BY <1>1, SameAccounts DEF RepInv, RepTypeOK
    <3>2. /\ reputations' = [reputations EXCEPT ![p] = [reputations[p] EXCEPT !.isBanned = banned]]
          /\ reputations[p].isRegistered
      BY <2>6 DEF setBanned
    <3>3. /\ [reputations[p] EXCEPT !.isBanned = banned].totalJobs = reputations[p].totalJobs
          /\ [reputations[p] EXCEPT !.isBanned = banned].isRegistered = reputations[p].isRegistered
          /\ reputations[p].totalJobs \in Nat
      BY <3>1 DEF Reputation
    <3>4. Counts(p, 0)
      BY <3>1, <3>2, <3>3 DEF Counts
    <3> QED
      BY <1>1, <2>2, <2>6, <3>4
  <2>7. ASSUME \/ \E authorized \in BOOLEAN : setReporter(Engine, authorized)
               \/ \E p \in BOOLEAN : setRepPaused(p)
               \/ \E cooldown \in Cooldowns : setSlashCooldown(cooldown),
               UNCHANGED byHand
        PROVE  Ledger'
    BY <1>3, <2>1, <2>7 DEF setReporter, setRepPaused, setSlashCooldown, recordVars
  <2> QED
    BY <1>10, <2>3, <2>4, <2>5, <2>6, <2>7 DEF ReputationStep, OwnerStep
<1> QED
  BY <1>4, <1>5, <1>7, <1>8, <1>9, <1>10 DEF RatedNext, EngineStep

(* Whatever the two contracts and their owners do, and whatever calls are  *)
(* refused: each report of the engine left one record or one refusal,      *)
(* nobody is credited with more than he was paid, and the counts of        *)
(* provers by tier are exact (claimExecution, submitProof, reportBadProof  *)
(* against recordSuccess, recordFailure, recordAbandon).                   *)
THEOREM RecordsMatch == RatedSpec => []RecordsMatchMarket
<1>1. RatedInit => Ledger
  <2> SUFFICES ASSUME RatedInit PROVE Ledger
    OBVIOUS
  <2>1. IsFiniteSet(RequestIds) /\ IsFiniteSet(Accounts)
    BY FiniteRequests, ProverAssumption, SameAccounts
  <2>2. reports \in [RequestIds -> {0}]
    BY DEF RatedInit, Init
  <2>3. \A p \in Accounts : reputations[p].totalJobs = 0
    BY SameAccounts DEF RatedInit, RepInit, NoReputation
  <2>4. Jobs \in [Accounts -> {0}]
    BY <2>3 DEF Jobs
  <2>5. Total(reports) = 0 /\ Total(Jobs) = 0
    BY <2>1, <2>2, <2>4, TotalZero
  <2> QED
    BY <2>3, <2>5 DEF RatedInit, Ledger, Unregistered
<1>2. Inv /\ RatedInv /\ Ledger => RecordsMatchMarket
  BY DEF RatedInv, RepInv, Ledger, RecordsMatchMarket
<1> QED
  BY <1>1, <1>2, RatedInvariant, NextKeepsLedger, PTL DEF RatedSpec
=============================================================================
