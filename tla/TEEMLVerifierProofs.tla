------------------------ MODULE TEEMLVerifierProofs ------------------------
(* Theorems about TEEMLVerifier, for every value of its constants. *)
EXTENDS TEEMLVerifier, TotalsProofs, TLAPS

USE AccountAssumption, NatAssumption, InitAssumption

----------------------------------------------------------------------------
(* Type correctness *)

(* The constructor's state is well typed. *)
LEMMA InitTypeOK == Init => TypeOK
<1> SUFFICES ASSUME Init PROVE TypeOK
  OBVIOUS
<1>0. now \in Nat \ {0}
  BY DEF Init
<1>1. ConfigTypeOK
  BY <1>0 DEF Init, ConfigTypeOK
<1>2. NoResult \in Result
  BY DEF NoResult, Result
<1>3. results \in [ResultIds -> Result]
  BY <1>2 DEF Init
<1>4. DisputeTypeOK
  BY DEF Init, DisputeTypeOK
<1>5. MoneyTypeOK
  BY DEF Init, MoneyTypeOK
<1> QED
  BY <1>1, <1>3, <1>4, <1>5 DEF TypeOK

(* Paying out keeps the money well typed: nothing is paid that is not held. *)
LEMMA PayTypeOK ==
    ASSUME TypeOK, NEW id \in ResultIds, NEW payee, NEW amount \in Nat,
           Pay(id, payee, amount)
    PROVE  MoneyTypeOK'
<1>1. received[id] \in [Accounts -> Nat] /\ balance \in Nat /\ donated \in Nat
  BY DEF TypeOK, MoneyTypeOK
<1>2. [received[id] EXCEPT ![payee] = @ + amount] \in [Accounts -> Nat]
  <2>1. CASE payee \in Accounts
    BY <1>1, <2>1
  <2>2. CASE payee \notin Accounts
    BY <1>1, <2>2
  <2> QED
    BY <2>1, <2>2
<1>3. received' = [received EXCEPT ![id] = [received[id] EXCEPT ![payee] = @ + amount]]
  BY DEF Pay
<1>4. received' \in [ResultIds -> [Accounts -> Nat]]
  BY <1>2, <1>3 DEF TypeOK, MoneyTypeOK
<1> QED
  BY <1>1, <1>4 DEF MoneyTypeOK, Pay

(* Fields of a stored result. *)
LEMMA ResultFields ==
    ASSUME TypeOK, NEW id \in ResultIds
    PROVE  /\ results[id] \in Result
           /\ results[id].submittedAt \in Nat
           /\ results[id].challengeDeadline \in Nat
           /\ results[id].disputeDeadline \in Nat
           /\ results[id].challengeBond \in Nat
           /\ results[id].proverStakeAmount \in Nat
           /\ Pot(id) \in Nat
<1>1. results[id] \in Result
  BY DEF TypeOK
<1> QED
  BY <1>1 DEF Result, Pot

(* Every transaction and every block keeps the state well typed. *)
LEMMA NextTypeOK == TypeOK /\ [Next]_vars => TypeOK'
<1> SUFFICES ASSUME TypeOK, [Next]_vars PROVE TypeOK'
  OBVIOUS
<1>1. CASE Tick
  BY <1>1 DEF Tick, TypeOK, ConfigTypeOK, DisputeTypeOK, MoneyTypeOK,
              adminVars, configVars, resultVars, moneyVars
<1>2. CASE AdminNext
  <2>1. UNCHANGED <<resultVars, moneyVars>>
    BY <1>2 DEF AdminNext, registerEnclave, revokeEnclave, pause, unpause, Configure,
       setRemainderVerifier, setChallengeBondAmount, setProverStake, setChallengeWindow,
       setDisputeWindow, setUseStylusVerifier, setUseStylusGroth16
  <2>2. ASSUME NEW k \in EnclaveKeys, registerEnclave(k) \/ revokeEnclave(k) PROVE ConfigTypeOK'
    BY <2>2 DEF TypeOK, ConfigTypeOK, registerEnclave, revokeEnclave, clockVars, configVars
  <2>3. CASE pause \/ unpause
    BY <2>3, <2>1 DEF TypeOK, ConfigTypeOK, DisputeTypeOK, MoneyTypeOK, pause, unpause,
                      clockVars, configVars, resultVars, moneyVars
  <2>4. ASSUME NEW v \in Verifiers, setRemainderVerifier(v) PROVE ConfigTypeOK'
    BY <2>4 DEF TypeOK, ConfigTypeOK, setRemainderVerifier, Configure, clockVars
  <2>5. ASSUME NEW amount \in Amounts, setChallengeBondAmount(amount) \/ setProverStake(amount)
        PROVE ConfigTypeOK'
    BY <2>5 DEF TypeOK, ConfigTypeOK, setChallengeBondAmount, setProverStake, Configure, clockVars
  <2>6. ASSUME NEW d \in Durations, setChallengeWindow(d) \/ setDisputeWindow(d)
        PROVE ConfigTypeOK'
    BY <2>6 DEF TypeOK, ConfigTypeOK, setChallengeWindow, setDisputeWindow, Configure, clockVars
  <2>7. ASSUME NEW b \in BOOLEAN, setUseStylusVerifier(b) \/ setUseStylusGroth16(b)
        PROVE ConfigTypeOK'
    BY <2>7 DEF TypeOK, ConfigTypeOK, setUseStylusVerifier, setUseStylusGroth16, Configure, clockVars
  <2>8. ConfigTypeOK'
    BY <1>2, <2>2, <2>3, <2>4, <2>5, <2>6, <2>7 DEF AdminNext, TypeOK
  <2> QED
    BY <2>1, <2>8 DEF TypeOK, DisputeTypeOK, MoneyTypeOK, resultVars, moneyVars
<1>3. ASSUME NEW amount \in Amounts, receive(amount) PROVE TypeOK'
  BY <1>3 DEF receive, TypeOK, ConfigTypeOK, DisputeTypeOK, MoneyTypeOK,
              clockVars, adminVars, configVars, resultVars
<1>4. ASSUME NEW a \in Accounts, NEW j \in Jobs, NEW k \in EnclaveKeys, NEW value \in Amounts,
             submitResult(a, j, k, value)
      PROVE TypeOK'
  <2> DEFINE new == [submittedAt |-> now, challengeDeadline |-> now + challengeWindow,
                     finalized |-> FALSE, challenged |-> FALSE, submitter |-> a,
                     disputeDeadline |-> 0, challenger |-> NoAccount,
                     challengeBond |-> 0, proverStakeAmount |-> value]
  <2>1. now \in Nat /\ challengeWindow \in Nat /\ value \in Nat
    BY DEF TypeOK, ConfigTypeOK
  <2>2. new \in Result
    BY <2>1 DEF Result
  <2>3. results' = [results EXCEPT ![<<a, j, now>>] = new]
    BY <1>4 DEF submitResult
  <2>4. results' \in [ResultIds -> Result]
    BY <2>2, <2>3 DEF TypeOK
  <2>5. MoneyTypeOK'
    BY <1>4, <2>1 DEF submitResult, Deposit, TypeOK, MoneyTypeOK
  <2> QED
    BY <1>4, <2>4, <2>5 DEF submitResult, TypeOK, ConfigTypeOK, DisputeTypeOK,
                            clockVars, adminVars, configVars
<1>5. ASSUME NEW a \in Accounts, NEW id \in ResultIds, NEW value \in Amounts,
             challenge(a, id, value)
      PROVE TypeOK'
  <2>1. now \in Nat /\ disputeWindow \in Nat /\ value \in Nat
    BY DEF TypeOK, ConfigTypeOK
  <2> DEFINE deadline == now + disputeWindow
             new == [results[id] EXCEPT !.challenged = TRUE, !.challenger = a,
                                        !.challengeBond = value,
                                        !.disputeDeadline = deadline]
  <2>c. results[id] \in Result /\ deadline \in Nat
    BY <2>1 DEF TypeOK
  <2>a. new \in Result
    <3> HIDE DEF deadline
    <3> QED
      BY <2>1, <2>c DEF Result
  <2>b. results' = [results EXCEPT ![id] = new]
    BY <1>5 DEF challenge
  <2>2. results' \in [ResultIds -> Result]
    BY <2>a, <2>b DEF TypeOK
  <2>3. MoneyTypeOK'
    BY <1>5, <2>1 DEF challenge, Deposit, TypeOK, MoneyTypeOK
  <2> QED
    BY <1>5, <2>2, <2>3 DEF challenge, TypeOK, ConfigTypeOK, DisputeTypeOK,
                            clockVars, adminVars, configVars
<1>6. ASSUME NEW a \in Accounts, NEW id \in ResultIds, extendDisputeWindow(a, id)
      PROVE TypeOK'
  <2>1. results' \in [ResultIds -> Result]
    BY <1>6, ResultFields DEF extendDisputeWindow, TypeOK, Result
  <2>2. DisputeTypeOK'
    BY <1>6 DEF extendDisputeWindow, MayExtend, TypeOK, DisputeTypeOK
  <2> QED
    BY <1>6, <2>1, <2>2 DEF extendDisputeWindow, TypeOK, ConfigTypeOK, MoneyTypeOK,
                            clockVars, adminVars, configVars, moneyVars
<1>7. ASSUME NEW id \in ResultIds, ResolveNext(id) PROVE TypeOK'
  <2>1. PICK proofValid \in BOOLEAN : settleDispute(id, proofValid)
    BY <1>7 DEF ResolveNext, resolveDispute, resolveDisputeHybrid, resolveDisputeHybridChunked,
                resolveDisputeByTimeout, SettleByProof
  <2>2. verdict' \in [ResultIds -> {"none", "valid", "invalid"}]
    BY <1>7 DEF ResolveNext, resolveDispute, resolveDisputeHybrid, resolveDisputeHybridChunked,
                resolveDisputeByTimeout, SettleByProof, TypeOK, DisputeTypeOK
  <2>3. DisputeTypeOK'
    BY <2>1, <2>2 DEF settleDispute, TypeOK, DisputeTypeOK
  <2>4. results' \in [ResultIds -> Result]
    BY <2>1, ResultFields DEF settleDispute, TypeOK, Result
  <2>5. MoneyTypeOK'
    BY <2>1, ResultFields, PayTypeOK DEF settleDispute
  <2> QED
    BY <2>1, <2>3, <2>4, <2>5 DEF settleDispute, TypeOK, ConfigTypeOK,
                                  clockVars, adminVars, configVars
<1>8. ASSUME NEW id \in ResultIds, finalize(id) PROVE TypeOK'
  <2>1. results' \in [ResultIds -> Result]
    BY <1>8, ResultFields DEF finalize, TypeOK, Result
  <2>2. MoneyTypeOK'
    BY <1>8, ResultFields, PayTypeOK DEF finalize
  <2> QED
    BY <1>8, <2>1, <2>2 DEF finalize, TypeOK, ConfigTypeOK, DisputeTypeOK,
                            clockVars, adminVars, configVars
<1>9. CASE UNCHANGED vars
  BY <1>9 DEF vars, TypeOK, ConfigTypeOK, DisputeTypeOK, MoneyTypeOK,
              clockVars, adminVars, configVars, resultVars, moneyVars
<1> QED
  BY <1>1, <1>2, <1>3, <1>4, <1>5, <1>6, <1>7, <1>8, <1>9 DEF Next

(* Every reachable state is well typed: no setter leaves its documented    *)
(* range and no dispute is extended more often than MAX_EXTENSIONS.        *)
THEOREM TypeCorrect == Spec => []TypeOK
<1>1. Init => TypeOK
  BY InitTypeOK
<1>2. TypeOK /\ [Next]_vars => TypeOK'
  BY NextTypeOK
<1> QED
  BY <1>1, <1>2, PTL DEF Spec

----------------------------------------------------------------------------
(* The life of a result *)

ResultInvAt(id) == Lifecycle(id) /\ Timing(id) /\ Settlement(id)

(* Nothing stored about a result changes in a step. *)
Untouched(id) ==
    /\ results'[id] = results[id]
    /\ disputeResolved'[id] = disputeResolved[id]
    /\ disputeProverWon'[id] = disputeProverWon[id]
    /\ disputeExtensions'[id] = disputeExtensions[id]
    /\ verdict'[id] = verdict[id]
    /\ received'[id] = received[id]

(* A result that a step does not touch keeps its invariant as time passes. *)
LEMMA UntouchedInv ==
    ASSUME TypeOK, NEW id \in ResultIds, ResultInvAt(id), Untouched(id), now' \in Nat, now' >= now
    PROVE  ResultInvAt(id)'
<1> USE DEF ResultInvAt, Untouched
<1>1. now \in Nat /\ results[id].challengeDeadline \in Nat /\ results[id].disputeDeadline \in Nat
  BY ResultFields DEF TypeOK, ConfigTypeOK
<1>2. Lifecycle(id)'
  BY DEF Lifecycle, Exists
<1>3. Timing(id)'
  BY <1>1 DEF Timing
<1>4. Settlement(id)'
  BY DEF Settlement, Winner, IsResultValid
<1> QED
  BY <1>2, <1>3, <1>4

(* No result exists at the start. *)
LEMMA InitResultInv == Init => ResultInv
<1> SUFFICES ASSUME Init, NEW id \in ResultIds PROVE ResultInvAt(id)
  BY DEF ResultInv, ResultInvAt
<1>1. /\ results[id] = NoResult
      /\ disputeResolved[id] = FALSE
      /\ disputeProverWon[id] = FALSE
      /\ disputeExtensions[id] = 0
      /\ received[id] = [a \in Accounts |-> 0]
  BY DEF Init
<1>2. /\ ~results[id].challenged /\ ~results[id].finalized /\ ~Exists(id)
      /\ results[id].challengeBond = 0 /\ results[id].proverStakeAmount = 0
  BY <1>1 DEF NoResult, Exists
<1>3. Lifecycle(id)
  BY <1>1, <1>2 DEF Lifecycle
<1>4. Timing(id)
  BY <1>1, <1>2 DEF Timing
<1>5. Settlement(id)
  BY <1>1, <1>2 DEF Settlement
<1> QED
  BY <1>3, <1>4, <1>5 DEF ResultInvAt

(* Multiplication by the extension period is monotone. *)
LEMMA ExtensionsMonotone ==
    ASSUME NEW e \in 0 .. MaxExtensions
    PROVE  /\ e * ExtensionPeriod \in Nat
           /\ e * ExtensionPeriod <= MaxExtensions * ExtensionPeriod
           /\ (e + 1) * ExtensionPeriod = e * ExtensionPeriod + ExtensionPeriod
  OBVIOUS

(* A submission creates an open, unchallenged result. *)
LEMMA SubmitInv ==
    ASSUME TypeOK, ResultInv, NEW a \in Accounts, NEW j \in Jobs, NEW k \in EnclaveKeys,
           NEW value \in Amounts, submitResult(a, j, k, value), NEW q \in ResultIds
    PROVE  ResultInvAt(q)'
<1> DEFINE id == <<a, j, now>>
<1>1. now \in Nat /\ challengeWindow \in Nat /\ challengeWindow >= MinChallengeWindow
  BY DEF TypeOK, ConfigTypeOK
<1>2. ResultInvAt(q)
  BY DEF ResultInv, ResultInvAt
<1>3. now' = now
  BY DEF submitResult, clockVars
<1>4. CASE q # id
  <2>1. Untouched(q)
    BY <1>4 DEF submitResult, Deposit, Untouched, TypeOK
  <2> QED
    BY <1>1, <1>2, <1>3, <2>1, UntouchedInv
<1>5. CASE q = id
  <2>1. /\ results'[q] = [submittedAt |-> now, challengeDeadline |-> now + challengeWindow,
            finalized |-> FALSE, challenged |-> FALSE, submitter |-> a,
            disputeDeadline |-> 0, challenger |-> NoAccount,
            challengeBond |-> 0, proverStakeAmount |-> value]
        /\ disputeResolved' = disputeResolved
        /\ disputeProverWon' = disputeProverWon
        /\ disputeExtensions' = disputeExtensions
        /\ received' = received
    BY <1>5 DEF submitResult, Deposit, TypeOK
  <2>2. ~results[q].challenged /\ ~results[q].finalized
    BY <1>2, <1>5 DEF submitResult, Fresh, ResultInvAt, Lifecycle
  <2>3. ~disputeResolved[q] /\ ~disputeProverWon[q] /\ disputeExtensions[q] = 0
    BY <1>2, <2>2 DEF ResultInvAt, Lifecycle
  <2>0. now # 0
    BY <1>5 DEF ResultIds
  <2>4. Lifecycle(q)'
    BY <1>1, <2>0, <2>1, <2>3 DEF Lifecycle, Exists
  <2>5. Timing(q)'
    BY <2>1, <2>3 DEF Timing
  <2>6. \A b \in Accounts : received[q][b] = 0
    BY <1>2, <2>2 DEF ResultInvAt, Settlement
  <2>7. Settlement(q)'
    BY <2>1, <2>6 DEF Settlement
  <2> QED
    BY <2>4, <2>5, <2>7 DEF ResultInvAt
<1> QED
  BY <1>4, <1>5

(* A challenge opens a dispute whose deadline is bounded by the challenge  *)
(* deadline, because it comes before that deadline.                        *)
LEMMA ChallengeInv ==
    ASSUME TypeOK, ResultInv, NEW a \in Accounts, NEW id \in ResultIds, NEW value \in Amounts,
           challenge(a, id, value), NEW q \in ResultIds
    PROVE  ResultInvAt(q)'
<1>1. now \in Nat /\ disputeWindow \in Nat /\ disputeWindow <= MaxDisputeWindow /\ now' = now
  BY DEF TypeOK, ConfigTypeOK, challenge, clockVars
<1>2. ResultInvAt(q)
  BY DEF ResultInv, ResultInvAt
<1>3. CASE q # id
  <2>1. Untouched(q)
    BY <1>3 DEF challenge, Deposit, Untouched, TypeOK
  <2> QED
    BY <1>1, <1>2, <2>1, UntouchedInv
<1>4. CASE q = id
  <2>1. results[q] \in Result
    BY DEF TypeOK
  <2>2. /\ results'[q] = [results[q] EXCEPT !.challenged = TRUE, !.challenger = a,
                            !.challengeBond = value, !.disputeDeadline = now + disputeWindow]
        /\ disputeResolved' = disputeResolved
        /\ disputeProverWon' = disputeProverWon
        /\ disputeExtensions' = disputeExtensions
        /\ received' = received
    BY <1>4 DEF challenge, Deposit, TypeOK
  <2>3. /\ results'[q].submittedAt = results[q].submittedAt
        /\ results'[q].challengeDeadline = results[q].challengeDeadline
        /\ results'[q].submitter = results[q].submitter
        /\ results'[q].finalized = results[q].finalized
        /\ results'[q].challenged = TRUE
        /\ results'[q].challenger = a
        /\ results'[q].disputeDeadline = now + disputeWindow
    BY <2>1, <2>2 DEF Result
  <2>4. Exists(q) /\ ~results[q].challenged /\ ~results[q].finalized /\ now < results[q].challengeDeadline
    BY <1>4 DEF challenge, ChallengeWindowOpen
  <2>5. ~disputeResolved[q] /\ ~disputeProverWon[q] /\ disputeExtensions[q] = 0
    BY <1>2, <2>4 DEF ResultInvAt, Lifecycle
  <2>6. Lifecycle(q)'
    BY <1>2, <2>2, <2>3, <2>4, <2>5 DEF ResultInvAt, Lifecycle, Exists
  <2>7. Timing(q)'
    BY <1>1, <2>2, <2>3, <2>4, <2>5, ResultFields, ExtensionsMonotone DEF Timing
  <2>8. \A b \in Accounts : received[q][b] = 0
    BY <1>2, <2>4 DEF ResultInvAt, Settlement
  <2>9. Settlement(q)'
    BY <2>2, <2>3, <2>4, <2>8 DEF Settlement
  <2> QED
    BY <2>6, <2>7, <2>9 DEF ResultInvAt
<1> QED
  BY <1>3, <1>4

(* An extension moves the deadline of an open dispute by one period. *)
LEMMA ExtendInv ==
    ASSUME TypeOK, ResultInv, NEW a \in Accounts, NEW id \in ResultIds,
           extendDisputeWindow(a, id), NEW q \in ResultIds
    PROVE  ResultInvAt(q)'
<1>1. now \in Nat /\ now' = now
  BY DEF TypeOK, ConfigTypeOK, extendDisputeWindow, clockVars
<1>2. ResultInvAt(q)
  BY DEF ResultInv, ResultInvAt
<1>3. CASE q # id
  <2>1. Untouched(q)
    BY <1>3 DEF extendDisputeWindow, moneyVars, Untouched, TypeOK, DisputeTypeOK
  <2> QED
    BY <1>1, <1>2, <2>1, UntouchedInv
<1>4. CASE q = id
  <2>1. results[q] \in Result /\ disputeExtensions[q] \in 0 .. MaxExtensions
    BY DEF TypeOK, DisputeTypeOK
  <2>2. /\ results'[q] = [results[q] EXCEPT !.disputeDeadline = @ + ExtensionPeriod]
        /\ disputeExtensions'[q] = disputeExtensions[q] + 1
        /\ disputeResolved' = disputeResolved
        /\ disputeProverWon' = disputeProverWon
        /\ received' = received
        /\ verdict' = verdict
    BY <1>4 DEF extendDisputeWindow, moneyVars, TypeOK, DisputeTypeOK
  <2>3. /\ results'[q].submittedAt = results[q].submittedAt
        /\ results'[q].challengeDeadline = results[q].challengeDeadline
        /\ results'[q].submitter = results[q].submitter
        /\ results'[q].challenger = results[q].challenger
        /\ results'[q].finalized = results[q].finalized
        /\ results'[q].challenged = results[q].challenged
        /\ results'[q].disputeDeadline = results[q].disputeDeadline + ExtensionPeriod
    BY <2>1, <2>2 DEF Result
  <2>4. results[q].challenged /\ ~disputeResolved[q]
    BY <1>4 DEF extendDisputeWindow, OpenDispute
  <2>5. ~results[q].finalized /\ ~disputeProverWon[q]
    BY <1>2, <2>4 DEF ResultInvAt, Lifecycle
  <2>6. Lifecycle(q)'
    BY <1>2, <2>2, <2>3, <2>4, <2>5 DEF ResultInvAt, Lifecycle, Exists
  <2>7. results[q].disputeDeadline < results[q].challengeDeadline + MaxDisputeWindow
                                     + disputeExtensions[q] * ExtensionPeriod
    BY <1>2, <2>4 DEF ResultInvAt, Timing
  <2>8. results'[q].disputeDeadline < results'[q].challengeDeadline + MaxDisputeWindow
                                      + disputeExtensions'[q] * ExtensionPeriod
    BY <2>1, <2>2, <2>3, <2>7, ResultFields, ExtensionsMonotone
  <2>9. Timing(q)'
    BY <2>2, <2>3, <2>4, <2>5, <2>8 DEF Timing
  <2>10. \A b \in Accounts : received[q][b] = 0
    BY <1>2, <2>5 DEF ResultInvAt, Settlement
  <2>11. Settlement(q)'
    BY <2>2, <2>3, <2>5, <2>10 DEF Settlement
  <2> QED
    BY <2>6, <2>9, <2>11 DEF ResultInvAt
<1> QED
  BY <1>3, <1>4

(* A settlement closes an open dispute, names the winner and pays the pot. *)
LEMMA ResolveInv ==
    ASSUME TypeOK, ResultInv, NEW id \in ResultIds, ResolveNext(id), NEW q \in ResultIds
    PROVE  ResultInvAt(q)'
<1> USE DEF ResolveNext, resolveDispute, resolveDisputeHybrid, resolveDisputeHybridChunked,
            resolveDisputeByTimeout, SettleByProof, OpenDispute
<1>1. PICK proofValid \in BOOLEAN :
        /\ settleDispute(id, proofValid)
        /\ \/ verdict' = [verdict EXCEPT ![id] = IF proofValid THEN "valid" ELSE "invalid"]
           \/ ~proofValid /\ DisputeDeadlineReached(id) /\ UNCHANGED verdict
  OBVIOUS
<1>2. results[id].challenged /\ ~disputeResolved[id]
  OBVIOUS
<1> USE DEF settleDispute
<1>3. now \in Nat /\ now' = now
  BY <1>1 DEF TypeOK, ConfigTypeOK, clockVars
<1>4. ResultInvAt(q) /\ ResultInvAt(id)
  BY DEF ResultInv, ResultInvAt
<1>5. CASE q # id
  <2>1. Untouched(q)
    BY <1>1, <1>5 DEF Pay, Untouched, TypeOK, DisputeTypeOK, MoneyTypeOK
  <2> QED
    BY <1>3, <1>4, <2>1, UntouchedInv
<1>6. CASE q = id
  <2>1. results[q] \in Result /\ received[q] \in [Accounts -> Nat]
    BY DEF TypeOK, MoneyTypeOK
  <2> DEFINE winner == IF proofValid THEN results[q].submitter ELSE results[q].challenger
  <2>2. /\ results'[q] = [results[q] EXCEPT !.finalized = TRUE]
        /\ disputeResolved'[q] = TRUE
        /\ disputeProverWon'[q] = proofValid
        /\ disputeExtensions' = disputeExtensions
    BY <1>1, <1>6 DEF TypeOK, DisputeTypeOK
  <2>3. /\ results'[q].submittedAt = results[q].submittedAt
        /\ results'[q].challengeDeadline = results[q].challengeDeadline
        /\ results'[q].disputeDeadline = results[q].disputeDeadline
        /\ results'[q].submitter = results[q].submitter
        /\ results'[q].challenger = results[q].challenger
        /\ results'[q].challengeBond = results[q].challengeBond
        /\ results'[q].proverStakeAmount = results[q].proverStakeAmount
        /\ results'[q].challenged = results[q].challenged
        /\ results'[q].finalized = TRUE
    BY <2>1, <2>2 DEF Result
  <2>4. results[q].challenged /\ ~results[q].finalized
    BY <1>2, <1>4, <1>6 DEF ResultInvAt, Lifecycle
  <2>5. Exists(q) /\ results[q].submitter \in Accounts /\ results[q].challenger \in Accounts
    BY <1>4, <2>4 DEF ResultInvAt, Lifecycle
  <2>6. Lifecycle(q)'
    BY <1>4, <2>2, <2>3, <2>4, <2>5 DEF ResultInvAt, Lifecycle, Exists
  <2>7. \/ verdict'[q] = IF proofValid THEN "valid" ELSE "invalid"
        \/ ~proofValid /\ now >= results[q].disputeDeadline
    BY <1>1, <1>6 DEF TypeOK, DisputeTypeOK, DisputeDeadlineReached
  <2>8. results[q].disputeDeadline < results[q].challengeDeadline + MaxDisputeWindow
                                     + disputeExtensions[q] * ExtensionPeriod
    BY <1>4, <2>4 DEF ResultInvAt, Timing
  <2>9. Timing(q)'
    BY <1>3, <2>2, <2>3, <2>4, <2>7, <2>8 DEF Timing
  <2>10. received'[q] = [received[q] EXCEPT ![winner] = @ + Pot(q)]
    BY <1>1, <1>6 DEF Pay, TypeOK, MoneyTypeOK
  <2>11. \A b \in Accounts : received[q][b] = 0
    BY <1>4, <2>4 DEF ResultInvAt, Settlement
  <2>12. \A b \in Accounts : received'[q][b] = IF b = winner THEN Pot(q) ELSE 0
    BY <2>1, <2>10, <2>11, ResultFields
  <2>13. Winner(q)' = winner
    BY <2>2, <2>3, <2>4 DEF Winner, IsResultValid
  <2>14. Settlement(q)'
    BY <2>3, <2>12, <2>13 DEF Settlement, Pot
  <2> QED
    BY <2>6, <2>9, <2>14 DEF ResultInvAt
<1> QED
  BY <1>5, <1>6

(* Finalization closes an unchallenged result and returns its stake. *)
LEMMA FinalizeInv ==
    ASSUME TypeOK, ResultInv, NEW id \in ResultIds, finalize(id), NEW q \in ResultIds
    PROVE  ResultInvAt(q)'
<1>1. now \in Nat /\ now' = now
  BY DEF TypeOK, ConfigTypeOK, finalize, clockVars
<1>2. ResultInvAt(q)
  BY DEF ResultInv, ResultInvAt
<1>3. CASE q # id
  <2>1. Untouched(q)
    BY <1>3 DEF finalize, Pay, Untouched, TypeOK, MoneyTypeOK
  <2> QED
    BY <1>1, <1>2, <2>1, UntouchedInv
<1>4. CASE q = id
  <2>1. results[q] \in Result /\ received[q] \in [Accounts -> Nat]
    BY DEF TypeOK, MoneyTypeOK
  <2>2. /\ results'[q] = [results[q] EXCEPT !.finalized = TRUE]
        /\ disputeResolved' = disputeResolved
        /\ disputeProverWon' = disputeProverWon
        /\ disputeExtensions' = disputeExtensions
        /\ verdict' = verdict
    BY <1>4 DEF finalize, TypeOK
  <2>3. /\ results'[q].submittedAt = results[q].submittedAt
        /\ results'[q].challengeDeadline = results[q].challengeDeadline
        /\ results'[q].disputeDeadline = results[q].disputeDeadline
        /\ results'[q].submitter = results[q].submitter
        /\ results'[q].challengeBond = results[q].challengeBond
        /\ results'[q].proverStakeAmount = results[q].proverStakeAmount
        /\ results'[q].challenged = results[q].challenged
        /\ results'[q].finalized = TRUE
    BY <2>1, <2>2 DEF Result
  <2>4. Exists(q) /\ ~results[q].challenged /\ ~results[q].finalized /\ now >= results[q].challengeDeadline
    BY <1>4 DEF finalize, ChallengeWindowPassed
  <2>5. ~disputeResolved[q] /\ ~disputeProverWon[q] /\ results[q].challengeBond = 0
    BY <1>2, <2>4 DEF ResultInvAt, Lifecycle
  <2>6. Lifecycle(q)'
    BY <1>2, <2>2, <2>3, <2>4, <2>5 DEF ResultInvAt, Lifecycle, Exists
  <2>7. Timing(q)'
    BY <1>1, <2>2, <2>3, <2>4, <2>5 DEF Timing
  <2>8. received'[q] = [received[q] EXCEPT ![results[q].submitter] = @ + results[q].proverStakeAmount]
    BY <1>4 DEF finalize, Pay, TypeOK, MoneyTypeOK
  <2>9. \A b \in Accounts : received[q][b] = 0
    BY <1>2, <2>4 DEF ResultInvAt, Settlement
  <2>10. Winner(q)' = results[q].submitter
    BY <2>3, <2>4 DEF Winner, IsResultValid
  <2>11. \A b \in Accounts : received'[q][b] = IF b = results[q].submitter
                                               THEN results[q].proverStakeAmount ELSE 0
    BY <2>1, <2>8, <2>9, ResultFields
  <2>12. Settlement(q)'
    BY <2>3, <2>5, <2>10, <2>11, ResultFields DEF Settlement
  <2> QED
    BY <2>6, <2>7, <2>12 DEF ResultInvAt
<1> QED
  BY <1>3, <1>4

(* Blocks, donations and administration touch no result. *)
LEMMA OtherStepsInv ==
    ASSUME TypeOK, TypeOK', ResultInv, NEW q \in ResultIds,
           \/ Tick \/ AdminNext \/ UNCHANGED vars
           \/ \E amount \in Amounts : receive(amount)
    PROVE  ResultInvAt(q)'
<1>1. now \in Nat /\ now' \in Nat /\ now' >= now
  BY DEF TypeOK, ConfigTypeOK, Tick, AdminNext, vars, receive, registerEnclave, revokeEnclave,
     pause, unpause, Configure, setRemainderVerifier, setChallengeBondAmount, setProverStake,
     setChallengeWindow, setDisputeWindow, setUseStylusVerifier, setUseStylusGroth16, clockVars
<1>2. UNCHANGED resultVars /\ UNCHANGED received
  BY DEF Tick, AdminNext, vars, receive, registerEnclave, revokeEnclave,
     pause, unpause, Configure, setRemainderVerifier, setChallengeBondAmount, setProverStake,
     setChallengeWindow, setDisputeWindow, setUseStylusVerifier, setUseStylusGroth16, moneyVars
<1>3. Untouched(q)
  BY <1>2 DEF Untouched, resultVars
<1>4. ResultInvAt(q)
  BY DEF ResultInv, ResultInvAt
<1> QED
  BY <1>1, <1>3, <1>4, UntouchedInv

(* The invariant is inductive. *)
LEMMA NextResultInv == TypeOK /\ TypeOK' /\ ResultInv /\ [Next]_vars => ResultInv'
<1> SUFFICES ASSUME TypeOK, TypeOK', ResultInv, [Next]_vars, NEW q \in ResultIds
             PROVE ResultInvAt(q)'
  BY DEF ResultInv, ResultInvAt
<1> QED
  BY SubmitInv, ChallengeInv, ExtendInv, ResolveInv, FinalizeInv, OtherStepsInv DEF Next

(* The inductive invariant holds in every reachable state: the flags, the  *)
(* deadlines and the payments of each result agree.                        *)
THEOREM ResultInvariant == Spec => [](TypeOK /\ ResultInv)
<1>1. Init => TypeOK /\ ResultInv
  BY InitTypeOK, InitResultInv
<1>2. TypeOK /\ ResultInv /\ [Next]_vars => (TypeOK /\ ResultInv)'
  BY NextTypeOK, NextResultInv
<1> QED
  BY <1>1, <1>2, PTL DEF Spec

----------------------------------------------------------------------------
(* The money of all results *)

(* There are finitely many result identifiers. *)
LEMMA FiniteResultIds == IsFiniteSet(ResultIds)
<1> DEFINE Pairs == (Accounts \X Jobs) \X (1 .. Horizon)
           f == [x \in Pairs |-> <<x[1][1], x[1][2], x[2]>>]
<1>1. IsFiniteSet(Accounts \X Jobs)
  BY FiniteAssumption, FS_Product
<1>2. IsFiniteSet(1 .. Horizon)
  BY FS_Interval
<1>3. IsFiniteSet(Pairs)
  BY <1>1, <1>2, FS_Product
<1>4. f \in [Pairs -> ResultIds]
  BY DEF ResultIds
<1>5. ASSUME NEW id \in ResultIds
      PROVE  \E x \in Pairs : f[x] = id
  <2>1. PICK a \in Accounts, j \in Jobs, n \in 1 .. Horizon : id = <<a, j, n>>
    BY DEF ResultIds
  <2>2. <<<<a, j>>, n>> \in Pairs /\ f[<<<<a, j>>, n>>] = id
    BY <2>1
  <2> QED
    BY <2>2
<1>6. f \in Surjection(Pairs, ResultIds)
  BY <1>4, <1>5 DEF Surjection
<1> QED
  BY <1>3, <1>6, FS_Surjection

(* A step that changes one result changes what is owed for all of them by  *)
(* the change of that one.                                                 *)
LEMMA DebtsChange ==
    ASSUME TypeOK, TypeOK', NEW id \in ResultIds,
           \A q \in ResultIds \ {id} : results'[q] = results[q]
    PROVE  /\ Total(Debts) \in Int
           /\ Total(Debts') = Total(Debts) - Owed(id) + Owed(id)'
<1>1. /\ \A q \in ResultIds : Owed(q) \in Int
      /\ \A q \in ResultIds : Owed(q)' \in Int
  BY DEF TypeOK, Owed, Pot, Result
<1>2. /\ Debts \in [ResultIds -> Int] /\ Debts' \in [ResultIds -> Int]
      /\ Debts[id] = Owed(id) /\ Debts'[id] = Owed(id)'
  BY <1>1 DEF Debts
<1>3. \A q \in ResultIds \ {id} : Debts'[q] = Debts[q]
  BY DEF Debts, Owed, Pot
<1>4. /\ Total(Debts) \in Int
      /\ Total(Debts') = Total(Debts) - Debts[id] + Debts'[id]
  BY <1>2, <1>3, FiniteResultIds, TotalChange
<1> QED
  BY <1>2, <1>4

(* Nothing is held and nothing is owed at the start. *)
LEMMA InitSolvency == Init => Solvency
<1> SUFFICES ASSUME Init PROVE Solvency
  OBVIOUS
<1>1. Debts \in [ResultIds -> {0}]
  BY DEF Init, Debts, Owed, Pot, NoResult
<1>2. Total(Debts) = 0
  BY <1>1, FiniteResultIds, TotalZero
<1> QED
  BY <1>2 DEF Init, Solvency

(* Every transaction moves as much ETH as the debts change by. *)
LEMMA NextSolvency ==
    TypeOK /\ TypeOK' /\ ResultInv /\ Solvency /\ [Next]_vars => Solvency'
<1> SUFFICES ASSUME TypeOK, TypeOK', ResultInv, Solvency, [Next]_vars
             PROVE  balance' = donated' + Total(Debts')
  BY DEF Solvency
<1>0. /\ balance \in Int /\ balance' \in Int /\ donated \in Int /\ donated' \in Int
      /\ balance = donated + Total(Debts)
  BY DEF TypeOK, MoneyTypeOK, Solvency
<1>a. \A value \in Amounts : value \in Int
  OBVIOUS
<1>1. ASSUME UNCHANGED results, balance' - donated' = balance - donated
      PROVE  balance' = donated' + Total(Debts')
  <2>1. Debts' = Debts
    BY <1>1 DEF Debts, Owed, Pot
  <2>2. Debts \in [ResultIds -> Nat]
    BY DEF Debts, Owed, Pot, TypeOK, Result
  <2>3. Total(Debts) \in Nat
    BY <2>2, FiniteResultIds, TotalNat
  <2> QED
    BY <1>0, <1>1, <2>1, <2>3
<1>2. CASE Tick \/ AdminNext \/ UNCHANGED vars
  <2>1. UNCHANGED <<results, balance, donated>>
    BY <1>2 DEF Tick, AdminNext, vars, registerEnclave, revokeEnclave, pause, unpause, Configure,
       setRemainderVerifier, setChallengeBondAmount, setProverStake, setChallengeWindow,
       setDisputeWindow, setUseStylusVerifier, setUseStylusGroth16, resultVars, moneyVars
  <2> QED
    BY <1>0, <1>1, <2>1
<1>3. ASSUME NEW amount \in Amounts, receive(amount)
      PROVE  balance' = donated' + Total(Debts')
  <2>1. amount \in Int /\ balance' = balance + amount /\ donated' = donated + amount
    BY <1>a, <1>3 DEF receive
  <2>2. balance' - donated' = balance - donated
    BY <1>0, <2>1
  <2> QED
    BY <1>1, <1>3, <2>2 DEF receive, resultVars
<1>4. ASSUME NEW a \in Accounts, NEW j \in Jobs, NEW k \in EnclaveKeys, NEW value \in Amounts,
             submitResult(a, j, k, value)
      PROVE  balance' = donated' + Total(Debts')
  <2>0. <<a, j, now>> \in ResultIds
    BY <1>4 DEF submitResult, ResultIds, TypeOK, ConfigTypeOK
  <2>1. PICK id \in ResultIds : id = <<a, j, now>> /\ Lifecycle(id)
    BY <2>0 DEF ResultInv
  <2>2. Owed(id) = 0
    BY <1>4, <2>1 DEF submitResult, Fresh, Lifecycle, Owed, Pot
  <2>3. /\ results'[id].finalized = FALSE /\ results'[id].challengeBond = 0
        /\ results'[id].proverStakeAmount = value
        /\ \A q \in ResultIds \ {id} : results'[q] = results[q]
    BY <1>4, <2>1 DEF submitResult, TypeOK
  <2>4. Owed(id)' = value
    BY <1>a, <2>3 DEF Owed, Pot
  <2>5. Total(Debts) \in Int /\ Total(Debts') = Total(Debts) - Owed(id) + Owed(id)'
    BY <2>1, <2>3, DebtsChange
  <2>6. balance' = balance + value /\ donated' = donated
    BY <1>4 DEF submitResult, Deposit
  <2>7. value \in Int
    BY <1>a
  <2> QED
    BY <1>0, <2>2, <2>4, <2>5, <2>6, <2>7
<1>5. ASSUME NEW a \in Accounts, NEW id \in ResultIds, NEW value \in Amounts,
             challenge(a, id, value)
      PROVE  balance' = donated' + Total(Debts')
  <2>1. /\ results[id] \in Result /\ Lifecycle(id)
        /\ ~results[id].finalized /\ ~results[id].challenged
    BY <1>5 DEF TypeOK, ResultInv, challenge
  <2>2. results[id].challengeBond = 0
    BY <2>1 DEF Lifecycle
  <2>3. /\ results'[id].finalized = results[id].finalized /\ results'[id].challengeBond = value
        /\ results'[id].proverStakeAmount = results[id].proverStakeAmount
        /\ \A q \in ResultIds \ {id} : results'[q] = results[q]
    BY <1>5, <2>1 DEF challenge, TypeOK, Result
  <2>4. Owed(id) \in Int /\ Owed(id)' = Owed(id) + value
    <3>1. value \in Int /\ results[id].proverStakeAmount \in Int
      BY <1>a, ResultFields
    <3> QED
      BY <2>1, <2>2, <2>3, <3>1 DEF Owed, Pot
  <2>5. Total(Debts) \in Int /\ Total(Debts') = Total(Debts) - Owed(id) + Owed(id)'
    BY <2>3, DebtsChange
  <2>6. balance' = balance + value /\ donated' = donated
    BY <1>5 DEF challenge, Deposit
  <2>7. value \in Int
    BY <1>a
  <2> QED
    BY <1>0, <2>4, <2>5, <2>6, <2>7
<1>6. ASSUME NEW a \in Accounts, NEW id \in ResultIds, extendDisputeWindow(a, id)
      PROVE  balance' = donated' + Total(Debts')
  <2>1. results[id] \in Result
    BY DEF TypeOK
  <2>2. /\ results'[id].finalized = results[id].finalized
        /\ results'[id].challengeBond = results[id].challengeBond
        /\ results'[id].proverStakeAmount = results[id].proverStakeAmount
        /\ \A q \in ResultIds \ {id} : results'[q] = results[q]
    BY <1>6, <2>1 DEF extendDisputeWindow, TypeOK, Result
  <2>3. Owed(id) \in Int /\ Owed(id)' = Owed(id)
    BY <2>1, <2>2 DEF Owed, Pot, Result
  <2>4. Total(Debts) \in Int /\ Total(Debts') = Total(Debts) - Owed(id) + Owed(id)'
    BY <2>2, DebtsChange
  <2> QED
    BY <1>0, <1>6, <2>3, <2>4 DEF extendDisputeWindow, moneyVars
<1>7. ASSUME NEW id \in ResultIds, ~results[id].finalized,
             results' = [results EXCEPT ![id].finalized = TRUE],
             NEW payee, Pay(id, payee, Pot(id))
      PROVE  balance' = donated' + Total(Debts')
  <2>1. results[id] \in Result
    BY DEF TypeOK
  <2>2. results'[id].finalized /\ \A q \in ResultIds \ {id} : results'[q] = results[q]
    BY <1>7, <2>1 DEF TypeOK, Result
  <2>3. Pot(id) \in Int /\ Owed(id) = Pot(id) /\ Owed(id)' = 0
    BY <1>7, <2>2, ResultFields DEF Owed
  <2>4. Total(Debts) \in Int /\ Total(Debts') = Total(Debts) - Owed(id) + Owed(id)'
    BY <2>2, DebtsChange
  <2>5. balance' = balance - Pot(id) /\ donated' = donated
    BY <1>7 DEF Pay
  <2> QED
    BY <1>0, <2>3, <2>4, <2>5
<1>8. ASSUME NEW id \in ResultIds, ResolveNext(id)
      PROVE  balance' = donated' + Total(Debts')
  <2>1. PICK proofValid \in BOOLEAN : settleDispute(id, proofValid)
    BY <1>8 DEF ResolveNext, resolveDispute, resolveDisputeHybrid, resolveDisputeHybridChunked,
                resolveDisputeByTimeout, SettleByProof
  <2>2. OpenDispute(id) /\ Lifecycle(id)
    BY <1>8 DEF ResolveNext, resolveDispute, resolveDisputeHybrid, resolveDisputeHybridChunked,
                resolveDisputeByTimeout, SettleByProof, ResultInv
  <2>3. ~results[id].finalized
    BY <2>2 DEF OpenDispute, Lifecycle
  <2> QED
    BY <1>7, <2>1, <2>3 DEF settleDispute
<1>9. ASSUME NEW id \in ResultIds, finalize(id)
      PROVE  balance' = donated' + Total(Debts')
  <2>1. ~results[id].finalized /\ results[id].challengeBond = 0
    BY <1>9 DEF finalize, ResultInv, Lifecycle
  <2>2. Pot(id) = results[id].proverStakeAmount
    BY <2>1, ResultFields DEF Pot
  <2> QED
    BY <1>7, <1>9, <2>1, <2>2 DEF finalize
<1> QED
  BY <1>2, <1>3, <1>4, <1>5, <1>6, <1>8, <1>9 DEF Next

(* At every moment the contract holds exactly what was donated to it and   *)
(* the stakes and bonds of the results that are not settled, for any       *)
(* number of accounts, jobs and results.                                   *)
THEOREM Solvent == Spec => []Solvency
<1>1. Init => TypeOK /\ ResultInv /\ Solvency
  BY InitTypeOK, InitResultInv, InitSolvency
<1>2. TypeOK /\ ResultInv /\ Solvency /\ [Next]_vars => (TypeOK /\ ResultInv /\ Solvency)'
  BY NextTypeOK, NextResultInv, NextSolvency
<1> QED
  BY <1>1, <1>2, PTL DEF Spec

----------------------------------------------------------------------------
(* What follows for one result *)

(* The pot of every result is paid once, whole, and to the winner its      *)
(* outcome names, whatever the interleaving of submissions, challenges,    *)
(* settlements and finalizations.                                          *)
THEOREM Payment == Spec => []PaidOnceToWinner
<1>1. TypeOK /\ ResultInv => PaidOnceToWinner
  BY DEF ResultInv, Settlement, PaidOnceToWinner
<1> QED
  BY <1>1, ResultInvariant, PTL

(* No result becomes valid without an unchallenged window or an accepted   *)
(* proof, and none loses without a rejected proof or a missed deadline.    *)
THEOREM Outcomes == Spec => []OutcomeIsEarned
<1>1. TypeOK /\ ResultInv => OutcomeIsEarned
  <2> SUFFICES ASSUME TypeOK, ResultInv, NEW id \in ResultIds
               PROVE /\ IsResultValid(id) =>
                          \/ /\ ~results[id].challenged
                             /\ now >= results[id].submittedAt + MinChallengeWindow
                          \/ verdict[id] = "valid"
                     /\ results[id].finalized /\ ~IsResultValid(id) =>
                          verdict[id] = "invalid" \/ now >= results[id].disputeDeadline
    BY DEF OutcomeIsEarned
  <2>1. Lifecycle(id) /\ Timing(id)
    BY DEF ResultInv
  <2>2. now \in Nat /\ results[id].submittedAt \in Nat /\ results[id].challengeDeadline \in Nat
    BY ResultFields DEF TypeOK, ConfigTypeOK
  <2>3. results[id].finalized \in BOOLEAN /\ results[id].challenged \in BOOLEAN
    BY ResultFields DEF Result
  <2>4. ASSUME results[id].finalized, ~results[id].challenged
        PROVE now >= results[id].submittedAt + MinChallengeWindow
    BY <2>1, <2>2, <2>4 DEF Lifecycle, Timing
  <2>5. ASSUME results[id].challenged, disputeResolved[id], disputeProverWon[id]
        PROVE verdict[id] = "valid"
    BY <2>1, <2>5 DEF Timing
  <2>6. ASSUME results[id].finalized, ~IsResultValid(id)
        PROVE verdict[id] = "invalid" \/ now >= results[id].disputeDeadline
    <3>1. results[id].challenged /\ disputeResolved[id]
      BY <2>1, <2>6 DEF Lifecycle, IsResultValid
    <3>2. ~disputeProverWon[id]
      BY <2>6, <3>1 DEF IsResultValid
    <3> QED
      BY <2>1, <3>1, <3>2 DEF Timing
  <2> QED
    BY <2>4, <2>5, <2>6 DEF IsResultValid
<1> QED
  BY <1>1, ResultInvariant, PTL

(* Every dispute can be timed out within a fixed time of its challenge     *)
(* window, whatever an admin reconfigures and the submitter extends.       *)
THEOREM BoundedDisputes == Spec => []DisputesAreBounded
<1>1. TypeOK /\ ResultInv => DisputesAreBounded
  <2> SUFFICES ASSUME TypeOK, ResultInv, NEW id \in ResultIds, results[id].challenged
               PROVE results[id].disputeDeadline < results[id].challengeDeadline
                         + MaxDisputeWindow + MaxExtensions * ExtensionPeriod
    BY DEF DisputesAreBounded
  <2>1. results[id].disputeDeadline < results[id].challengeDeadline
            + MaxDisputeWindow + disputeExtensions[id] * ExtensionPeriod
    BY DEF ResultInv, Timing
  <2>2. disputeExtensions[id] \in 0 .. MaxExtensions
    BY DEF TypeOK, DisputeTypeOK
  <2>3. MaxExtensions * ExtensionPeriod \in Nat
    OBVIOUS
  <2>4. /\ disputeExtensions[id] * ExtensionPeriod \in Nat
        /\ disputeExtensions[id] * ExtensionPeriod <= MaxExtensions * ExtensionPeriod
    BY <2>2, ExtensionsMonotone
  <2>5. results[id].disputeDeadline \in Nat /\ results[id].challengeDeadline \in Nat
    BY ResultFields
  <2> QED
    BY <2>1, <2>3, <2>4, <2>5
<1> QED
  BY <1>1, ResultInvariant, PTL

(* A settled result is never touched again: no action is enabled on it,    *)
(* and a new submission never reuses its identifier.                       *)
THEOREM Finality == Spec => OutcomeIsFinal
<1>1. TypeOK /\ ResultInv /\ [Next]_vars =>
        [\A id \in ResultIds :
            results[id].finalized =>
                /\ results'[id] = results[id]
                /\ disputeResolved'[id] = disputeResolved[id]
                /\ disputeProverWon'[id] = disputeProverWon[id]
                /\ disputeExtensions'[id] = disputeExtensions[id]
                /\ received'[id] = received[id]]_vars
  <2> SUFFICES ASSUME TypeOK, ResultInv, Next, NEW id \in ResultIds, results[id].finalized
               PROVE Untouched(id)
    BY DEF Untouched
  <2>1. Lifecycle(id)
    BY DEF ResultInv
  <2>2. CASE Tick \/ AdminNext \/ \E amount \in Amounts : receive(amount)
    BY <2>2 DEF Tick, AdminNext, receive, registerEnclave, revokeEnclave,
       pause, unpause, Configure, setRemainderVerifier, setChallengeBondAmount, setProverStake,
       setChallengeWindow, setDisputeWindow, setUseStylusVerifier, setUseStylusGroth16,
       moneyVars, resultVars, Untouched
  <2>3. ASSUME NEW a \in Accounts, NEW j \in Jobs, NEW k \in EnclaveKeys, NEW value \in Amounts,
               submitResult(a, j, k, value)
        PROVE Untouched(id)
    <3>1. id # <<a, j, now>>
      BY <2>1, <2>3 DEF submitResult, Fresh, Lifecycle
    <3> QED
      BY <2>3, <3>1 DEF submitResult, Deposit, Untouched, TypeOK
  <2>4. ASSUME NEW a \in Accounts, NEW q \in ResultIds, NEW value \in Amounts, challenge(a, q, value)
        PROVE Untouched(id)
    <3>1. id # q
      BY <2>4 DEF challenge
    <3> QED
      BY <2>4, <3>1 DEF challenge, Deposit, Untouched, TypeOK
  <2>5. ASSUME NEW a \in Accounts, NEW q \in ResultIds, extendDisputeWindow(a, q)
        PROVE Untouched(id)
    <3>1. id # q
      BY <2>1, <2>5 DEF extendDisputeWindow, OpenDispute, Lifecycle
    <3> QED
      BY <2>5, <3>1 DEF extendDisputeWindow, moneyVars, Untouched, TypeOK, DisputeTypeOK
  <2>6. ASSUME NEW q \in ResultIds, ResolveNext(q) PROVE Untouched(id)
    <3> USE DEF ResolveNext, resolveDispute, resolveDisputeHybrid, resolveDisputeHybridChunked,
                resolveDisputeByTimeout, SettleByProof, OpenDispute
    <3>1. id # q
      BY <2>1, <2>6 DEF Lifecycle
    <3>2. PICK proofValid \in BOOLEAN :
            /\ settleDispute(q, proofValid)
            /\ \/ UNCHANGED verdict
               \/ verdict' = [verdict EXCEPT ![q] = IF proofValid THEN "valid" ELSE "invalid"]
      BY <2>6
    <3> QED
      BY <3>1, <3>2 DEF settleDispute, Pay, Untouched, TypeOK, DisputeTypeOK, MoneyTypeOK
  <2>7. ASSUME NEW q \in ResultIds, finalize(q) PROVE Untouched(id)
    <3>1. id # q
      BY <2>7 DEF finalize
    <3> QED
      BY <2>7, <3>1 DEF finalize, Pay, Untouched, TypeOK, MoneyTypeOK
  <2> QED
    BY <2>2, <2>3, <2>4, <2>5, <2>6, <2>7 DEF Next
<1> QED
  BY <1>1, ResultInvariant, PTL DEF Spec, OutcomeIsFinal

----------------------------------------------------------------------------
(* The contract is an escrow *)

Stakes(id) == results[id].challengeBond + results[id].proverStakeAmount
PaidFor(id) == IF results[id].finalized THEN received[id][Winner(id)] ELSE 0

(* What the escrow sees of a result. *)
SameDeal(id) ==
    /\ DealStatus(id)' = DealStatus(id)
    /\ Stakes(id)' = Stakes(id)
    /\ PaidFor(id)' = PaidFor(id)

(* The escrow does not see what leaves a result as it is. *)
LEMMA UntouchedDeal == ASSUME NEW id \in ResultIds, Untouched(id) PROVE SameDeal(id)
  BY DEF Untouched, SameDeal, DealStatus, Exists, Stakes, PaidFor, Winner, IsResultValid

(* A step that adds to the pot of one open result funds that deal. *)
LEMMA FundsDeal ==
    ASSUME NEW d \in ResultIds, \A q \in ResultIds : q # d => SameDeal(q),
           DealStatus(d) # "closed", DealStatus(d)' = "open",
           Stakes(d)' >= Stakes(d), PaidFor(d)' = PaidFor(d),
           balance' = balance + Stakes(d)' - Stakes(d)
    PROVE  E!Fund(d)
  BY DEF E!Fund, SameDeal, Stakes, PaidFor

(* A step that closes one open result and pays its pot releases that deal. *)
LEMMA ReleasesDeal ==
    ASSUME NEW d \in ResultIds, \A q \in ResultIds : q # d => SameDeal(q),
           DealStatus(d) = "open", DealStatus(d)' = "closed",
           Stakes(d) \in Nat, Stakes(d)' = Stakes(d), PaidFor(d)' = Stakes(d),
           balance' = balance - Stakes(d)
    PROVE  E!Release(d)
<1>1. Stakes(d) \in Stakes(d) \div 1 .. Stakes(d)
  OBVIOUS
<1> QED
  BY <1>1 DEF E!Release, SameDeal, Stakes, PaidFor

(* A result that does not exist has no stake, and it is not block zero. *)
UnusedIsEmpty ==
    /\ now >= 1
    /\ \A id \in ResultIds : ~Exists(id) => results[id].proverStakeAmount = 0

(* No action stakes on a result without creating it. *)
LEMMA NextUnused == TypeOK /\ ResultInv /\ UnusedIsEmpty /\ [Next]_vars => UnusedIsEmpty'
<1> SUFFICES ASSUME TypeOK, ResultInv, UnusedIsEmpty, [Next]_vars PROVE UnusedIsEmpty'
  OBVIOUS
<1> USE DEF UnusedIsEmpty, Exists
<1>1. now \in Nat
  BY DEF TypeOK, ConfigTypeOK
<1>2. results \in [ResultIds -> Result]
  BY DEF TypeOK
<1>3. CASE Tick \/ AdminNext \/ UNCHANGED vars \/ \E amount \in Amounts : receive(amount)
  <2>1. now' >= now /\ now' \in Nat
    BY <1>1, <1>3 DEF Tick, AdminNext, vars, receive, registerEnclave, revokeEnclave,
     pause, unpause, Configure, setRemainderVerifier, setChallengeBondAmount, setProverStake,
     setChallengeWindow, setDisputeWindow, setUseStylusVerifier, setUseStylusGroth16, clockVars
  <2>2. UNCHANGED results
    BY <1>3 DEF Tick, AdminNext, vars, receive, registerEnclave, revokeEnclave,
     pause, unpause, Configure, setRemainderVerifier, setChallengeBondAmount, setProverStake,
     setChallengeWindow, setDisputeWindow, setUseStylusVerifier, setUseStylusGroth16, resultVars
  <2> QED
    BY <1>1, <2>1, <2>2
<1>4. ASSUME NEW a \in Accounts, NEW j \in Jobs, NEW k \in EnclaveKeys, NEW value \in Amounts,
             submitResult(a, j, k, value)
      PROVE UnusedIsEmpty'
  BY <1>1, <1>2, <1>4 DEF submitResult, clockVars
<1>5. ASSUME NEW a \in Accounts, NEW q \in ResultIds, NEW value \in Amounts, challenge(a, q, value)
      PROVE UnusedIsEmpty'
  BY <1>2, <1>5 DEF challenge, clockVars, Result
<1>6. ASSUME NEW a \in Accounts, NEW q \in ResultIds, extendDisputeWindow(a, q)
      PROVE UnusedIsEmpty'
  BY <1>2, <1>6 DEF extendDisputeWindow, clockVars, Result
<1>7. ASSUME NEW q \in ResultIds, ResolveNext(q) \/ finalize(q)
      PROVE UnusedIsEmpty'
  <2>1. results' = [results EXCEPT ![q].finalized = TRUE] /\ now' = now
    BY <1>7 DEF ResolveNext, resolveDispute, resolveDisputeHybrid, resolveDisputeHybridChunked,
                resolveDisputeByTimeout, SettleByProof, settleDispute, finalize, clockVars
  <2> QED
    BY <1>2, <2>1 DEF Result
<1> QED
  BY <1>3, <1>4, <1>5, <1>6, <1>7 DEF Next

(* Every step of the contract is a step of the escrow or invisible to it. *)
LEMMA StepRefines ==
    ASSUME TypeOK, TypeOK', ResultInv, ResultInv', UnusedIsEmpty, [Next]_vars
    PROVE  [E!Next]_(E!vars)
<1>1. balance \in Nat /\ balance' \in Nat
  BY DEF TypeOK, MoneyTypeOK
<1>2. CASE UNCHANGED vars
  BY <1>2 DEF E!vars, vars, moneyVars, resultVars, DealStatus, Exists, Winner, IsResultValid
<1>3. CASE Tick \/ AdminNext \/ \E amount \in Amounts : receive(amount)
  <2>1. balance' >= balance
    BY <1>1, <1>3 DEF Tick, AdminNext, receive, registerEnclave, revokeEnclave,
     pause, unpause, Configure, setRemainderVerifier, setChallengeBondAmount, setProverStake,
     setChallengeWindow, setDisputeWindow, setUseStylusVerifier, setUseStylusGroth16, moneyVars
  <2>2. UNCHANGED resultVars /\ UNCHANGED received
    BY <1>3 DEF Tick, AdminNext, receive, registerEnclave, revokeEnclave,
     pause, unpause, Configure, setRemainderVerifier, setChallengeBondAmount, setProverStake,
     setChallengeWindow, setDisputeWindow, setUseStylusVerifier, setUseStylusGroth16, moneyVars
  <2>3. E!Donate
    BY <2>1, <2>2 DEF E!Donate, resultVars, DealStatus, Exists, Winner, IsResultValid
  <2> QED
    BY <2>3 DEF E!Next
<1>4. ASSUME NEW a \in Accounts, NEW j \in Jobs, NEW k \in EnclaveKeys, NEW value \in Amounts,
             submitResult(a, j, k, value)
      PROVE E!Next
  <2>1. PICK d \in ResultIds : d = <<a, j, now>>
    BY <1>4 DEF submitResult, ResultIds, UnusedIsEmpty, TypeOK, ConfigTypeOK
  <2>2. ASSUME NEW q \in ResultIds, q # d PROVE SameDeal(q)
    BY <1>4, <2>1, <2>2, UntouchedDeal DEF submitResult, Deposit, Untouched, TypeOK
  <2>3. Lifecycle(d) /\ ~Exists(d)
    BY <1>4, <2>1 DEF ResultInv, submitResult, Fresh
  <2>4. ~results[d].challenged /\ ~results[d].finalized /\ Stakes(d) = 0
    BY <2>1, <2>3 DEF Lifecycle, UnusedIsEmpty, Stakes
  <2>5. /\ results'[d].submittedAt = now /\ ~results'[d].finalized
        /\ results'[d].challengeBond = 0 /\ results'[d].proverStakeAmount = value
    BY <1>4, <2>1 DEF submitResult, TypeOK
  <2>6. now # 0 /\ value \in Nat
    BY DEF UnusedIsEmpty, TypeOK, ConfigTypeOK
  <2>7. DealStatus(d) = "none" /\ DealStatus(d)' = "open" /\ PaidFor(d) = 0 /\ PaidFor(d)' = 0
    BY <2>3, <2>4, <2>5, <2>6 DEF DealStatus, Exists, PaidFor
  <2>8. Stakes(d)' = value
    BY <2>5, <2>6 DEF Stakes
  <2>9. balance' = balance + value
    BY <1>4 DEF submitResult, Deposit
  <2>10. E!Fund(d)
    BY <1>1, <2>2, <2>4, <2>6, <2>7, <2>8, <2>9, FundsDeal
  <2> QED
    BY <2>10 DEF E!Next
<1>5. ASSUME NEW a \in Accounts, NEW d \in ResultIds, NEW value \in Amounts, challenge(a, d, value)
      PROVE E!Next
  <2>1. ASSUME NEW q \in ResultIds, q # d PROVE SameDeal(q)
    BY <1>5, <2>1, UntouchedDeal DEF challenge, Deposit, Untouched, TypeOK
  <2>2. results[d] \in Result /\ Lifecycle(d)
    BY DEF TypeOK, ResultInv
  <2>3. /\ results'[d].submittedAt = results[d].submittedAt
        /\ results'[d].finalized = results[d].finalized
        /\ results'[d].challengeBond = value
        /\ results'[d].proverStakeAmount = results[d].proverStakeAmount
    BY <1>5, <2>2 DEF challenge, TypeOK, Result
  <2>4. Exists(d) /\ ~results[d].finalized /\ results[d].challengeBond = 0 /\ results[d].proverStakeAmount \in Nat
    BY <1>5, <2>2 DEF challenge, Lifecycle, Result
  <2>5. DealStatus(d) = "open" /\ DealStatus(d)' = "open" /\ PaidFor(d) = 0 /\ PaidFor(d)' = 0
    BY <2>3, <2>4 DEF DealStatus, Exists, PaidFor
  <2>6. value \in Nat /\ Stakes(d) = results[d].proverStakeAmount /\ Stakes(d)' = value + Stakes(d)
    <3>1. value \in Nat
      BY NatAssumption
    <3>2. Stakes(d) = results[d].proverStakeAmount
      BY <2>4 DEF Stakes
    <3>3. Stakes(d)' = value + results[d].proverStakeAmount
      BY <2>3 DEF Stakes
    <3> QED
      BY <3>1, <3>2, <3>3
  <2>7. balance' = balance + value
    BY <1>5 DEF challenge, Deposit
  <2>8. E!Fund(d)
    BY <1>1, <2>1, <2>4, <2>5, <2>6, <2>7, FundsDeal
  <2> QED
    BY <2>8 DEF E!Next
<1>6. ASSUME NEW a \in Accounts, NEW d \in ResultIds, extendDisputeWindow(a, d)
      PROVE UNCHANGED E!vars
  <2>1. results[d] \in Result
    BY DEF TypeOK
  <2>2. ASSUME NEW q \in ResultIds PROVE SameDeal(q)
    <3>1. CASE q # d
      BY <1>6, <3>1, UntouchedDeal DEF extendDisputeWindow, moneyVars, Untouched, TypeOK, DisputeTypeOK
    <3>2. CASE q = d
      <4>1. /\ results'[d].submittedAt = results[d].submittedAt
            /\ results'[d].finalized = results[d].finalized
            /\ results'[d].challenged = results[d].challenged
            /\ results'[d].submitter = results[d].submitter
            /\ results'[d].challenger = results[d].challenger
            /\ results'[d].challengeBond = results[d].challengeBond
            /\ results'[d].proverStakeAmount = results[d].proverStakeAmount
        BY <1>6, <2>1 DEF extendDisputeWindow, TypeOK, Result
      <4>2. UNCHANGED <<disputeResolved, disputeProverWon, received>>
        BY <1>6 DEF extendDisputeWindow, moneyVars
      <4> QED
        BY <3>2, <4>1, <4>2 DEF SameDeal, DealStatus, Exists, Stakes, PaidFor, Winner, IsResultValid
    <3> QED
      BY <3>1, <3>2
  <2>3. balance' = balance
    BY <1>6 DEF extendDisputeWindow, moneyVars
  <2> QED
    BY <2>2, <2>3 DEF E!vars, SameDeal, Stakes, PaidFor
<1>7. ASSUME NEW d \in ResultIds, ResolveNext(d) \/ finalize(d)
      PROVE E!Next
  <2>1. results[d] \in Result /\ Lifecycle(d) /\ Lifecycle(d)' /\ Settlement(d)' /\ results'[d] \in Result
    BY DEF TypeOK, ResultInv
  <2>2. /\ results' = [results EXCEPT ![d].finalized = TRUE]
        /\ \E payee, amount : Pay(d, payee, amount) /\ amount = Stakes(d)
        /\ \A q \in ResultIds : q # d => Untouched(q)
        /\ ~results[d].finalized /\ Exists(d)
    <3>1. CASE finalize(d)
      <4>1. ~results[d].challenged /\ Stakes(d) = results[d].proverStakeAmount
        BY <2>1, <3>1 DEF finalize, Lifecycle, Stakes, Result
      <4> QED
        BY <3>1, <4>1 DEF finalize, Pay, Untouched, TypeOK, MoneyTypeOK
    <3>2. CASE ResolveNext(d)
      <4> USE DEF ResolveNext, resolveDispute, resolveDisputeHybrid, resolveDisputeHybridChunked,
                  resolveDisputeByTimeout, SettleByProof, OpenDispute
      <4>1. PICK proofValid \in BOOLEAN :
              /\ settleDispute(d, proofValid)
              /\ \/ UNCHANGED verdict
                 \/ verdict' = [verdict EXCEPT ![d] = IF proofValid THEN "valid" ELSE "invalid"]
        BY <3>2
      <4>2. results[d].challenged /\ ~disputeResolved[d]
        BY <3>2
      <4>3. ~results[d].finalized /\ Exists(d)
        BY <2>1, <4>2 DEF Lifecycle
      <4>4. \A q \in ResultIds : q # d => Untouched(q)
        BY <4>1 DEF settleDispute, Pay, Untouched, TypeOK, DisputeTypeOK, MoneyTypeOK
      <4> QED
        BY <4>1, <4>3, <4>4 DEF settleDispute, Stakes, Pot
    <3> QED
      BY <1>7, <3>1, <3>2
  <2>3. \A q \in ResultIds : q # d => SameDeal(q)
    BY <2>2, UntouchedDeal
  <2>4. /\ results'[d].submittedAt = results[d].submittedAt
        /\ results'[d].finalized = TRUE
        /\ results'[d].challengeBond = results[d].challengeBond
        /\ results'[d].proverStakeAmount = results[d].proverStakeAmount
    BY <2>1, <2>2 DEF TypeOK, Result
  <2>5. DealStatus(d) = "open" /\ DealStatus(d)' = "closed"
    BY <2>2, <2>4 DEF DealStatus
  <2>6. Stakes(d) \in Nat /\ Stakes(d)' = Stakes(d)
    BY <2>1, <2>4 DEF Stakes, Result
  <2>7. Winner(d)' \in Accounts
    BY <2>1, <2>2, <2>4 DEF Winner, IsResultValid, Lifecycle, Exists
  <2>8. PaidFor(d)' = Stakes(d)
    BY <2>1, <2>4, <2>6, <2>7 DEF PaidFor, Settlement, Stakes
  <2>9. balance' = balance - Stakes(d)
    BY <2>2 DEF Pay
  <2>10. E!Release(d)
    BY <2>3, <2>5, <2>6, <2>8, <2>9, ReleasesDeal
  <2> QED
    BY <2>10 DEF E!Next
<1> QED
  BY <1>2, <1>3, <1>4, <1>5, <1>6, <1>7 DEF Next

(* The contract implements the escrow: ETH comes in only for a result that *)
(* is not closed, and leaves only in the one payment of its whole pot that *)
(* closes it.                                                              *)
THEOREM Refinement == Spec => ImplementsEscrow
<1>1. Init => E!Init
  <2> SUFFICES ASSUME Init PROVE E!Init
    OBVIOUS
  <2>1. ASSUME NEW id \in ResultIds
        PROVE DealStatus(id) = "none" /\ Stakes(id) = 0 /\ PaidFor(id) = 0
    <3>1. results[id] = NoResult
      BY DEF Init
    <3> QED
      BY <3>1 DEF NoResult, DealStatus, Exists, Stakes, PaidFor
  <2> QED
    BY <2>1 DEF Init, E!Init, Stakes, PaidFor
<1>2. Init => UnusedIsEmpty
  BY DEF Init, UnusedIsEmpty, NoResult
<1>3. TypeOK /\ TypeOK' /\ ResultInv /\ ResultInv' /\ UnusedIsEmpty /\ [Next]_vars => [E!Next]_(E!vars)
  BY StepRefines
<1> QED
  BY <1>1, <1>2, <1>3, NextUnused, ResultInvariant, PTL DEF Spec, ImplementsEscrow, E!Spec
============================================================================
