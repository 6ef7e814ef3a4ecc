---------------------------- MODULE ProverProofs ----------------------------
(* Theorems about the registry of provers (part 1) and about the service a *)
(* prover runs (part 2), for every value of their constants: any number of *)
(* provers, requests, tasks, retries, rounds and faults.                   *)
EXTENDS ProverRegistry, ProverNode, TotalsProofs, SequenceTheorems

----------------------------------------------------------------------------
(* Part 1: ProverRegistry *)

(* The part of the type invariant that the array of active provers needs.  *)
PoolTypeOK ==
    /\ provers \in [Provers -> Prover]
    /\ activeProvers \in Seq(Provers)
    /\ proverIndex \in [Provers -> Nat]
    /\ slashBasisPoints \in Nat
    /\ minStake \in Nat

(* PoolMatchesFlags is not inductive: register appends a prover it has     *)
(* only checked not to be registered, so that an unregistered prover must  *)
(* be known to be inactive.                                                *)
ActiveAreRegistered ==
    \A p \in Provers : provers[p].active => provers[p].registered

PoolInv == PoolTypeOK /\ ActiveAreRegistered /\ PoolMatchesFlags

----------------------------------------------------------------------------
(* Appending an inactive prover and marking it active keeps the array, the *)
(* indices and the flags in agreement.                                     *)
LEMMA AppendKeepsPool ==
    ASSUME PoolTypeOK, PoolMatchesFlags, NEW p \in Provers, ~provers[p].active,
           AppendToPool(p), PoolTypeOK', provers'[p].active,
           \A q \in Provers \ {p} : (provers'[q].active <=> provers[q].active)
    PROVE  PoolMatchesFlags'
<1> DEFINE n == Len(activeProvers)
<1>1. /\ n \in Nat
      /\ activeProvers \in Seq(Provers)
      /\ activeProvers' = Append(activeProvers, p)
      /\ proverIndex' = [proverIndex EXCEPT ![p] = n]
      /\ proverIndex \in [Provers -> Nat]
  BY DEF PoolTypeOK, AppendToPool
<1>2. /\ Len(activeProvers') = n + 1
      /\ activeProvers'[n + 1] = p
      /\ \A i \in 1 .. n : activeProvers'[i] = activeProvers[i]
      /\ \A i \in 1 .. n : activeProvers[i] \in Provers
  BY <1>1
<1>3. /\ proverIndex'[p] = n
      /\ \A q \in Provers \ {p} : proverIndex'[q] = proverIndex[q]
  BY <1>1
<1> HIDE DEF n
<1>4. \A q \in Provers \ {p} : provers[q].active =>
          /\ proverIndex[q] \in 0 .. n - 1
          /\ activeProvers[proverIndex[q] + 1] = q
  BY <1>1 DEF PoolMatchesFlags, n
<1>5. \A i \in 1 .. n : activeProvers[i] # p /\ provers[activeProvers[i]].active
                        /\ proverIndex[activeProvers[i]] = i - 1
  BY DEF PoolMatchesFlags, n
<1>6. ASSUME NEW q \in Provers, provers'[q].active
      PROVE  proverIndex'[q] < Len(activeProvers') /\ activeProvers'[proverIndex'[q] + 1] = q
  <2>1. CASE q = p
    BY <1>1, <1>2, <1>3, <2>1
  <2>2. CASE q # p
    <3>1. provers[q].active
      BY <1>6, <2>2
    <3>2. proverIndex[q] + 1 \in 1 .. n
      BY <1>1, <1>4, <2>2, <3>1
    <3> QED
      BY <1>1, <1>2, <1>3, <1>4, <2>2, <3>1, <3>2
  <2> QED
    BY <2>1, <2>2
<1>7. ASSUME NEW i \in 1 .. Len(activeProvers')
      PROVE  provers'[activeProvers'[i]].active /\ proverIndex'[activeProvers'[i]] = i - 1
  <2>1. CASE i = n + 1
    BY <1>1, <1>2, <1>3, <2>1
  <2>2. CASE i # n + 1
    <3>1. i \in 1 .. n
      BY <1>1, <1>2, <1>7, <2>2
    <3>2. activeProvers'[i] = activeProvers[i] /\ activeProvers[i] \in Provers \ {p}
      BY <1>2, <1>5, <3>1
    <3> QED
      BY <1>3, <1>5, <3>1, <3>2
  <2> QED
    BY <2>1, <2>2
<1> QED
  BY <1>6, <1>7 DEF PoolMatchesFlags

(* Swapping an active prover with the last element, popping and marking it *)
(* inactive keeps the array, the indices and the flags in agreement.       *)
LEMMA RemoveKeepsPool ==
    ASSUME PoolTypeOK, PoolMatchesFlags, NEW p \in Provers, provers[p].active,
           RemoveFromPool(p), ~provers'[p].active,
           \A q \in Provers \ {p} : (provers'[q].active <=> provers[q].active)
    PROVE  /\ PoolMatchesFlags'
           /\ activeProvers' \in Seq(Provers)
           /\ proverIndex' \in [Provers -> Nat]
<1> DEFINE n == Len(activeProvers)
           idx == proverIndex[p]
           last == activeProvers[n]
           swapped == [activeProvers EXCEPT ![idx + 1] = last]
<1>1. /\ n \in Nat
      /\ idx \in 0 .. n - 1
      /\ activeProvers[idx + 1] = p
      /\ activeProvers \in Seq(Provers)
      /\ proverIndex \in [Provers -> Nat]
  BY DEF PoolTypeOK, PoolMatchesFlags
<1>2. n >= 1 /\ last \in Provers
  BY <1>1
<1>3. /\ activeProvers' = SubSeq(swapped, 1, n - 1)
      /\ proverIndex' = [[proverIndex EXCEPT ![last] = idx] EXCEPT ![p] = 0]
  BY <1>1 DEF RemoveFromPool
<1>4. /\ swapped \in Seq(Provers) /\ Len(swapped) = n
      /\ \A i \in 1 .. n : swapped[i] = IF i = idx + 1 THEN last ELSE activeProvers[i]
  BY <1>1, <1>2
<1>5. /\ activeProvers' \in Seq(Provers)
      /\ Len(activeProvers') = n - 1
      /\ \A i \in 1 .. n - 1 : activeProvers'[i] = IF i = idx + 1 THEN last ELSE activeProvers[i]
  <2> HIDE DEF swapped, last, idx, n
  <2>1. n - 1 \in 0 .. n /\ 1 .. n - 1 \subseteq 1 .. n
    BY <1>1
  <2>2. /\ SubSeq(swapped, 1, n - 1) \in Seq(Provers)
        /\ Len(SubSeq(swapped, 1, n - 1)) = n - 1
        /\ \A i \in 1 .. n - 1 : SubSeq(swapped, 1, n - 1)[i] = swapped[i]
    BY <1>1, <1>2, <1>4, <2>1, SubSeqProperties
  <2> QED
    BY <1>3, <1>4, <2>1, <2>2
<1>6. /\ proverIndex' \in [Provers -> Nat]
      /\ \A q \in Provers : proverIndex'[q] =
             IF q = p THEN 0 ELSE IF q = last THEN idx ELSE proverIndex[q]
  BY <1>1, <1>2, <1>3
<1>7. \A i \in 1 .. n : /\ activeProvers[i] \in Provers
                        /\ provers[activeProvers[i]].active
                        /\ proverIndex[activeProvers[i]] = i - 1
  BY <1>1 DEF PoolMatchesFlags
<1>8. \A q \in Provers : provers[q].active =>
          proverIndex[q] \in 0 .. n - 1 /\ activeProvers[proverIndex[q] + 1] = q
  BY <1>1 DEF PoolMatchesFlags
<1>9. proverIndex[last] = n - 1
  BY <1>1, <1>2, <1>7
<1> HIDE DEF n, idx, last, swapped
<1>10. ASSUME NEW q \in Provers, provers'[q].active
       PROVE  proverIndex'[q] < n - 1 /\ activeProvers'[proverIndex'[q] + 1] = q
  <2>1. q # p /\ provers[q].active
    BY <1>10
  <2>2. proverIndex[q] \in 0 .. n - 1 /\ activeProvers[proverIndex[q] + 1] = q
    BY <1>8, <2>1
  <2>3. proverIndex[q] # idx
    BY <1>1, <2>1, <2>2
  <2>4. CASE q = last
    <3>1. proverIndex'[q] = idx /\ idx < n - 1
      BY <1>1, <1>6, <1>9, <2>1, <2>3, <2>4
    <3> QED
      BY <1>1, <1>5, <2>4, <3>1
  <2>5. CASE q # last
    <3>1. proverIndex'[q] = proverIndex[q]
      BY <1>6, <2>1, <2>5
    <3>2. proverIndex[q] # n - 1
      <4> SUFFICES ASSUME proverIndex[q] = n - 1 PROVE FALSE
        OBVIOUS
      <4>1. proverIndex[q] + 1 = n
        BY <1>1
      <4> QED
        BY <2>2, <2>5, <4>1 DEF last
    <3>3. proverIndex[q] < n - 1 /\ proverIndex[q] + 1 \in 1 .. n - 1
          /\ proverIndex[q] + 1 # idx + 1
      <4> DEFINE k == proverIndex[q]
      <4>1. k \in 0 .. n - 1 /\ k # n - 1 /\ k # idx /\ n \in Nat /\ idx \in 0 .. n - 1
        BY <1>1, <2>2, <2>3, <3>2
      <4> HIDE DEF k
      <4>2. k < n - 1 /\ k + 1 \in 1 .. n - 1 /\ k + 1 # idx + 1
        BY <4>1
      <4> QED
        BY <4>2 DEF k
    <3> QED
      BY <1>5, <2>2, <3>1, <3>3
  <2> QED
    BY <2>4, <2>5
<1>11. ASSUME NEW i \in 1 .. n - 1
       PROVE  provers'[activeProvers'[i]].active /\ proverIndex'[activeProvers'[i]] = i - 1
  <2>1. CASE i = idx + 1
    <3>1. activeProvers'[i] = last
      BY <1>5, <2>1
    <3>2. last # p
      BY <1>1, <1>9, <2>1 DEF idx
    <3>3. provers[last].active
      <4>1. n \in 1 .. n
        BY <1>1, <1>2
      <4> QED
        BY <1>7, <4>1 DEF last
    <3> QED
      BY <1>1, <1>2, <1>6, <2>1, <3>1, <3>2, <3>3
  <2>2. CASE i # idx + 1
    <3>1. /\ activeProvers'[i] = activeProvers[i] /\ activeProvers[i] \in Provers
          /\ provers[activeProvers[i]].active /\ proverIndex[activeProvers[i]] = i - 1
      <4>1. i \in 1 .. n
        BY <1>1, <1>11
      <4>2. activeProvers'[i] = activeProvers[i]
        BY <1>5, <1>11, <2>2
      <4> QED
        BY <1>7, <4>1, <4>2
    <3>2. activeProvers[i] # p
      <4> SUFFICES ASSUME activeProvers[i] = p PROVE FALSE
        OBVIOUS
      <4>1. idx = i - 1
        BY <3>1 DEF idx
      <4> QED
        BY <2>2, <4>1
    <3>3. activeProvers[i] # last
      BY <1>1, <1>9, <3>1
    <3> QED
      BY <1>6, <3>1, <3>2, <3>3
  <2> QED
    BY <2>1, <2>2
<1> QED
  BY <1>5, <1>6, <1>10, <1>11 DEF PoolMatchesFlags
----------------------------------------------------------------------------
(* The deployed registry has no provers. *)
LEMMA InitPool == RegistryInit => PoolInv
<1> SUFFICES ASSUME RegistryInit PROVE PoolInv
  OBVIOUS
<1>1. provers = [p \in Provers |-> NoProver] /\ activeProvers = <<>>
      /\ proverIndex = [p \in Provers |-> 0] /\ slashBasisPoints \in Nat /\ minStake \in Nat
  BY RegistryAssumption DEF RegistryInit
<1>2. NoProver \in Prover /\ NoProver.active = FALSE
  BY RegistryAssumption DEF NoProver, Prover
<1>3. PoolTypeOK
  BY <1>1, <1>2 DEF PoolTypeOK
<1>4. \A p \in Provers : ~provers[p].active
  BY <1>1, <1>2
<1>5. Len(activeProvers) = 0
  BY <1>1
<1>6. PoolMatchesFlags
  BY <1>4, <1>5 DEF PoolMatchesFlags
<1> QED
  BY <1>3, <1>4, <1>6 DEF PoolInv, ActiveAreRegistered

(* What a success raises a reputation to is a reputation, and so is what a *)
(* slash leaves of it.                                                     *)
LEMMA ReputationRange ==
    ASSUME NEW r \in 0 .. MAX_REPUTATION
    PROVE  /\ Raised(r) \in 0 .. MAX_REPUTATION
           /\ (r * SLASH_REPUTATION_PERCENT) \div 100 \in 0 .. MAX_REPUTATION
<1>1. Raised(r) \in 0 .. MAX_REPUTATION
  BY RegistryAssumption DEF Raised
<1>2. r \in Nat /\ r <= MAX_REPUTATION /\ MAX_REPUTATION \in Nat
      /\ SLASH_REPUTATION_PERCENT \in 0 .. 100
  BY RegistryAssumption
<1>3. r * SLASH_REPUTATION_PERCENT \in 0 .. 100 * r
  BY <1>2
<1>4. (r * SLASH_REPUTATION_PERCENT) \div 100 \in 0 .. r
  <2> DEFINE x == r * SLASH_REPUTATION_PERCENT
  <2>1. x \in 0 .. 100 * r
    BY <1>3
  <2> HIDE DEF x
  <2>2. x \div 100 \in 0 .. r
    BY <1>2, <2>1
  <2> QED
    BY <2>2 DEF x
<1> QED
  BY <1>1, <1>2, <1>4

(* A slash takes at most the stake. *)
LEMMA SlashRange ==
    ASSUME PoolTypeOK, NEW p \in Provers
    PROVE  SlashAmount(p) \in Nat /\ provers[p].stake - SlashAmount(p) \in Nat
<1> DEFINE stake == provers[p].stake
           product == stake * slashBasisPoints
<1>1. stake \in Nat /\ slashBasisPoints \in Nat
  BY DEF PoolTypeOK, Prover
<1>2. product \in Nat
  BY <1>1
<1> HIDE DEF product
<1>3. product \div 10000 \in Nat
  BY <1>2
<1>4. SlashAmount(p) = IF product \div 10000 > stake THEN stake ELSE product \div 10000
  BY DEF SlashAmount, product
<1> HIDE DEF stake
<1>5. SlashAmount(p) \in Nat /\ stake - SlashAmount(p) \in Nat
  BY <1>1, <1>3, <1>4
<1> QED
  BY <1>5 DEF stake

(* A step that leaves the array alone, keeps every prover's flags and      *)
(* stores well-typed provers preserves the invariant.                      *)
LEMMA FlagsUnchangedKeepPool ==
    ASSUME PoolInv, UNCHANGED poolVars, provers' \in [Provers -> Prover], slashBasisPoints' \in Nat, minStake' \in Nat,
           \A q \in Provers : /\ provers'[q].active <=> provers[q].active
                              /\ provers'[q].registered <=> provers[q].registered
    PROVE  PoolInv'
<1>1. activeProvers' = activeProvers /\ proverIndex' = proverIndex
  BY DEF poolVars
<1>2. PoolTypeOK' /\ ActiveAreRegistered'
  BY <1>1 DEF PoolInv, PoolTypeOK, ActiveAreRegistered
<1>3. \A i \in 1 .. Len(activeProvers) : activeProvers[i] \in Provers
  BY DEF PoolInv, PoolTypeOK
<1>4. PoolMatchesFlags'
  BY <1>1, <1>3 DEF PoolInv, PoolMatchesFlags
<1> QED
  BY <1>2, <1>4 DEF PoolInv

(* register, addStake and reactivate: the prover becomes active.           *)
LEMMA JoinKeepsPool ==
    ASSUME PoolInv, NEW p \in Provers, NEW rec \in Prover, slashBasisPoints' \in Nat, minStake' \in Nat,
           ~provers[p].active, rec.active, rec.registered,
           provers' = [provers EXCEPT ![p] = rec], AppendToPool(p)
    PROVE  PoolInv'
<1>1. /\ provers' \in [Provers -> Prover] /\ provers'[p] = rec
      /\ \A q \in Provers \ {p} : provers'[q] = provers[q]
  BY DEF PoolInv, PoolTypeOK
<1>2. PoolTypeOK'
  BY <1>1 DEF PoolInv, PoolTypeOK, AppendToPool
<1>3. PoolMatchesFlags'
  BY <1>1, <1>2, AppendKeepsPool DEF PoolInv
<1>4. ActiveAreRegistered'
  BY <1>1 DEF PoolInv, ActiveAreRegistered
<1> QED
  BY <1>2, <1>3, <1>4 DEF PoolInv

(* deactivate and a slash below the minimum: the prover stops being active. *)
LEMMA LeaveKeepsPool ==
    ASSUME PoolInv, NEW p \in Provers, NEW rec \in Prover, slashBasisPoints' \in Nat, minStake' \in Nat,
           provers[p].active, ~rec.active,
           provers' = [provers EXCEPT ![p] = rec], RemoveFromPool(p)
    PROVE  PoolInv'
<1>1. /\ provers' \in [Provers -> Prover] /\ provers'[p] = rec
      /\ \A q \in Provers \ {p} : provers'[q] = provers[q]
  BY DEF PoolInv, PoolTypeOK
<1>2. /\ PoolMatchesFlags'
      /\ activeProvers' \in Seq(Provers)
      /\ proverIndex' \in [Provers -> Nat]
  BY <1>1, RemoveKeepsPool DEF PoolInv
<1>3. ActiveAreRegistered'
  BY <1>1 DEF PoolInv, ActiveAreRegistered
<1> QED
  BY <1>1, <1>2, <1>3 DEF PoolInv, PoolTypeOK

(* addStake without reactivation, withdrawStake, recordSuccess and a slash *)
(* that leaves the prover in: the flags stay.                              *)
LEMMA UpdateKeepsPool ==
    ASSUME PoolInv, NEW p \in Provers, NEW rec \in Prover, slashBasisPoints' \in Nat, minStake' \in Nat,
           rec.active <=> provers[p].active, rec.registered <=> provers[p].registered,
           provers' = [provers EXCEPT ![p] = rec], UNCHANGED poolVars
    PROVE  PoolInv'
<1>1. /\ provers' \in [Provers -> Prover] /\ provers'[p] = rec
      /\ \A q \in Provers \ {p} : provers'[q] = provers[q]
  BY DEF PoolInv, PoolTypeOK
<1>2. \A q \in Provers : /\ provers'[q].active <=> provers[q].active
                         /\ provers'[q].registered <=> provers[q].registered
  BY <1>1
<1> QED
  BY <1>1, <1>2, FlagsUnchangedKeepPool

(* Every transaction and every block preserves the pool's invariant.       *)
LEMMA NextPool == PoolInv /\ [RegistryNext]_registryVars => PoolInv'
<1> SUFFICES ASSUME PoolInv, [RegistryNext]_registryVars PROVE PoolInv'
  OBVIOUS
<1>0. ASSUME NEW p \in Provers
      PROVE  /\ provers[p] \in Prover
             /\ provers[p].stake \in Nat /\ provers[p].reputation \in 0 .. MAX_REPUTATION
             /\ provers[p].active \in BOOLEAN /\ provers[p].registered \in BOOLEAN
             /\ provers[p].active => provers[p].registered
  BY <1>0 DEF PoolInv, PoolTypeOK, ActiveAreRegistered, Prover
<1>1. slashBasisPoints' \in Nat /\ minStake' \in Nat
  <2>1. CASE AdminNext
    <3>1. PoolTypeOK
      BY DEF PoolInv
    <3>2. ASSUME NEW m \in MinStakes, setMinStake(m) PROVE slashBasisPoints' \in Nat /\ minStake' \in Nat
      BY <3>1, <3>2, RegistryAssumption DEF setMinStake, PoolTypeOK
    <3>3. ASSUME NEW bps \in BasisPoints, setSlashBasisPoints(bps)
          PROVE slashBasisPoints' \in Nat /\ minStake' \in Nat
      BY <3>1, <3>3, RegistryAssumption DEF setSlashBasisPoints, PoolTypeOK
    <3>4. CASE pause \/ unpause \/ \E s \in Slashers, authorized \in BOOLEAN : setSlasher(s, authorized)
      BY <3>1, <3>4 DEF pause, unpause, setSlasher, PoolTypeOK
    <3> QED
      BY <2>1, <3>2, <3>3, <3>4 DEF AdminNext
  <2>2. ~AdminNext => UNCHANGED <<slashBasisPoints, minStake>>
    BY DEF RegistryNext, registryVars, configVars, NewBlock, SelectionNext, requestProverSelection,
       fulfillProverSelection, ProverNext, register, addStake, withdrawStake, deactivate,
       reactivate, slash, recordSuccess
  <2> QED
    BY <2>1, <2>2 DEF PoolInv, PoolTypeOK
<1>2. CASE NewBlock \/ AdminNext \/ SelectionNext \/ UNCHANGED registryVars
  <2>1. provers' = provers /\ UNCHANGED poolVars
    BY <1>2 DEF NewBlock, AdminNext, SelectionNext, registryVars, pause, unpause, Configure, setMinStake,
       setSlashBasisPoints, setSlasher, requestProverSelection, fulfillProverSelection
  <2> QED
    BY <1>1, <2>1, FlagsUnchangedKeepPool DEF PoolInv, PoolTypeOK
<1>3. ASSUME NEW p \in Provers, NEW amount \in Amounts, register(p, amount) PROVE PoolInv'
  <2> DEFINE rec == [registered |-> TRUE, active |-> TRUE, stake |-> amount,
                     reputation |-> INITIAL_REPUTATION]
  <2>1. rec \in Prover
    BY RegistryAssumption DEF Prover
  <2>2. ~provers[p].active
    BY <1>0, <1>3 DEF register
  <2>3. provers' = [provers EXCEPT ![p] = rec] /\ AppendToPool(p)
    BY <1>3 DEF register
  <2>4. rec.active /\ rec.registered
    OBVIOUS
  <2> HIDE DEF rec
  <2> QED
    BY <1>1, <2>1, <2>2, <2>3, <2>4, JoinKeepsPool
<1>4. ASSUME NEW p \in Provers, NEW amount \in Amounts, addStake(p, amount) PROVE PoolInv'
  <2> DEFINE reactivated == ~provers[p].active /\ provers[p].stake + amount >= minStake
             rec == [provers[p] EXCEPT !.stake = @ + amount, !.active = @ \/ reactivated]
  <2>1. provers[p].stake + amount \in Nat /\ provers[p].registered
    BY <1>0, <1>4, RegistryAssumption DEF addStake
  <2>2. /\ rec \in Prover
        /\ rec.registered <=> provers[p].registered
        /\ rec.active <=> provers[p].active \/ reactivated
    <3> HIDE DEF reactivated
    <3> QED
      BY <1>0, <2>1 DEF Prover
  <2>3. provers' = [provers EXCEPT ![p] = rec]
    BY <1>4 DEF addStake
  <2>4. CASE reactivated
    <3>1. AppendToPool(p) /\ ~provers[p].active
      BY <1>4, <2>4 DEF addStake
    <3> HIDE DEF rec, reactivated
    <3> QED
      BY <1>1, <2>1, <2>2, <2>3, <2>4, <3>1, JoinKeepsPool
  <2>5. CASE ~reactivated
    <3>1. UNCHANGED poolVars
      BY <1>4, <2>5 DEF addStake
    <3> HIDE DEF rec, reactivated
    <3> QED
      BY <1>1, <2>2, <2>3, <2>5, <3>1, UpdateKeepsPool
  <2> QED
    BY <2>4, <2>5
<1>5. ASSUME NEW p \in Provers, NEW amount \in Amounts, withdrawStake(p, amount) PROVE PoolInv'
  <2> DEFINE rec == [provers[p] EXCEPT !.stake = @ - amount]
  <2>1. provers[p].stake - amount \in Nat
    BY <1>0, <1>5, RegistryAssumption DEF withdrawStake
  <2>2. /\ rec \in Prover
        /\ rec.registered <=> provers[p].registered
        /\ rec.active <=> provers[p].active
    BY <1>0, <2>1 DEF Prover
  <2>3. provers' = [provers EXCEPT ![p] = rec] /\ UNCHANGED poolVars
    BY <1>5 DEF withdrawStake
  <2> HIDE DEF rec
  <2> QED
    BY <1>1, <2>2, <2>3, UpdateKeepsPool
<1>6. ASSUME NEW p \in Provers, deactivate(p) PROVE PoolInv'
  <2> DEFINE rec == [provers[p] EXCEPT !.active = FALSE]
  <2>1. rec \in Prover /\ ~rec.active
    BY <1>0 DEF Prover
  <2>2. provers[p].active /\ provers' = [provers EXCEPT ![p] = rec] /\ RemoveFromPool(p)
    BY <1>6 DEF deactivate
  <2> HIDE DEF rec
  <2> QED
    BY <1>1, <2>1, <2>2, LeaveKeepsPool
<1>7. ASSUME NEW p \in Provers, reactivate(p) PROVE PoolInv'
  <2> DEFINE rec == [provers[p] EXCEPT !.active = TRUE]
  <2>1. rec \in Prover /\ rec.active /\ rec.registered
    BY <1>0, <1>7 DEF Prover, reactivate
  <2>2. ~provers[p].active /\ provers' = [provers EXCEPT ![p] = rec] /\ AppendToPool(p)
    BY <1>7 DEF reactivate
  <2> HIDE DEF rec
  <2> QED
    BY <1>1, <2>1, <2>2, JoinKeepsPool
<1>8. ASSUME NEW p \in Provers, NEW caller, slash(caller, p) PROVE PoolInv'
  <2> DEFINE amount == SlashAmount(p)
             below == provers[p].stake - amount < minStake
             rep == (provers[p].reputation * SLASH_REPUTATION_PERCENT) \div 100
             rec == [provers[p] EXCEPT !.stake = @ - amount,
                                       !.reputation = (@ * SLASH_REPUTATION_PERCENT) \div 100,
                                       !.active = @ /\ ~below]
  <2>1. provers[p].stake - amount \in Nat
    BY SlashRange DEF PoolInv
  <2>2. rep \in 0 .. MAX_REPUTATION
    BY <1>0, ReputationRange
  <2>3. /\ rec \in Prover
        /\ rec.registered <=> provers[p].registered
        /\ rec.active <=> provers[p].active /\ ~below
    <3> HIDE DEF amount, below
    <3> QED
      BY <1>0, <2>1, <2>2 DEF Prover
  <2>4. provers' = [provers EXCEPT ![p] = rec]
    BY <1>8 DEF slash
  <2>5. CASE below /\ provers[p].active
    <3>1. RemoveFromPool(p)
      BY <1>8, <2>5 DEF slash
    <3> HIDE DEF rec, below
    <3> QED
      BY <1>1, <2>3, <2>4, <2>5, <3>1, LeaveKeepsPool
  <2>6. CASE ~(below /\ provers[p].active)
    <3>1. UNCHANGED poolVars
      BY <1>8, <2>6 DEF slash
    <3> HIDE DEF rec, below
    <3> QED
      BY <1>1, <2>3, <2>4, <2>6, <3>1, UpdateKeepsPool
  <2> QED
    BY <2>5, <2>6
<1>9. ASSUME NEW p \in Provers, NEW caller, recordSuccess(caller, p) PROVE PoolInv'
  <2> DEFINE rec == [provers[p] EXCEPT !.reputation = Raised(@)]
  <2>1. /\ rec \in Prover
        /\ rec.registered <=> provers[p].registered
        /\ rec.active <=> provers[p].active
    BY <1>0, ReputationRange DEF Prover
  <2>2. provers' = [provers EXCEPT ![p] = rec] /\ UNCHANGED poolVars
    BY <1>9 DEF recordSuccess
  <2> HIDE DEF rec
  <2> QED
    BY <1>1, <2>1, <2>2, UpdateKeepsPool
<1> QED
  BY <1>2, <1>3, <1>4, <1>5, <1>6, <1>7, <1>8, <1>9 DEF RegistryNext, ProverNext

(* PoolMatchesFlags: in every reachable state the array holds exactly the  *)
(* provers marked active, each at the index remembered for it, however     *)
(* register, addStake, deactivate, reactivate and slash are interleaved    *)
(* and however many provers there are.                                     *)
THEOREM PoolConsistent == RegistrySpec => []PoolMatchesFlags
<1>1. RegistryInit => PoolInv
  BY InitPool
<1>2. PoolInv /\ [RegistryNext]_registryVars => PoolInv'
  BY NextPool
<1>3. PoolInv => PoolMatchesFlags
  BY DEF PoolInv
<1> QED
  BY <1>1, <1>2, <1>3, PTL DEF RegistrySpec

----------------------------------------------------------------------------
(* The stakes *)

(* What StakesAreBacked needs besides itself: a prover that register may   *)
(* still accept has no stake yet.                                          *)
StakeInv ==
    /\ totalStaked = Total(Stakes)
    /\ tokenBalance = totalStaked
    /\ \A p \in Provers : ~provers[p].registered => provers[p].stake = 0

(* The variables that neither the pool nor the stakes depend on. *)
RegistryRestTypeOK ==
    /\ block \in Nat
    /\ paused \in BOOLEAN
    /\ slashers \subseteq Slashers
    /\ nextRequestId \in 0 .. MaxSelections
    /\ selectionRequests \in Seq(SelectionRequest)
    /\ configOps \in Nat

(* The sum of the stakes is a natural number. *)
LEMMA StakesNat == PoolTypeOK => Total(Stakes) \in Nat /\ Stakes \in [Provers -> Nat]
<1> SUFFICES ASSUME PoolTypeOK PROVE Total(Stakes) \in Nat /\ Stakes \in [Provers -> Nat]
  OBVIOUS
<1>1. Stakes \in [Provers -> Nat]
  BY DEF PoolTypeOK, Prover, Stakes
<1> QED
  BY <1>1, FiniteAssumption, TotalNat

(* A transaction that moves an amount between one prover and the registry  *)
(* keeps the three accounts of it in agreement.                            *)
LEMMA MoveKeepsStakes ==
    ASSUME PoolTypeOK, PoolTypeOK', StakeInv, NEW p \in Provers, NEW rec, NEW d \in Int,
           provers' = [provers EXCEPT ![p] = rec], rec.stake = provers[p].stake + d,
           ~rec.registered => rec.stake = 0,
           totalStaked' = totalStaked + d, tokenBalance' = tokenBalance + d
    PROVE  StakeInv'
<1>1. provers'[p] = rec /\ \A q \in Provers \ {p} : provers'[q] = provers[q]
  BY DEF PoolTypeOK
<1>2. /\ Stakes \in [Provers -> Int] /\ Stakes' \in [Provers -> Int]
      /\ Stakes[p] = provers[p].stake /\ Stakes'[p] = rec.stake
      /\ \A q \in Provers \ {p} : Stakes'[q] = Stakes[q]
  BY <1>1 DEF Stakes, PoolTypeOK, Prover
<1>3. Total(Stakes) \in Int /\ Total(Stakes') = Total(Stakes) - Stakes[p] + Stakes'[p]
  BY <1>2, FiniteAssumption, TotalChange
<1>4. totalStaked' = Total(Stakes') /\ tokenBalance' = totalStaked'
  <2>1. Stakes[p] \in Int
    BY <1>2
  <2>2. totalStaked = Total(Stakes) /\ tokenBalance = totalStaked
    BY DEF StakeInv
  <2>3. Stakes'[p] = Stakes[p] + d
    BY <1>2
  <2> QED
    BY <1>3, <2>1, <2>2, <2>3
<1>5. \A q \in Provers : ~provers'[q].registered => provers'[q].stake = 0
  BY <1>1 DEF StakeInv
<1> QED
  BY <1>4, <1>5 DEF StakeInv

(* One that changes something else about a prover keeps them too. *)
LEMMA UpdateKeepsStakes ==
    ASSUME PoolTypeOK, StakeInv, NEW p \in Provers, NEW rec,
           provers' = [provers EXCEPT ![p] = rec], rec.stake = provers[p].stake,
           ~rec.registered => rec.stake = 0, UNCHANGED stakeVars
    PROVE  StakeInv'
<1>1. provers'[p] = rec /\ \A q \in Provers \ {p} : provers'[q] = provers[q]
  BY DEF PoolTypeOK
<1>2. Stakes' = Stakes
  BY <1>1 DEF Stakes
<1> QED
  BY <1>1, <1>2 DEF StakeInv, stakeVars

(* Every transaction keeps them. *)
LEMMA NextStakes == PoolInv /\ PoolInv' /\ StakeInv /\ [RegistryNext]_registryVars => StakeInv'
<1> SUFFICES ASSUME PoolInv, PoolInv', StakeInv, [RegistryNext]_registryVars PROVE StakeInv'
  OBVIOUS
<1>0. ASSUME NEW p \in Provers
      PROVE  /\ provers[p] \in Prover
             /\ provers[p].stake \in Nat /\ provers[p].reputation \in 0 .. MAX_REPUTATION
             /\ provers[p].active \in BOOLEAN /\ provers[p].registered \in BOOLEAN
             /\ ~provers[p].registered => provers[p].stake = 0
  BY <1>0 DEF PoolInv, PoolTypeOK, Prover, StakeInv
<1>1. PoolTypeOK /\ PoolTypeOK'
  BY DEF PoolInv
<1>a. /\ totalStaked \in Int /\ tokenBalance \in Int
      /\ \A amount \in Amounts : amount \in Int
  BY <1>1, StakesNat, RegistryAssumption DEF StakeInv
<1>2. CASE NewBlock \/ AdminNext \/ SelectionNext \/ UNCHANGED registryVars
  <2>1. provers' = provers /\ UNCHANGED stakeVars
    BY <1>2 DEF NewBlock, AdminNext, SelectionNext, registryVars, pause, unpause, Configure, setMinStake,
       setSlashBasisPoints, setSlasher, requestProverSelection, fulfillProverSelection
  <2>2. Stakes' = Stakes
    BY <2>1 DEF Stakes
  <2> QED
    BY <2>1, <2>2 DEF StakeInv, stakeVars
<1>3. ASSUME NEW p \in Provers, NEW amount \in Amounts, register(p, amount) PROVE StakeInv'
  <2> DEFINE rec == [registered |-> TRUE, active |-> TRUE, stake |-> amount,
                     reputation |-> INITIAL_REPUTATION]
  <2>1. rec.stake = provers[p].stake + amount /\ rec.registered
    BY <1>0, <1>3, <1>a DEF register
  <2>2. /\ provers' = [provers EXCEPT ![p] = rec]
        /\ totalStaked' = totalStaked + amount /\ tokenBalance' = tokenBalance + amount
    BY <1>3 DEF register, Deposit
  <2> HIDE DEF rec
  <2> QED
    BY <1>1, <1>a, <2>1, <2>2, MoveKeepsStakes
<1>4. ASSUME NEW p \in Provers, NEW amount \in Amounts, addStake(p, amount) PROVE StakeInv'
  <2> DEFINE reactivated == ~provers[p].active /\ provers[p].stake + amount >= minStake
             rec == [provers[p] EXCEPT !.stake = @ + amount, !.active = @ \/ reactivated]
  <2>1. rec.stake = provers[p].stake + amount /\ rec.registered
    <3> HIDE DEF reactivated
    <3> QED
      BY <1>0, <1>4 DEF addStake, Prover
  <2>2. /\ provers' = [provers EXCEPT ![p] = rec]
        /\ totalStaked' = totalStaked + amount /\ tokenBalance' = tokenBalance + amount
    BY <1>4 DEF addStake, Deposit
  <2> HIDE DEF rec
  <2> QED
    BY <1>1, <1>a, <2>1, <2>2, MoveKeepsStakes
<1>5. ASSUME NEW p \in Provers, NEW amount \in Amounts, withdrawStake(p, amount) PROVE StakeInv'
  <2> DEFINE rec == [provers[p] EXCEPT !.stake = @ - amount]
  <2>1. -amount \in Int
    BY <1>a
  <2>2. rec.stake = provers[p].stake + (-amount) /\ rec.registered
    BY <1>0, <1>5, <1>a DEF withdrawStake, Prover
  <2>3. /\ provers' = [provers EXCEPT ![p] = rec]
        /\ totalStaked' = totalStaked + (-amount) /\ tokenBalance' = tokenBalance + (-amount)
    BY <1>5, <1>a DEF withdrawStake, Withdraw
  <2> HIDE DEF rec
  <2> QED
    BY <1>1, <2>1, <2>2, <2>3, MoveKeepsStakes
<1>6. ASSUME NEW p \in Provers, deactivate(p) PROVE StakeInv'
  <2> DEFINE rec == [provers[p] EXCEPT !.active = FALSE]
  <2>1. rec.stake = provers[p].stake /\ (~rec.registered => rec.stake = 0)
    BY <1>0 DEF Prover
  <2>2. provers' = [provers EXCEPT ![p] = rec] /\ UNCHANGED stakeVars
    BY <1>6 DEF deactivate
  <2> HIDE DEF rec
  <2> QED
    BY <1>1, <2>1, <2>2, UpdateKeepsStakes
<1>7. ASSUME NEW p \in Provers, reactivate(p) PROVE StakeInv'
  <2> DEFINE rec == [provers[p] EXCEPT !.active = TRUE]
  <2>1. rec.stake = provers[p].stake /\ (~rec.registered => rec.stake = 0)
    BY <1>0 DEF Prover
  <2>2. provers' = [provers EXCEPT ![p] = rec] /\ UNCHANGED stakeVars
    BY <1>7 DEF reactivate
  <2> HIDE DEF rec
  <2> QED
    BY <1>1, <2>1, <2>2, UpdateKeepsStakes
<1>8. ASSUME NEW p \in Provers, NEW caller, slash(caller, p) PROVE StakeInv'
  <2> DEFINE amount == SlashAmount(p)
             below == provers[p].stake - amount < minStake
             rec == [provers[p] EXCEPT !.stake = @ - amount,
                                       !.reputation = (@ * SLASH_REPUTATION_PERCENT) \div 100,
                                       !.active = @ /\ ~below]
  <2>1. amount \in Int /\ -amount \in Int
    <3>1. amount \in Nat
      BY <1>1, SlashRange
    <3> HIDE DEF amount
    <3> QED
      BY <3>1
  <2>2. rec.stake = provers[p].stake + (-amount) /\ rec.registered
    <3>1. provers[p].registered
      BY <1>8 DEF slash
    <3> HIDE DEF amount, below
    <3> QED
      BY <1>0, <2>1, <3>1 DEF Prover
  <2>3. provers' = [provers EXCEPT ![p] = rec] /\ Withdraw(amount)
    BY <1>8 DEF slash
  <2> HIDE DEF amount, below, rec
  <2>4. totalStaked' = totalStaked + (-amount) /\ tokenBalance' = tokenBalance + (-amount)
    BY <1>a, <2>1, <2>3 DEF Withdraw
  <2> QED
    BY <1>1, <2>1, <2>2, <2>3, <2>4, MoveKeepsStakes
<1>9. ASSUME NEW p \in Provers, NEW caller, recordSuccess(caller, p) PROVE StakeInv'
  <2> DEFINE rec == [provers[p] EXCEPT !.reputation = Raised(@)]
  <2>1. rec.stake = provers[p].stake /\ (~rec.registered => rec.stake = 0)
    BY <1>0 DEF Prover
  <2>2. provers' = [provers EXCEPT ![p] = rec] /\ UNCHANGED stakeVars
    BY <1>9 DEF recordSuccess
  <2> HIDE DEF rec
  <2> QED
    BY <1>1, <2>1, <2>2, UpdateKeepsStakes
<1> QED
  BY <1>2, <1>3, <1>4, <1>5, <1>6, <1>7, <1>8, <1>9 DEF RegistryNext, ProverNext

(* The remaining variables keep their types. *)
LEMMA NextRest == RegistryRestTypeOK /\ [RegistryNext]_registryVars => RegistryRestTypeOK'
<1> SUFFICES ASSUME RegistryRestTypeOK, [RegistryNext]_registryVars PROVE RegistryRestTypeOK'
  OBVIOUS
<1>1. CASE NewBlock \/ UNCHANGED registryVars
  BY <1>1 DEF RegistryRestTypeOK, NewBlock, registryVars, configVars, selectionVars
<1>2. CASE AdminNext
  <2>1. UNCHANGED <<block, selectionRequests, nextRequestId>>
    BY <1>2 DEF AdminNext, pause, unpause, Configure, setMinStake, setSlashBasisPoints, setSlasher,
       selectionVars
  <2>2. configOps' \in Nat
    BY <1>2 DEF AdminNext, pause, unpause, Configure, setMinStake, setSlashBasisPoints, setSlasher,
       RegistryRestTypeOK
  <2>3. paused' \in BOOLEAN
    BY <1>2, Zenon DEF AdminNext, pause, unpause, Configure, setMinStake, setSlashBasisPoints,
       setSlasher, RegistryRestTypeOK
  <2>4. slashers' \subseteq Slashers
    BY <1>2 DEF AdminNext, pause, unpause, Configure, setMinStake, setSlashBasisPoints, setSlasher,
       RegistryRestTypeOK
  <2> QED
    BY <2>1, <2>2, <2>3, <2>4 DEF RegistryRestTypeOK
<1>3. ASSUME NEW p \in Provers, ProverNext(p) PROVE RegistryRestTypeOK'
  <2>1. UNCHANGED <<block, configVars, selectionVars>>
    BY <1>3 DEF ProverNext, register, addStake, withdrawStake, deactivate, reactivate, slash,
       recordSuccess
  <2> QED
    BY <2>1 DEF RegistryRestTypeOK, configVars, selectionVars
<1>4. ASSUME NEW secret \in Secrets, requestProverSelection(secret) PROVE RegistryRestTypeOK'
  <2> DEFINE rec == [commitment |-> secret, blockNumber |-> block, fulfilled |-> FALSE]
  <2>1. rec \in SelectionRequest
    BY DEF SelectionRequest, RegistryRestTypeOK
  <2>2. selectionRequests' = Append(selectionRequests, rec)
    BY <1>4 DEF requestProverSelection
  <2>3. selectionRequests' \in Seq(SelectionRequest)
    BY <2>1, <2>2 DEF RegistryRestTypeOK
  <2>4. nextRequestId' \in 0 .. MaxSelections
    BY <1>4, RegistryAssumption DEF requestProverSelection, SelectionIds, RegistryRestTypeOK
  <2> QED
    BY <1>4, <2>3, <2>4 DEF requestProverSelection, RegistryRestTypeOK, configVars
<1>5. ASSUME NEW id \in SelectionIds, NEW secret \in Secrets, fulfillProverSelection(id, secret)
      PROVE  RegistryRestTypeOK'
  <2>1. selectionRequests \in Seq(SelectionRequest)
    BY DEF RegistryRestTypeOK
  <2>2. selectionRequests' = [selectionRequests EXCEPT ![id + 1].fulfilled = TRUE]
    BY <1>5 DEF fulfillProverSelection
  <2>3. selectionRequests' \in Seq(SelectionRequest)
    <3>1. CASE id + 1 \in 1 .. Len(selectionRequests)
      <4> DEFINE rec == [selectionRequests[id + 1] EXCEPT !.fulfilled = TRUE]
      <4>1. selectionRequests[id + 1] \in SelectionRequest
        BY <2>1, <3>1, ElementOfSeq
      <4>2. rec \in SelectionRequest
        BY <4>1 DEF SelectionRequest
      <4>3. selectionRequests' = [selectionRequests EXCEPT ![id + 1] = rec]
        BY <2>2
      <4> HIDE DEF rec
      <4> QED
        BY <2>1, <3>1, <4>2, <4>3, ExceptSeq
    <3>2. CASE id + 1 \notin 1 .. Len(selectionRequests)
      <4>1. DOMAIN selectionRequests = 1 .. Len(selectionRequests)
        BY <2>1
      <4>2. selectionRequests' = selectionRequests
        BY <2>1, <2>2, <3>2, <4>1
      <4> QED
        BY <2>1, <4>2
    <3> QED
      BY <3>1, <3>2
  <2> QED
    BY <1>5, <2>3 DEF fulfillProverSelection, RegistryRestTypeOK, configVars
<1> QED
  BY <1>1, <1>2, <1>3, <1>4, <1>5 DEF RegistryNext, SelectionNext

(* The initial state of the stakes and of the rest. *)
LEMMA InitStakes == RegistryInit => StakeInv /\ RegistryRestTypeOK
<1> SUFFICES ASSUME RegistryInit PROVE StakeInv /\ RegistryRestTypeOK
  OBVIOUS
<1>1. Stakes \in [Provers -> {0}]
  BY DEF RegistryInit, Stakes, NoProver
<1>2. Total(Stakes) = 0
  BY <1>1, FiniteAssumption, TotalZero
<1>3. \A p \in Provers : ~provers[p].registered => provers[p].stake = 0
  BY DEF RegistryInit, NoProver
<1>4. RegistryRestTypeOK
  <2>1. <<>> \in Seq(SelectionRequest)
    OBVIOUS
  <2>2. selectionRequests \in Seq(SelectionRequest)
    BY <2>1, Zenon DEF RegistryInit
  <2>3. 0 \in 0 .. MaxSelections
    BY RegistryAssumption
  <2> QED
    BY <2>2, <2>3 DEF RegistryInit, RegistryRestTypeOK
<1> QED
  BY <1>2, <1>3, <1>4 DEF RegistryInit, StakeInv

(* StakesAreBacked: the registry's token balance, totalStaked and the sum  *)
(* of the stakes are one number, never below zero, for any number of       *)
(* provers and through every withdrawal and slash.                         *)
THEOREM StakesBacked == RegistrySpec => []StakesAreBacked
<1>1. RegistryInit => PoolInv /\ StakeInv /\ RegistryRestTypeOK
  BY InitPool, InitStakes
<1>2. PoolInv /\ StakeInv /\ RegistryRestTypeOK /\ [RegistryNext]_registryVars => (PoolInv /\ StakeInv /\ RegistryRestTypeOK)'
  BY NextPool, NextStakes, NextRest
<1>3. PoolInv /\ StakeInv /\ RegistryRestTypeOK => StakesAreBacked
  BY StakesNat DEF PoolInv, PoolTypeOK, StakeInv, RegistryRestTypeOK, StakesAreBacked, RegistryTypeOK
<1> QED
  BY <1>1, <1>2, <1>3, PTL DEF RegistrySpec

----------------------------------------------------------------------------
(* Selection *)

(* A function on 0 .. n that never falls from one number to the next, as   *)
(* the cumulative weights are.                                             *)
Rising(c, n) == c \in [0 .. n -> Nat] /\ \A i \in 1 .. n : c[i - 1] <= c[i]

(* It never falls over any distance. *)
LEMMA RisingFurther ==
    ASSUME NEW n \in Nat, NEW c, Rising(c, n), NEW i \in 0 .. n
    PROVE  \A j \in i .. n : c[i] <= c[j]
<1> DEFINE Bad == {j \in i .. n : ~ (c[i] <= c[j])}
<1>1. Bad \in SUBSET Nat
  OBVIOUS
<1>2. SUFFICES ASSUME Bad # {} PROVE FALSE
  OBVIOUS
<1>3. PICK j \in Bad : \A m \in Bad : j <= m
  <2> HIDE DEF Bad
  <2> QED
    BY <1>1, <1>2, LeastNumber
<1>4. j \in i .. n /\ ~ (c[i] <= c[j]) /\ c[i] \in Nat /\ c[j] \in Nat
  BY <1>3 DEF Rising
<1>5. j # i /\ j - 1 \in i .. n /\ j \in 1 .. n
  BY <1>4
<1>6. j - 1 \notin Bad
  BY <1>3, <1>5
<1>7. c[i] <= c[j - 1] /\ c[j - 1] <= c[j] /\ c[j - 1] \in Nat
  BY <1>5, <1>6 DEF Rising
<1> QED
  BY <1>4, <1>7

(* Every number below its last value falls in one of its intervals. *)
LEMMA RisingCovers ==
    ASSUME NEW n \in Nat, NEW c, Rising(c, n), c[0] = 0, NEW r \in Nat, r < c[n]
    PROVE  \E i \in 1 .. n : c[i - 1] <= r /\ r < c[i]
<1> DEFINE Above == {i \in 0 .. n : r < c[i]}
<1>1. Above \in SUBSET Nat /\ Above # {}
  OBVIOUS
<1>2. PICK i \in Above : \A m \in Above : i <= m
  <2> HIDE DEF Above
  <2> QED
    BY <1>1, LeastNumber
<1>3. i \in 0 .. n /\ r < c[i] /\ i # 0
  BY <1>2
<1>4. i \in 1 .. n /\ i - 1 \in 0 .. n /\ i - 1 \notin Above
  BY <1>2, <1>3
<1>5. c[i - 1] \in Nat /\ ~ (r < c[i - 1])
  BY <1>4 DEF Rising
<1> QED
  BY <1>3, <1>4, <1>5

(* The weight of a prover is a natural number. *)
LEMMA WeightNat == PoolTypeOK => \A p \in Provers : Weight(p) \in Nat
<1> SUFFICES ASSUME PoolTypeOK, NEW p \in Provers PROVE Weight(p) \in Nat
  OBVIOUS
<1> DEFINE product == provers[p].stake * provers[p].reputation
<1>0. provers[p] \in Prover
  BY DEF PoolTypeOK
<1>1. provers[p].stake \in Nat /\ provers[p].reputation \in Nat
  <2>1. provers[p].stake \in Nat /\ provers[p].reputation \in 0 .. MAX_REPUTATION
    BY <1>0 DEF Prover
  <2>2. MAX_REPUTATION \in Nat
    BY RegistryAssumption
  <2> QED
    BY <2>1, <2>2
<1>2. product \in Nat
  BY <1>1
<1>3. MAX_REPUTATION \in Nat \ {0}
  BY RegistryAssumption
<1> HIDE DEF product
<1>4. product \div MAX_REPUTATION \in Nat
  BY <1>2, <1>3
<1> QED
  BY <1>4 DEF Weight, product

(* The cumulative weights of the first provers of the array. *)
Cumulative == [i \in 0 .. Len(activeProvers) |-> CumulativeWeight(i)]

(* Each prover of the array adds its weight. *)
LEMMA CumulativeSteps ==
    ASSUME PoolTypeOK
    PROVE  /\ Len(activeProvers) \in Nat
           /\ Rising(Cumulative, Len(activeProvers))
           /\ Cumulative[0] = 0
           /\ \A i \in 1 .. Len(activeProvers) :
                 Cumulative[i] = Cumulative[i - 1] + Weight(activeProvers[i])
<1> DEFINE n == Len(activeProvers)
           w(i) == [j \in 1 .. i |-> Weight(activeProvers[j])]
<1>1. n \in Nat /\ \A i \in 1 .. n : activeProvers[i] \in Provers
  BY DEF PoolTypeOK
<1>2. \A i \in 1 .. n : Weight(activeProvers[i]) \in Nat
  BY <1>1, WeightNat
<1>3. \A i \in 0 .. n : IsFiniteSet(1 .. i) /\ w(i) \in [1 .. i -> Nat]
  <2> SUFFICES ASSUME NEW i \in 0 .. n PROVE IsFiniteSet(1 .. i) /\ w(i) \in [1 .. i -> Nat]
    OBVIOUS
  <2>1. i \in Int
    BY <1>1
  <2>2. IsFiniteSet(1 .. i)
    BY <2>1, FS_Interval
  <2>3. \A j \in 1 .. i : j \in 1 .. n
    BY <1>1
  <2> QED
    BY <1>2, <2>2, <2>3
<1>4. \A i \in 0 .. n : Total(w(i)) \in Nat
  <2> HIDE DEF w
  <2> SUFFICES ASSUME NEW i \in 0 .. n PROVE Total(w(i)) \in Nat
    OBVIOUS
  <2> QED
    BY <1>3, TotalNat
<1>5. Cumulative \in [0 .. n -> Nat] /\ \A i \in 0 .. n : Cumulative[i] = Total(w(i))
  BY <1>4 DEF Cumulative, CumulativeWeight
<1>6. Total(w(0)) = 0
  <2>1. w(0) \in [1 .. 0 -> {0}] /\ IsFiniteSet(1 .. 0)
    BY <1>3
  <2> HIDE DEF w
  <2> QED
    BY <2>1, TotalZero
<1>7. ASSUME NEW i \in 1 .. n
      PROVE  Total(w(i)) = Total(w(i - 1)) + Weight(activeProvers[i])
  <2>1. /\ i - 1 \in 0 .. n /\ i \notin 1 .. (i - 1) /\ (1 .. (i - 1)) \cup {i} = 1 .. i
    BY <1>1
  <2>2. w(i - 1) \in [1 .. (i - 1) -> Int] /\ IsFiniteSet(1 .. (i - 1))
    BY <1>3, <2>1
  <2>3. w(i) \in [(1 .. (i - 1)) \cup {i} -> Int]
    BY <1>3, <2>1
  <2>4. \A j \in 1 .. (i - 1) : w(i)[j] = w(i - 1)[j]
    BY <2>1
  <2>5. w(i)[i] = Weight(activeProvers[i])
    BY <1>1
  <2> DEFINE S == 1 .. (i - 1)
             h == w(i - 1)
             f == w(i)
  <2>a. IsFiniteSet(S) /\ Extends(f, h, S, i)
    BY <2>1, <2>2, <2>3, <2>4, Zenon DEF Extends
  <2> HIDE DEF w, S, h, f
  <2>6. Total(f) = Total(h) + f[i]
    BY <2>a, TotalExtend
  <2> QED
    BY <2>5, <2>6 DEF f, h
<1>8. \A i \in 1 .. n : Cumulative[i] = Cumulative[i - 1] + Weight(activeProvers[i])
  <2> HIDE DEF w
  <2> QED
    BY <1>1, <1>5, <1>7
<1>9. Rising(Cumulative, n)
  <2>1. ASSUME NEW i \in 1 .. n PROVE Cumulative[i - 1] <= Cumulative[i]
    <3>1. /\ Cumulative[i] = Cumulative[i - 1] + Weight(activeProvers[i])
          /\ Weight(activeProvers[i]) \in Nat
      BY <1>2, <1>8
    <3>2. Cumulative[i - 1] \in Nat
      BY <1>1, <1>5
    <3> QED
      BY <3>1, <3>2
  <2> QED
    BY <1>5, <2>1 DEF Rising
<1>10. Cumulative[0] = 0
  <2> HIDE DEF w
  <2> QED
    BY <1>1, <1>5, <1>6
<1> QED
  BY <1>1, <1>8, <1>9, <1>10

(* The loop stops at the prover in whose interval the random value falls.  *)
LEMMA SelectedAt ==
    ASSUME PoolTypeOK, NEW i \in 1 .. Len(activeProvers), NEW r \in Nat,
           Cumulative[i - 1] <= r, r < Cumulative[i]
    PROVE  Selected(r) = activeProvers[i]
<1> DEFINE n == Len(activeProvers)
           first(k) == r < CumulativeWeight(k) /\ \A j \in 1 .. k - 1 : ~ (r < CumulativeWeight(j))
           k0 == CHOOSE k \in 1 .. n : first(k)
<1>1. n \in Nat /\ Rising(Cumulative, n)
  BY CumulativeSteps
<1>2. \A k \in 0 .. n : Cumulative[k] = CumulativeWeight(k) /\ CumulativeWeight(k) \in Nat
  BY <1>1 DEF Cumulative, Rising
<1>3. \A j \in 1 .. i - 1 : ~ (r < CumulativeWeight(j))
  <2> SUFFICES ASSUME NEW j \in 1 .. i - 1 PROVE ~ (r < CumulativeWeight(j))
    OBVIOUS
  <2>1. j \in 0 .. n /\ i - 1 \in j .. n /\ i - 1 \in 0 .. n
    BY <1>1
  <2>2. Cumulative[j] <= Cumulative[i - 1]
    BY <1>1, <2>1, RisingFurther
  <2> QED
    BY <1>2, <2>1, <2>2
<1>4. first(i)
  BY <1>1, <1>2, <1>3
<1>5. \A k \in 1 .. n : first(k) => k = i
  <2> SUFFICES ASSUME NEW k \in 1 .. n, first(k) PROVE k = i
    OBVIOUS
  <2>1. ~ (k < i)
    BY <1>1, <1>3
  <2>2. ~ (i < k)
    BY <1>1, <1>4
  <2> QED
    BY <1>1, <2>1, <2>2
<1>6. k0 \in 1 .. n /\ first(k0)
  <2> HIDE DEF first
  <2> QED
    BY <1>4, Zenon
<1>7. k0 = i
  <2> HIDE DEF first, k0
  <2> QED
    BY <1>5, <1>6
<1>8. Selected(r) = activeProvers[k0]
  BY Zenon DEF Selected
<1> QED
  BY <1>7, <1>8

(* So the random values that select a prover are the numbers of its        *)
(* interval, as many as its weight.                                        *)
LEMMA Proportional == PoolInv => SelectionIsProportional
<1> SUFFICES ASSUME PoolInv, NEW p \in Provers
             PROVE  Cardinality({r \in 0 .. TotalWeight - 1 : Selected(r) = p})
                      = IF provers[p].active THEN Weight(p) ELSE 0
  BY DEF SelectionIsProportional
<1> DEFINE n == Len(activeProvers)
           Hits == {r \in 0 .. TotalWeight - 1 : Selected(r) = p}
<1>1. /\ PoolTypeOK /\ PoolMatchesFlags
      /\ n \in Nat /\ Rising(Cumulative, n) /\ Cumulative[0] = 0
      /\ \A i \in 1 .. n : Cumulative[i] = Cumulative[i - 1] + Weight(activeProvers[i])
  BY CumulativeSteps DEF PoolInv
<1>2. TotalWeight = Cumulative[n] /\ \A i \in 0 .. n : Cumulative[i] \in Nat
  BY <1>1 DEF TotalWeight, Cumulative, Rising
<1>3. ASSUME NEW r \in 0 .. TotalWeight - 1
      PROVE  \E i \in 1 .. n : /\ Cumulative[i - 1] <= r /\ r < Cumulative[i]
                              /\ Selected(r) = activeProvers[i]
  <2>1. r \in Nat /\ r < Cumulative[n]
    BY <1>1, <1>2
  <2>2. PICK i \in 1 .. n : Cumulative[i - 1] <= r /\ r < Cumulative[i]
    BY <1>1, <2>1, RisingCovers
  <2>3. Selected(r) = activeProvers[i]
    BY <1>1, <2>1, <2>2, SelectedAt
  <2> QED
    BY <2>2, <2>3
<1>4. CASE provers[p].active
  <2> DEFINE i0 == proverIndex[p] + 1
             lo == Cumulative[i0 - 1]
             hi == Cumulative[i0]
  <2>1. i0 \in 1 .. n /\ activeProvers[i0] = p
    BY <1>1, <1>4 DEF PoolMatchesFlags, PoolTypeOK
  <2>2. \A i \in 1 .. n : activeProvers[i] = p => i = i0
    BY <1>1 DEF PoolMatchesFlags
  <2> HIDE DEF i0
  <2>3. lo \in Nat /\ hi \in Nat /\ hi = lo + Weight(p) /\ Weight(p) \in Nat
    BY <1>1, <1>2, <2>1, WeightNat
  <2>4. hi <= TotalWeight
    BY <1>1, <1>2, <2>1, RisingFurther
  <2>5. ASSUME NEW r \in 0 .. TotalWeight - 1, Selected(r) = p
        PROVE  r \in lo .. hi - 1
    <3>1. PICK i \in 1 .. n : /\ Cumulative[i - 1] <= r /\ r < Cumulative[i]
                              /\ Selected(r) = activeProvers[i]
      BY <1>3
    <3>2. i = i0
      BY <2>2, <2>5, <3>1
    <3>3. lo <= r /\ r < hi /\ r \in Int
      BY <1>2, <3>1, <3>2
    <3> HIDE DEF lo, hi
    <3> QED
      BY <2>3, <3>3
  <2>6. ASSUME NEW r \in lo .. hi - 1
        PROVE  r \in 0 .. TotalWeight - 1 /\ Selected(r) = p
    <3>1. r \in Nat /\ lo <= r /\ r < hi /\ r \in 0 .. TotalWeight - 1
      <4> HIDE DEF lo, hi
      <4>1. TotalWeight \in Nat
        BY <1>1, <1>2
      <4> QED
        BY <2>3, <2>4, <4>1
    <3>2. Selected(r) = activeProvers[i0]
      BY <1>1, <2>1, <3>1, SelectedAt
    <3> QED
      BY <2>1, <3>1, <3>2
  <2> HIDE DEF lo, hi
  <2>7. Hits = lo .. hi - 1
    BY <2>5, <2>6
  <2>8. Cardinality(lo .. hi - 1) = Weight(p)
    <3>1. lo \in Int /\ hi - 1 \in Int
      BY <2>3
    <3>2. Cardinality(lo .. hi - 1) = IF lo > hi - 1 THEN 0 ELSE hi - 1 - lo + 1
      BY <3>1, FS_Interval
    <3> QED
      BY <2>3, <3>2
  <2> QED
    BY <1>4, <2>7, <2>8
<1>5. CASE ~provers[p].active
  <2>1. \A r \in 0 .. TotalWeight - 1 : Selected(r) # p
    BY <1>1, <1>3, <1>5 DEF PoolMatchesFlags
  <2>2. Hits = {}
    BY <2>1
  <2> QED
    BY <1>5, <2>2, FS_EmptySet
<1> QED
  BY <1>4, <1>5

(* SelectionIsProportional: in every reachable state the loop of           *)
(* _weightedSelect gives each prover exactly as many random values as its  *)
(* weight, for any number of provers, stakes and reputations.              *)
THEOREM FairSelection == RegistrySpec => []SelectionIsProportional
<1>1. RegistryInit => PoolInv
  BY InitPool
<1>2. PoolInv /\ [RegistryNext]_registryVars => PoolInv'
  BY NextPool
<1>3. PoolInv => SelectionIsProportional
  BY Proportional
<1> QED
  BY <1>1, <1>2, <1>3, PTL DEF RegistrySpec

----------------------------------------------------------------------------
(* The minimum stake *)

NoFallBelowMinimum ==
    \A p \in Provers :
        provers'[p].active /\ provers'[p].stake < minStake' =>
            \/ minStake' > minStake
            \/ provers[p].active /\ provers[p].stake < minStake

(* A step that changes one prover and not the minimum only has to be       *)
(* looked at for that prover.                                              *)
LEMMA OneProverBelow ==
    ASSUME PoolTypeOK, NEW p \in Provers, NEW rec,
           provers' = [provers EXCEPT ![p] = rec], UNCHANGED minStake,
           rec.active /\ rec.stake < minStake => provers[p].active /\ provers[p].stake < minStake
    PROVE  NoFallBelowMinimum
<1>1. provers'[p] = rec /\ \A q \in Provers \ {p} : provers'[q] = provers[q]
  BY DEF PoolTypeOK
<1> QED
  BY <1>1 DEF NoFallBelowMinimum

(* No withdrawal, slash or activation puts an active prover below the      *)
(* minimum.                                                                *)
LEMMA NextBelow == PoolInv /\ [RegistryNext]_registryVars => NoFallBelowMinimum
<1> SUFFICES ASSUME PoolInv, [RegistryNext]_registryVars PROVE NoFallBelowMinimum
  OBVIOUS
<1>0. /\ PoolTypeOK /\ minStake \in Nat
      /\ \A p \in Provers : /\ provers[p] \in Prover /\ provers[p].stake \in Nat
                            /\ provers[p].active \in BOOLEAN
  BY DEF PoolInv, PoolTypeOK, Prover
<1>1. CASE NewBlock \/ SelectionNext \/ UNCHANGED registryVars
  <2>1. provers' = provers /\ minStake' = minStake
    BY <1>1 DEF NewBlock, SelectionNext, registryVars, configVars, requestProverSelection,
       fulfillProverSelection
  <2> QED
    BY <2>1 DEF NoFallBelowMinimum
<1>2. CASE AdminNext
  <2>1. provers' = provers
    BY <1>2 DEF AdminNext, pause, unpause, Configure, setMinStake, setSlashBasisPoints, setSlasher
  <2>2. minStake' \in Nat
    BY <1>0, <1>2, RegistryAssumption DEF AdminNext, pause, unpause, setMinStake,
       setSlashBasisPoints, setSlasher
  <2> QED
    BY <1>0, <2>1, <2>2 DEF NoFallBelowMinimum
<1>3. ASSUME NEW p \in Provers, NEW amount \in Amounts, register(p, amount)
      PROVE  NoFallBelowMinimum
  <2> DEFINE rec == [registered |-> TRUE, active |-> TRUE, stake |-> amount,
                     reputation |-> INITIAL_REPUTATION]
  <2>1. ~(rec.stake < minStake)
    BY <1>0, <1>3, RegistryAssumption DEF register
  <2>2. provers' = [provers EXCEPT ![p] = rec] /\ UNCHANGED minStake
    BY <1>3 DEF register, configVars
  <2> HIDE DEF rec
  <2> QED
    BY <1>0, <2>1, <2>2, OneProverBelow
<1>4. ASSUME NEW p \in Provers, NEW amount \in Amounts, addStake(p, amount)
      PROVE  NoFallBelowMinimum
  <2> DEFINE reactivated == ~provers[p].active /\ provers[p].stake + amount >= minStake
             rec == [provers[p] EXCEPT !.stake = @ + amount, !.active = @ \/ reactivated]
  <2>1. provers' = [provers EXCEPT ![p] = rec] /\ UNCHANGED minStake
    BY <1>4 DEF addStake, configVars
  <2>2. /\ rec.stake = provers[p].stake + amount
        /\ rec.active <=> provers[p].active \/ reactivated
    <3> HIDE DEF reactivated
    <3> QED
      BY <1>0 DEF Prover
  <2>3. rec.active /\ rec.stake < minStake => provers[p].active /\ provers[p].stake < minStake
    <3> HIDE DEF rec
    <3> QED
      BY <1>0, <2>2, RegistryAssumption
  <2> HIDE DEF rec
  <2> QED
    BY <1>0, <2>1, <2>3, OneProverBelow
<1>5. ASSUME NEW p \in Provers, NEW amount \in Amounts, withdrawStake(p, amount)
      PROVE  NoFallBelowMinimum
  <2> DEFINE rec == [provers[p] EXCEPT !.stake = @ - amount]
  <2>1. /\ provers' = [provers EXCEPT ![p] = rec] /\ UNCHANGED minStake
        /\ provers[p].active => provers[p].stake - amount >= minStake
    BY <1>5 DEF withdrawStake, KeepsMinimum, configVars
  <2>2. rec.stake = provers[p].stake - amount /\ rec.active = provers[p].active
    BY <1>0 DEF Prover
  <2>3. ~(rec.active /\ rec.stake < minStake)
    <3> HIDE DEF rec
    <3> QED
      BY <1>0, <2>1, <2>2, RegistryAssumption
  <2> HIDE DEF rec
  <2> QED
    BY <1>0, <2>1, <2>3, OneProverBelow
<1>6. ASSUME NEW p \in Provers, deactivate(p) \/ reactivate(p)
      PROVE  NoFallBelowMinimum
  <2>1. CASE deactivate(p)
    <3> DEFINE rec == [provers[p] EXCEPT !.active = FALSE]
    <3>1. ~rec.active
      BY <1>0 DEF Prover
    <3>2. provers' = [provers EXCEPT ![p] = rec] /\ UNCHANGED minStake
      BY <2>1 DEF deactivate, configVars
    <3> HIDE DEF rec
    <3> QED
      BY <1>0, <3>1, <3>2, OneProverBelow
  <2>2. CASE reactivate(p)
    <3> DEFINE rec == [provers[p] EXCEPT !.active = TRUE]
    <3>1. rec.stake >= minStake
      BY <1>0, <2>2 DEF Prover, reactivate
    <3>2. rec.stake = provers[p].stake
      BY <1>0 DEF Prover
    <3>3. provers' = [provers EXCEPT ![p] = rec] /\ UNCHANGED minStake
      BY <2>2 DEF reactivate, configVars
    <3> HIDE DEF rec
    <3>4. ~(rec.stake < minStake)
      BY <1>0, <3>1, <3>2
    <3> QED
      BY <1>0, <3>3, <3>4, OneProverBelow
  <2> QED
    BY <1>6, <2>1, <2>2
<1>7. ASSUME NEW p \in Provers, NEW caller, slash(caller, p) PROVE NoFallBelowMinimum
  <2> DEFINE amount == SlashAmount(p)
             below == provers[p].stake - amount < minStake
             rec == [provers[p] EXCEPT !.stake = @ - amount,
                                       !.reputation = (@ * SLASH_REPUTATION_PERCENT) \div 100,
                                       !.active = @ /\ ~below]
  <2>1. provers' = [provers EXCEPT ![p] = rec] /\ UNCHANGED minStake
    BY <1>7 DEF slash, configVars
  <2>2. rec.stake = provers[p].stake - amount /\ (rec.active <=> provers[p].active /\ ~below)
    <3> HIDE DEF amount, below
    <3> QED
      BY <1>0 DEF Prover
  <2>3. ~(rec.active /\ rec.stake < minStake)
    <3> HIDE DEF rec, amount
    <3> QED
      BY <2>2
  <2> HIDE DEF rec
  <2> QED
    BY <1>0, <2>1, <2>3, OneProverBelow
<1>8. ASSUME NEW p \in Provers, NEW caller, recordSuccess(caller, p) PROVE NoFallBelowMinimum
  <2> DEFINE rec == [provers[p] EXCEPT !.reputation = Raised(@)]
  <2>1. provers' = [provers EXCEPT ![p] = rec] /\ UNCHANGED minStake
    BY <1>8 DEF recordSuccess, configVars
  <2>2. rec.stake = provers[p].stake /\ rec.active = provers[p].active
    BY <1>0 DEF Prover
  <2> HIDE DEF rec
  <2> QED
    BY <1>0, <2>1, <2>2, OneProverBelow
<1> QED
  BY <1>1, <1>2, <1>3, <1>4, <1>5, <1>6, <1>7, <1>8 DEF RegistryNext, ProverNext

(* BelowMinimumOnlyByRaise: whatever the stakes, the slash percentage and  *)
(* the reconfigurations, an active prover is below the minimum stake only  *)
(* because setMinStake raised it.                                          *)
THEOREM MinimumKept == RegistrySpec => BelowMinimumOnlyByRaise
<1>1. RegistryInit => PoolInv
  BY InitPool
<1>2. PoolInv /\ [RegistryNext]_registryVars => PoolInv'
  BY NextPool
<1>3. PoolInv /\ [RegistryNext]_registryVars => [NoFallBelowMinimum]_registryVars
  BY NextBelow
<1>4. RegistrySpec => [][NoFallBelowMinimum]_registryVars
  BY <1>1, <1>2, <1>3, PTL DEF RegistrySpec
<1> QED
  BY <1>4 DEF BelowMinimumOnlyByRaise, NoFallBelowMinimum

----------------------------------------------------------------------------
(* Part 2: ProverNode *)

(* The inductive invariant *)

(* No request is in the heap twice. *)
DistinctJobs == \A j, k \in heap : j.id = k.id => j = k

QueueInv ==
    /\ heap \subseteq [id : Requests, score : Scores] /\ IsFiniteSet(heap)
    /\ Cardinality(heap) <= max_size
    /\ DistinctJobs
    /\ seen = Queued
    /\ IsFiniteSet(Queued) /\ Cardinality(Queued) = Cardinality(heap)
    /\ Running \cap Queued = {}
    /\ phase \in {"idle", "filling"} => Running = {}

TxOf(r, t) == [nonce |-> t.nonce, call |-> t.call, req |-> r]

(* What is known of a request whose task has got to t: a transaction that  *)
(* is waited for is in the mempool or was mined, one that collided is not  *)
(* the only one with its nonce, and what is planned after an early claim,  *)
(* proved on the standard path or submitted has a claim that was mined.    *)
TaskOK(r, t) ==
    /\ t.pc = "take" => t.attempts < max_retries
    /\ t.pc = "start" => ~ t.early
    /\ t.pc \in {"plan", "prove"} => r \in claimMined
    /\ t.pc = "decompose" /\ (t.early \/ r \in Private) => r \in claimMined
    /\ t.pc \in {"take", "send", "await", "sync", "swap"} /\ t.call = "submit" => r \in claimMined
    /\ t.pc = "await" => \/ TxOf(r, t) \in mempool
                         \/ t.nonce < mined /\ (t.call = "claim" => r \in claimMined)
    /\ t.pc = "sync" => Taken(t.nonce)
    /\ t.pc = "swap" => t.nonce <= mined

Covered(n) ==
    \/ n \in burnt
    \/ \E tx \in mempool : tx.nonce = n
    \/ \E r \in Requests : Holding(r) /\ task[r].nonce = n

NonceInv ==
    /\ \A tx1, tx2 \in mempool : tx1.nonce = tx2.nonce => tx1 = tx2
    /\ \A tx \in mempool : tx.nonce >= mined
    /\ \A n \in mined .. current_nonce - 1 : Covered(n)

NodeInv ==
    /\ TypeOK
    /\ QueueInv
    /\ \A r \in Requests : TaskOK(r, task[r])
    /\ NonceInv

----------------------------------------------------------------------------
(* The queue *)

(* A step that leaves the queue alone and starts no task. *)
LEMMA QueueKept ==
    ASSUME QueueInv, UNCHANGED <<heap, seen>>, Running' \subseteq Running,
           phase' \in {"idle", "filling"} => phase \in {"idle", "filling"} \/ Running = {}
    PROVE  QueueInv'
<1>1. Queued' = Queued /\ DistinctJobs'
  BY DEF QueueInv, Queued, DistinctJobs
<1> QED
  BY <1>1 DEF QueueInv

(* A job that is not queued is added. *)
LEMMA JobAdded ==
    ASSUME DistinctJobs, IsFiniteSet(heap), IsFiniteSet(Queued), Cardinality(Queued) = Cardinality(heap),
           NEW job, job.id \notin Queued, heap' = heap \cup {job}
    PROVE  /\ DistinctJobs' /\ IsFiniteSet(heap') /\ IsFiniteSet(Queued')
           /\ Queued' = Queued \cup {job.id}
           /\ Cardinality(heap') = Cardinality(heap) + 1 /\ Cardinality(Queued') = Cardinality(heap')
<1>1. Queued' = Queued \cup {job.id} /\ job \notin heap
  BY DEF Queued
<1>2. DistinctJobs'
  BY DEF DistinctJobs, Queued
<1>3. IsFiniteSet(heap \cup {job}) /\ Cardinality(heap \cup {job}) = Cardinality(heap) + 1
  BY <1>1, FS_AddElement
<1>4. IsFiniteSet(Queued \cup {job.id}) /\ Cardinality(Queued \cup {job.id}) = Cardinality(Queued) + 1
  BY FS_AddElement
<1> QED
  BY <1>1, <1>2, <1>3, <1>4

(* A job is removed; without injectivity its id could stay. *)
LEMMA JobRemoved ==
    ASSUME DistinctJobs, IsFiniteSet(heap), IsFiniteSet(Queued), Cardinality(Queued) = Cardinality(heap),
           NEW job \in heap
    PROVE  LET rest == heap \ {job}
               ids == {j.id : j \in rest}
           IN  /\ IsFiniteSet(rest) /\ IsFiniteSet(ids) /\ ids = Queued \ {job.id}
               /\ Cardinality(rest) = Cardinality(heap) - 1 /\ Cardinality(ids) = Cardinality(rest)
               /\ \A j, k \in rest : j.id = k.id => j = k
<1> DEFINE rest == heap \ {job}
           ids == {j.id : j \in rest}
<1>1. ids = Queued \ {job.id} /\ job.id \in Queued
  BY DEF Queued, DistinctJobs
<1>2. IsFiniteSet(rest) /\ Cardinality(rest) = Cardinality(heap) - 1
  BY FS_RemoveElement
<1>3. IsFiniteSet(Queued \ {job.id}) /\ Cardinality(Queued \ {job.id}) = Cardinality(Queued) - 1
  BY <1>1, FS_RemoveElement
<1>4. \A j, k \in rest : j.id = k.id => j = k
  BY DEF DistinctJobs
<1> QED
  BY <1>1, <1>2, <1>3, <1>4

(* push keeps the queue consistent, by adding or by replacing the best job *)
(* when the queue is full.                                                 *)
LEMMA PushKeepsQueue ==
    ASSUME QueueInv, NEW r \in Requests, NEW score \in Scores, push(r, score)
    PROVE  /\ heap' \subseteq [id : Requests, score : Scores] /\ IsFiniteSet(heap')
           /\ Cardinality(heap') <= max_size /\ DistinctJobs'
           /\ seen' = Queued' /\ IsFiniteSet(Queued') /\ Cardinality(Queued') = Cardinality(heap')
<1>1. PICK job : job = [id |-> r, score |-> score]
  OBVIOUS
<1>2. job \in [id : Requests, score : Scores] /\ job.id = r /\ job.score = score /\ r \notin Queued
  BY <1>1 DEF push, QueueInv
<1>3. Cardinality(heap) \in Nat /\ max_size \in Nat
  BY FS_CardinalityType, NatAssumption DEF QueueInv
<1>4. CASE Cardinality(heap) < max_size /\ heap' = heap \cup {job} /\ seen' = seen \cup {r}
  <2>1. /\ DistinctJobs' /\ IsFiniteSet(heap') /\ IsFiniteSet(Queued') /\ Queued' = Queued \cup {job.id}
        /\ Cardinality(heap') = Cardinality(heap) + 1 /\ Cardinality(Queued') = Cardinality(heap')
    BY <1>2, <1>4, JobAdded DEF QueueInv
  <2> QED
    BY <1>2, <1>3, <1>4, <2>1 DEF QueueInv
<1>5. ASSUME NEW top \in heap, heap' = (heap \ {top}) \cup {job}, seen' = (seen \ {top.id}) \cup {r}
      PROVE  /\ heap' \subseteq [id : Requests, score : Scores] /\ IsFiniteSet(heap')
             /\ Cardinality(heap') <= max_size /\ DistinctJobs'
             /\ seen' = Queued' /\ IsFiniteSet(Queued') /\ Cardinality(Queued') = Cardinality(heap')
  <2>1. PICK rest : rest = heap \ {top}
    OBVIOUS
  <2>2. PICK ids : ids = {j.id : j \in rest}
    OBVIOUS
  <2>3. /\ IsFiniteSet(rest) /\ IsFiniteSet(ids) /\ ids = Queued \ {top.id}
        /\ Cardinality(rest) = Cardinality(heap) - 1 /\ Cardinality(ids) = Cardinality(rest)
        /\ \A j, k \in rest : j.id = k.id => j = k
    BY <2>1, <2>2, JobRemoved DEF QueueInv
  <2>4. heap' = rest \cup {job} /\ Queued' = ids \cup {r} /\ r \notin ids /\ job \notin rest
    BY <1>2, <1>5, <2>1, <2>2, <2>3 DEF Queued
  <2>5. IsFiniteSet(rest \cup {job}) /\ Cardinality(rest \cup {job}) = Cardinality(rest) + 1
    BY <2>3, <2>4, FS_AddElement
  <2>6. IsFiniteSet(ids \cup {r}) /\ Cardinality(ids \cup {r}) = Cardinality(ids) + 1
    BY <2>3, <2>4, FS_AddElement
  <2>7. DistinctJobs'
    BY <1>2, <2>2, <2>3, <2>4 DEF DistinctJobs
  <2>8. Cardinality(rest \cup {job}) <= max_size
    BY <1>3, <2>3, <2>5 DEF QueueInv
  <2> QED
    BY <1>2, <1>5, <2>1, <2>3, <2>4, <2>5, <2>6, <2>7, <2>8 DEF QueueInv
<1> QED
  BY <1>1, <1>4, <1>5 DEF push, BestOf

----------------------------------------------------------------------------
(* Steps of a task *)

Holds(t) == t.pc \in {"send", "await", "sync", "swap"}

(* The nonce in the hands of a task is not lost when the task goes on to   *)
(* t, unless the counter falls back to what is mined.                      *)
Kept(r, t) ==
    Holding(r) /\ current_nonce' > mined =>
        \/ task[r].nonce < mined
        \/ task[r].nonce \in burnt'
        \/ \E tx \in mempool' : tx.nonce = task[r].nonce
        \/ Holds(t) /\ t.nonce = task[r].nonce

(* The counter stays, takes one step, or falls back to what is mined. *)
CounterMoves(t) ==
    \/ current_nonce' = current_nonce
    \/ current_nonce' = current_nonce + 1 /\ Holds(t) /\ t.nonce = current_nonce
    \/ current_nonce' <= mined

(* At most the transaction of the task is sent, under a free nonce. *)
SendsOne(r) ==
    \/ mempool' = mempool
    \/ mempool' = mempool \cup {TxOf(r, task[r])} /\ ~ Taken(task[r].nonce)

RestTypeOK ==
    /\ current_nonce \in Nat /\ pending_count \in Int /\ burnt \subseteq Nat
    /\ rounds \in Nat /\ faults \in Nat

(* What is known of a task stays true as more is mined or waits. *)
LEMMA TaskStaysOK ==
    ASSUME NEW q, NEW t, TaskOK(q, t), mempool \subseteq mempool', mined' = mined, claimMined' = claimMined
    PROVE  TaskOK(q, t)'
  BY DEF TaskOK, Taken, TxOf

(* The step of a task, from what it does to the shared state. *)
LEMMA TaskMoved ==
    ASSUME NodeInv, NEW r \in Requests, NEW t \in Task, task[r].pc # "none",
           task' = [task EXCEPT ![r] = t],
           UNCHANGED <<status, mined, claimMined, phase, toFetch, heap, seen>>,
           RestTypeOK', burnt \subseteq burnt',
           SendsOne(r), CounterMoves(t), Kept(r, t), TaskOK(r, t)'
    PROVE  NodeInv'
<1>1. /\ task \in [Requests -> Task] /\ task[r] \in Task /\ mined \in Nat /\ current_nonce \in Nat
      /\ mempool \subseteq [nonce : Nat, call : {"claim", "submit"}, req : Requests]
  BY DEF NodeInv, TypeOK
<1>2. /\ task' \in [Requests -> Task] /\ task'[r] = t
      /\ \A q \in Requests : q # r => task'[q] = task[q]
  BY <1>1
<1>3. mempool \subseteq mempool'
  BY DEF SendsOne
<1>4. TxOf(r, task[r]) \in [nonce : Nat, call : {"claim", "submit"}, req : Requests]
  BY <1>1 DEF TxOf, Task
<1>5. TypeOK'
  <2>1. mempool' \subseteq [nonce : Nat, call : {"claim", "submit"}, req : Requests]
    BY <1>1, <1>4 DEF SendsOne
  <2> QED
    BY <1>2, <2>1 DEF NodeInv, TypeOK, RestTypeOK
<1>6. QueueInv'
  <2>1. Running' \subseteq Running
    BY <1>2 DEF Running
  <2> QED
    BY <2>1, QueueKept DEF NodeInv
<1>7. ASSUME NEW q \in Requests PROVE TaskOK(q, task[q])'
  <2>1. CASE q = r
    BY <1>2, <2>1 DEF TaskOK
  <2>2. CASE q # r
    <3>1. PICK u : u = task[q]
      OBVIOUS
    <3>2. TaskOK(q, u)
      BY <3>1 DEF NodeInv
    <3>3. TaskOK(q, u)'
      BY <1>3, <3>2, TaskStaysOK
    <3>4. task'[q] = u
      BY <1>2, <2>2, <3>1
    <3> QED
      BY <3>3, <3>4 DEF TaskOK
  <2> QED
    BY <2>1, <2>2
<1>8. NonceInv'
  <2>1. PICK x : x = TxOf(r, task[r])
    OBVIOUS
  <2>2. x.nonce = task[r].nonce /\ x.nonce \in Nat
    BY <1>1, <2>1 DEF TxOf, Task
  <2>3. \/ mempool' = mempool
        \/ mempool' = mempool \cup {x} /\ x.nonce >= mined /\ \A tx \in mempool : tx.nonce # x.nonce
    BY <1>1, <2>1, <2>2 DEF SendsOne, Taken
  <2>4. /\ \A tx1, tx2 \in mempool' : tx1.nonce = tx2.nonce => tx1 = tx2
        /\ \A tx \in mempool' : tx.nonce >= mined
    BY <2>3 DEF NodeInv, NonceInv
  <2>5. ASSUME NEW n \in mined .. current_nonce' - 1 PROVE Covered(n)'
    <3>1. ASSUME n \in mined .. current_nonce - 1 PROVE Covered(n)'
      <4>1. Covered(n)
        BY <3>1 DEF NodeInv, NonceInv
      <4>2. CASE n \in burnt \/ \E tx \in mempool : tx.nonce = n
        BY <1>3, <4>2 DEF Covered
      <4>3. CASE \E q \in Requests : Holding(q) /\ task[q].nonce = n
        <5>1. PICK q \in Requests : Holding(q) /\ task[q].nonce = n
          BY <4>3
        <5>2. CASE q # r
          <6>1. Holding(q)' /\ task'[q].nonce = n
            BY <1>2, <5>1, <5>2 DEF Holding
          <6> QED
            BY <6>1 DEF Covered
        <5>3. CASE q = r
          <6>0. PICK c \in Nat : c = current_nonce'
            BY DEF RestTypeOK
          <6>1. ~ (n < mined) /\ current_nonce' > mined
            <7>1. n \in mined .. c - 1
              BY <6>0
            <7>2. ~ (n < mined) /\ c > mined
              BY <1>1, <7>1
            <7> QED
              BY <6>0, <7>2
          <6>2. CASE n \in burnt' \/ \E tx \in mempool' : tx.nonce = n
            BY <6>2 DEF Covered
          <6>3. CASE Holds(t) /\ t.nonce = n
            <7>1. Holding(r)' /\ task'[r].nonce = n
              BY <1>2, <6>3 DEF Holding, Holds
            <7> QED
              BY <7>1 DEF Covered
          <6> QED
            BY <5>1, <5>3, <6>1, <6>2, <6>3 DEF Kept
        <5> QED
          BY <5>2, <5>3
      <4> QED
        BY <4>1, <4>2, <4>3 DEF Covered
    <3>2. CASE current_nonce' = current_nonce
      BY <3>1, <3>2
    <3>3. CASE current_nonce' = current_nonce + 1 /\ Holds(t) /\ t.nonce = current_nonce
      <4>1. CASE n = current_nonce
        <5>1. Holding(r)' /\ task'[r].nonce = n
          BY <1>2, <3>3, <4>1 DEF Holding, Holds
        <5> QED
          BY <5>1 DEF Covered
      <4>2. CASE n # current_nonce
        BY <1>1, <3>1, <3>3, <4>2
      <4> QED
        BY <4>1, <4>2
    <3>4. CASE current_nonce' <= mined
      <4>1. PICK c \in Nat : c = current_nonce'
        BY DEF RestTypeOK
      <4>2. n \in mined .. c - 1 /\ c <= mined
        BY <3>4, <4>1
      <4> QED
        BY <1>1, <4>2
    <3> QED
      BY <3>2, <3>3, <3>4 DEF CounterMoves
  <2> QED
    BY <2>4, <2>5 DEF NonceInv
<1> QED
  BY <1>5, <1>6, <1>7, <1>8 DEF NodeInv

(* A task that ends holds nothing. *)
LEMMA NoTaskOK == NoTask \in Task /\ ~ Holds(NoTask) /\ \A r : TaskOK(r, NoTask)'
<1>1. NoTask = [pc |-> "none", call |-> "claim", next |-> "plan", attempts |-> 0, nonce |-> 0, early |-> FALSE]
  BY DEF NoTask
<1>2. NoTask \in Task
  BY <1>1, NatAssumption DEF Task
<1> QED
  BY <1>1, <1>2 DEF Holds, TaskOK

(* The steps between two awaits that touch nothing shared. *)
LEMMA LocalStep ==
    ASSUME NodeInv, NEW r \in Requests, StartJob(r) \/ GoOn(r) \/ Decompose(r) \/ Prove(r)
    PROVE  NodeInv'
<1>1. task[r].pc \in {"start", "plan", "decompose", "prove"} /\ task[r] \in Task /\ TaskOK(r, task[r])
  BY DEF StartJob, GoOn, Decompose, Prove, Serving, NodeInv, TypeOK
<1>2. ASSUME NEW t \in Task, Local, task' = [task EXCEPT ![r] = t], TaskOK(r, t)'
      PROVE  NodeInv'
  <2>1. /\ UNCHANGED <<status, mined, claimMined, phase, toFetch, heap, seen, mempool, current_nonce, burnt>>
        /\ RestTypeOK'
    BY <1>2 DEF Local, chainVars, queueVars, nonceVars, bounds, RestTypeOK, NodeInv, TypeOK
  <2>2. SendsOne(r) /\ CounterMoves(t) /\ Kept(r, t)
    BY <1>1, <2>1 DEF SendsOne, CounterMoves, Kept, Holding
  <2> QED
    BY <1>1, <1>2, <2>1, <2>2, TaskMoved
<1>3. CASE Fail(r)
  <2>1. NoTask \in Task /\ TaskOK(r, NoTask)'
    BY NoTaskOK
  <2> QED
    BY <1>2, <1>3, <2>1 DEF Fail
<1>4. ASSUME NEW call \in {"claim", "submit"}, NEW next \in {"plan", "prove", "submit"}, NEW early \in BOOLEAN,
             call = "submit" => r \in claimMined, Call(r, call, next, early)
      PROVE  NodeInv'
  <2>1. PICK t : t = [task[r] EXCEPT !.pc = "take", !.call = call, !.next = next, !.attempts = 0, !.early = early]
    OBVIOUS
  <2>2. t \in Task /\ t.pc = "take" /\ t.attempts = 0 /\ t.call = call
    <3>1. 0 \in 0 .. max_retries /\ task[r].nonce \in Nat
      BY <1>1, NatAssumption DEF Task
    <3>2. t = [pc |-> "take", call |-> call, next |-> next, attempts |-> 0, nonce |-> task[r].nonce, early |-> early]
      BY <1>1, <2>1 DEF Task
    <3> QED
      BY <3>1, <3>2 DEF Task
  <2>4. Local /\ task' = [task EXCEPT ![r] = t]
    BY <1>4, <2>1 DEF Call, FirstAttempt
  <2>3. TaskOK(r, t)'
    BY <1>4, <2>2, <2>4, NatAssumption DEF TaskOK, Local, chainVars
  <2> QED
    BY <1>2, <2>2, <2>3, <2>4
<1>5. ASSUME NEW pc \in {"decompose", "prove"}, Local, task' = [task EXCEPT ![r].pc = pc],
             pc = "prove" \/ task[r].early \/ r \in Private => r \in claimMined
      PROVE  NodeInv'
  <2>1. PICK t : t = [task[r] EXCEPT !.pc = pc]
    OBVIOUS
  <2>2. t \in Task /\ t.pc = pc /\ t.early = task[r].early
    BY <1>1, <2>1 DEF Task
  <2>3. TaskOK(r, t)'
    BY <1>5, <2>2 DEF TaskOK, Local, chainVars
  <2> QED
    BY <1>2, <1>5, <2>1, <2>2, <2>3
<1>6. task[r].early \in BOOLEAN
  BY <1>1 DEF Task
<1>7. ASSUME Standard(r), task[r].early => r \in claimMined
      PROVE  NodeInv'
  <2>1. CASE task[r].early /\ Local /\ task' = [task EXCEPT ![r].pc = "prove"]
    BY <1>5, <1>7, <2>1
  <2> QED
    BY <1>3, <1>4, <1>7, <2>1 DEF Standard
<1>8. ASSUME Plan(r), task[r].early \/ r \in Private => r \in claimMined
      PROVE  NodeInv'
  <2>1. CASE Local /\ task' = [task EXCEPT ![r].pc = "decompose"]
    BY <1>5, <1>8, <2>1
  <2> QED
    BY <1>3, <1>4, <1>6, <1>7, <1>8, <2>1 DEF Plan
<1>9. CASE StartJob(r)
  <2>1. ~ task[r].early
    BY <1>1, <1>9 DEF StartJob, Serving, TaskOK
  <2> QED
    BY <1>3, <1>4, <1>8, <1>9, <2>1 DEF StartJob
<1>10. CASE GoOn(r)
  BY <1>1, <1>8, <1>10 DEF GoOn, Serving, TaskOK
<1>11. CASE Decompose(r)
  <2>1. task[r].early => r \in claimMined
    BY <1>1, <1>11 DEF Decompose, Serving, TaskOK
  <2> QED
    BY <1>4, <1>6, <1>7, <1>11, <2>1 DEF Decompose
<1>12. CASE Prove(r)
  <2>1. r \in claimMined
    BY <1>1, <1>12 DEF Prove, Serving, TaskOK
  <2> QED
    BY <1>3, <1>4, <1>6, <1>12, <2>1 DEF Prove
<1> QED
  BY <1>9, <1>10, <1>11, <1>12

(* A failed call, of which the transaction is accounted for. *)
LEMMA ErrorStep ==
    ASSUME NodeInv, NEW r \in Requests, NEW transient \in BOOLEAN, OtherError(r, transient),
           task[r].pc \in {"send", "await"},
           UNCHANGED <<status, mined, claimMined, phase, toFetch, heap, seen, rounds>>, faults' \in Nat,
           burnt' \subseteq Nat, burnt \subseteq burnt', SendsOne(r),
           \/ task[r].nonce < mined \/ task[r].nonce \in burnt'
           \/ \E tx \in mempool' : tx.nonce = task[r].nonce
    PROVE  NodeInv'
<1>1. task[r] \in Task
  BY DEF NodeInv, TypeOK
<1>2. PICK t : /\ task' = [task EXCEPT ![r] = t]
               /\ t = NoTask \/ (MayRetry(r) /\ t = [task[r] EXCEPT !.pc = "take", !.nonce = 0])
  BY DEF OtherError
<1>3. t \in Task /\ TaskOK(r, t)'
  <2>1. CASE t = NoTask
    BY <2>1, NoTaskOK
  <2>2. CASE MayRetry(r) /\ t = [task[r] EXCEPT !.pc = "take", !.nonce = 0]
    <3>1. t \in Task /\ t.pc = "take" /\ t.attempts = task[r].attempts /\ t.call = task[r].call
      BY <1>1, <2>2 DEF Task
    <3>2. t.call = "submit" => r \in claimMined
      BY <3>1 DEF NodeInv, TaskOK
    <3> QED
      BY <2>2, <3>1, <3>2 DEF TaskOK, MayRetry
  <2> QED
    BY <1>2, <2>1, <2>2
<1>4. RestTypeOK' /\ current_nonce' = current_nonce
  BY DEF OtherError, RestTypeOK, NodeInv, TypeOK
<1>5. CounterMoves(t) /\ Kept(r, t)
  BY <1>4 DEF CounterMoves, Kept
<1> QED
  BY <1>2, <1>3, <1>4, <1>5, TaskMoved

(* A task takes a nonce, and sends under it. *)
LEMMA SendStep ==
    ASSUME NodeInv, NEW r \in Requests,
           next_nonce(r) \/ SendAccepted(r) \/ SendReverted(r) \/ SendLost(r) \/ SendCollided(r)
    PROVE  NodeInv'
<1>1. /\ task[r] \in Task /\ TaskOK(r, task[r]) /\ RestTypeOK /\ mined \in Nat
      /\ task[r].attempts \in 0 .. max_retries /\ task[r].nonce \in Nat
  BY DEF NodeInv, TypeOK, RestTypeOK, Task
<1>2. CASE next_nonce(r)
  <2>1. PICK t : t = [task[r] EXCEPT !.pc = "send", !.attempts = @ + 1, !.nonce = current_nonce]
    OBVIOUS
  <2>2. task[r].attempts + 1 \in 0 .. max_retries /\ current_nonce \in Nat
    BY <1>1, <1>2, NatAssumption DEF next_nonce, Serving, TaskOK, RestTypeOK
  <2>3. t \in Task /\ t.pc = "send" /\ t.nonce = current_nonce /\ t.call = task[r].call
    BY <1>1, <2>1, <2>2 DEF Task
  <2>4. /\ task' = [task EXCEPT ![r] = t] /\ task[r].pc = "take" /\ current_nonce' = current_nonce + 1
        /\ UNCHANGED <<status, mined, mempool, claimMined, phase, toFetch, heap, seen, burnt, rounds, faults>>
        /\ pending_count' = pending_count + 1
    BY <1>2, <2>1 DEF next_nonce, Serving, chainVars, queueVars, bounds
  <2>5. RestTypeOK'
    BY <1>1, <2>4 DEF RestTypeOK
  <2>6. SendsOne(r) /\ CounterMoves(t) /\ Kept(r, t) /\ TaskOK(r, t)'
    BY <1>1, <2>3, <2>4 DEF SendsOne, CounterMoves, Kept, Holding, Holds, TaskOK
  <2> QED
    BY <2>3, <2>4, <2>5, <2>6, TaskMoved
<1>3. CASE SendAccepted(r)
  <2>1. PICK t : t = [task[r] EXCEPT !.pc = "await"]
    OBVIOUS
  <2>2. t \in Task /\ t.pc = "await" /\ t.nonce = task[r].nonce /\ t.call = task[r].call
    BY <1>1, <2>1 DEF Task
  <2>3. /\ task' = [task EXCEPT ![r] = t] /\ task[r].pc = "send"
        /\ UNCHANGED <<status, mined, claimMined, phase, toFetch, heap, seen, burnt, rounds, faults>>
        /\ UNCHANGED <<current_nonce, pending_count>>
        /\ mempool' = mempool \cup {TxOf(r, task[r])} /\ ~ Taken(task[r].nonce)
    BY <1>3, <2>1 DEF SendAccepted, Serving, queueVars, bounds, nonceVars, Tx, TxOf
  <2>4. RestTypeOK' /\ SendsOne(r) /\ CounterMoves(t)
    BY <1>1, <2>3 DEF RestTypeOK, SendsOne, CounterMoves
  <2>5. Kept(r, t)
    BY <2>2 DEF Kept, Holds
  <2>6. TaskOK(r, t)'
    <3>1. TxOf(r, t) = TxOf(r, task[r])
      BY <2>2 DEF TxOf
    <3>2. TxOf(r, t) \in mempool'
      BY <2>3, <3>1
    <3>3. t.call = "submit" => r \in claimMined
      BY <1>1, <2>2, <2>3 DEF TaskOK
    <3> QED
      BY <2>2, <2>3, <3>2, <3>3 DEF TaskOK, TxOf
  <2> QED
    BY <2>2, <2>3, <2>4, <2>5, <2>6, TaskMoved
<1>4. CASE SendReverted(r)
  <2>1. /\ UNCHANGED <<status, mined, claimMined, phase, toFetch, heap, seen, mempool, rounds, faults>>
        /\ OtherError(r, FALSE) /\ task[r].pc = "send" /\ burnt' = burnt \cup {task[r].nonce}
    BY <1>4 DEF SendReverted, Serving, chainVars, queueVars, bounds
  <2>2. SendsOne(r) /\ burnt' \subseteq Nat /\ faults' \in Nat
    BY <1>1, <2>1 DEF SendsOne, RestTypeOK
  <2> QED
    BY <2>1, <2>2, ErrorStep
<1>5. CASE SendLost(r)
  <2>1. /\ UNCHANGED <<status, mined, claimMined, phase, toFetch, heap, seen, rounds>>
        /\ OtherError(r, TRUE) /\ task[r].pc = "send" /\ faults' = faults + 1
        /\ \/ burnt' = burnt \cup {task[r].nonce} /\ mempool' = mempool
           \/ /\ ~ Taken(task[r].nonce) /\ burnt' = burnt
              /\ mempool' = mempool \cup {TxOf(r, task[r])}
    BY <1>5 DEF SendLost, Serving, queueVars, Tx, TxOf
  <2>2. TxOf(r, task[r]).nonce = task[r].nonce
    BY DEF TxOf
  <2>3. SendsOne(r) /\ burnt' \subseteq Nat /\ burnt \subseteq burnt' /\ faults' \in Nat
    BY <1>1, <2>1 DEF SendsOne, RestTypeOK
  <2>4. task[r].nonce \in burnt' \/ \E tx \in mempool' : tx.nonce = task[r].nonce
    BY <2>1, <2>2
  <2> QED
    BY <2>1, <2>3, <2>4, ErrorStep
<1>6. CASE SendCollided(r)
  <2>1. PICK t : t = [task[r] EXCEPT !.pc = "sync"]
    OBVIOUS
  <2>2. t \in Task /\ t.pc = "sync" /\ t.nonce = task[r].nonce /\ t.call = task[r].call
    BY <1>1, <2>1 DEF Task
  <2>3. /\ task' = [task EXCEPT ![r] = t] /\ task[r].pc = "send" /\ Taken(task[r].nonce)
        /\ UNCHANGED <<status, mined, mempool, claimMined, phase, toFetch, heap, seen, burnt, rounds, faults,
                       current_nonce, pending_count>>
    BY <1>6, <2>1 DEF SendCollided, Serving, Local, chainVars, queueVars, bounds, nonceVars
  <2>4. RestTypeOK' /\ SendsOne(r) /\ CounterMoves(t) /\ Kept(r, t)
    BY <1>1, <2>2, <2>3 DEF RestTypeOK, SendsOne, CounterMoves, Kept, Holds
  <2>5. TaskOK(r, t)'
    BY <1>1, <2>2, <2>3 DEF TaskOK, Taken
  <2> QED
    BY <2>2, <2>3, <2>4, <2>5, TaskMoved
<1> QED
  BY <1>2, <1>3, <1>4, <1>5, <1>6

(* A task synchronises the counter, or waits for its receipt. *)
LEMMA SettleStep ==
    ASSUME NodeInv, NEW r \in Requests, SyncRead(r) \/ SyncSwap(r) \/ Receipt(r) \/ ReceiptLost(r)
    PROVE  NodeInv'
<1>1. /\ task[r] \in Task /\ TaskOK(r, task[r]) /\ RestTypeOK /\ mined \in Nat
      /\ task[r].attempts \in 0 .. max_retries /\ task[r].nonce \in Nat /\ NonceInv
  BY DEF NodeInv, TypeOK, RestTypeOK, Task
<1>2. CASE SyncRead(r)
  <2>1. PICK t : /\ task' = [task EXCEPT ![r] = t]
                 /\ t = NoTask \/ t = [task[r] EXCEPT !.pc = "swap", !.nonce = mined]
    BY <1>2 DEF SyncRead
  <2>2. /\ task[r].pc = "sync"
        /\ UNCHANGED <<status, mined, mempool, claimMined, phase, toFetch, heap, seen, burnt, rounds, faults,
                       current_nonce, pending_count>>
    BY <1>2 DEF SyncRead, Serving, Local, chainVars, queueVars, bounds, nonceVars
  <2>3. RestTypeOK' /\ SendsOne(r) /\ CounterMoves(t)
    BY <1>1, <2>2 DEF RestTypeOK, SendsOne, CounterMoves
  <2>4. Kept(r, t)
    BY <1>1, <2>2 DEF Kept, TaskOK, Taken
  <2>5. t \in Task /\ TaskOK(r, t)'
    <3>1. CASE t = NoTask
      BY <3>1, NoTaskOK
    <3>2. CASE t = [task[r] EXCEPT !.pc = "swap", !.nonce = mined]
      <4>1. t \in Task /\ t.pc = "swap" /\ t.nonce = mined /\ t.call = task[r].call
        BY <1>1, <3>2 DEF Task
      <4> QED
        BY <1>1, <2>2, <4>1 DEF TaskOK
    <3> QED
      BY <2>1, <3>1, <3>2
  <2> QED
    BY <2>1, <2>2, <2>3, <2>4, <2>5, TaskMoved
<1>3. CASE SyncSwap(r)
  <2>1. /\ task[r].pc = "swap" /\ task' = [task EXCEPT ![r] = NoTask]
        /\ UNCHANGED <<status, mined, mempool, claimMined, phase, toFetch, heap, seen, burnt, rounds, faults>>
        /\ current_nonce' = task[r].nonce /\ pending_count' = 0 - 1
    BY <1>3 DEF SyncSwap, Serving, chainVars, queueVars, bounds
  <2>2. task[r].nonce <= mined
    BY <1>1, <2>1 DEF TaskOK
  <2>3. RestTypeOK' /\ SendsOne(r) /\ CounterMoves(NoTask)
    BY <1>1, <2>1, <2>2 DEF RestTypeOK, SendsOne, CounterMoves
  <2>4. Kept(r, NoTask)
    BY <1>1, <2>1, <2>2 DEF Kept
  <2>5. NoTask \in Task /\ TaskOK(r, NoTask)'
    BY NoTaskOK
  <2> QED
    BY <2>1, <2>3, <2>4, <2>5, TaskMoved
<1>4. CASE Receipt(r)
  <2>1. /\ task[r].pc = "await" /\ task[r].nonce < mined
        /\ UNCHANGED <<status, mined, mempool, claimMined, phase, toFetch, heap, seen, burnt, rounds, faults,
                       current_nonce>>
        /\ pending_count' = pending_count - 1
    BY <1>4 DEF Receipt, Serving, Confirmed, chainVars, queueVars, bounds
  <2>2. task[r].call = "claim" => r \in claimMined
    <3>1. TxOf(r, task[r]).nonce = task[r].nonce
      BY DEF TxOf
    <3>2. TxOf(r, task[r]) \notin mempool
      BY <1>1, <2>1, <3>1 DEF NonceInv
    <3> QED
      BY <1>1, <2>1, <3>2 DEF TaskOK
  <2>3. RestTypeOK' /\ SendsOne(r)
    BY <1>1, <2>1 DEF RestTypeOK, SendsOne
  <2>4. ASSUME NEW t PROVE CounterMoves(t) /\ Kept(r, t)
    BY <2>1 DEF CounterMoves, Kept
  <2>5. PICK t : /\ task' = [task EXCEPT ![r] = t]
                 /\ \/ t = NoTask
                    \/ t = [task[r] EXCEPT !.pc = "take", !.call = "submit", !.attempts = 0, !.nonce = 0]
                    \/ /\ t = [task[r] EXCEPT !.pc = task[r].next, !.attempts = 0, !.nonce = 0]
                       /\ task[r].call # "submit" /\ task[r].next # "submit"
    BY <1>4 DEF Receipt, FirstAttempt
  <2>6. t \in Task /\ TaskOK(r, t)'
    <3>1. CASE t = NoTask
      BY <3>1, NoTaskOK
    <3>2. 0 \in 0 .. max_retries /\ 0 < max_retries
      BY NatAssumption
    <3>3. CASE t = [task[r] EXCEPT !.pc = "take", !.call = "submit", !.attempts = 0, !.nonce = 0]
      <4>1. t \in Task /\ t.pc = "take" /\ t.attempts = 0
        BY <1>1, <3>2, <3>3 DEF Task
      <4>2. r \in claimMined
        BY <1>1, <2>1, <2>2 DEF TaskOK, Task
      <4> QED
        BY <2>1, <3>2, <4>1, <4>2 DEF TaskOK
    <3>4. CASE /\ t = [task[r] EXCEPT !.pc = task[r].next, !.attempts = 0, !.nonce = 0]
               /\ task[r].call # "submit" /\ task[r].next # "submit"
      <4>1. task[r].next \in {"plan", "prove"} /\ task[r].call = "claim"
        BY <1>1, <3>4 DEF Task
      <4>2. t \in Task /\ t.pc \in {"plan", "prove"}
        BY <1>1, <3>2, <3>4, <4>1 DEF Task
      <4> QED
        BY <2>1, <2>2, <4>1, <4>2 DEF TaskOK
    <3> QED
      BY <2>5, <3>1, <3>3, <3>4
  <2> QED
    BY <2>1, <2>3, <2>4, <2>5, <2>6, TaskMoved
<1>5. CASE ReceiptLost(r)
  <2>1. /\ UNCHANGED <<status, mined, mempool, claimMined, phase, toFetch, heap, seen, burnt, rounds>>
        /\ OtherError(r, TRUE) /\ task[r].pc = "await" /\ faults' = faults + 1
    BY <1>5 DEF ReceiptLost, Serving, chainVars, queueVars
  <2>2. SendsOne(r) /\ burnt' \subseteq Nat /\ faults' \in Nat
    BY <1>1, <2>1 DEF SendsOne, RestTypeOK
  <2>3. TxOf(r, task[r]).nonce = task[r].nonce
    BY DEF TxOf
  <2>4. task[r].nonce < mined \/ \E tx \in mempool' : tx.nonce = task[r].nonce
    BY <1>1, <2>1, <2>3 DEF TaskOK
  <2> QED
    BY <2>1, <2>2, <2>4, ErrorStep
<1> QED
  BY <1>2, <1>3, <1>4, <1>5

----------------------------------------------------------------------------
(* Steps of the loop and of the chain *)

(* A step that leaves the transactions alone, and the tasks that hold one. *)
LEMMA NoncesKept ==
    ASSUME TypeOK, NonceInv, UNCHANGED <<mined, mempool, claimMined, current_nonce, burnt>>,
           \A r \in Requests : Holding(r) => task'[r] = task[r]
    PROVE  NonceInv'
<1>1. ASSUME NEW n \in mined .. current_nonce - 1 PROVE Covered(n)'
  <2>1. Covered(n)
    BY DEF NonceInv
  <2>2. CASE \E r \in Requests : Holding(r) /\ task[r].nonce = n
    BY <2>2 DEF Covered, Holding
  <2> QED
    BY <2>1, <2>2 DEF Covered
<1> QED
  BY <1>1 DEF NonceInv

(* A step that leaves tasks and transactions alone. *)
LEMMA TasksKept ==
    ASSUME NodeInv, UNCHANGED <<mined, mempool, claimMined, current_nonce, burnt, task>>
    PROVE  NonceInv' /\ \A r \in Requests : TaskOK(r, task[r])'
<1>1. NonceInv'
  BY NoncesKept DEF NodeInv
<1> QED
  BY <1>1 DEF NodeInv, TaskOK, Taken, TxOf

(* A job is taken from the queue and its task starts, unless it expired.   *)
LEMMA PopStep == ASSUME NodeInv, pop PROVE NodeInv'
<1>1. PICK job \in heap :
         /\ heap' = heap \ {job} /\ seen' = seen \ {job.id}
         /\ task' = IF status[job.id] = "expired" THEN task
                    ELSE [task EXCEPT ![job.id] = [NoTask EXCEPT !.pc = "start"]]
         /\ phase' \in {"serving", "draining"}
         /\ UNCHANGED <<status, mined, mempool, claimMined, toFetch, current_nonce, pending_count, burnt, rounds, faults>>
  BY DEF pop, BestOf, chainVars, nonceVars, bounds
<1>2. TypeOK /\ QueueInv /\ NonceInv
  BY DEF NodeInv
<1>3. PICK id \in Requests : id = job.id
  BY <1>1, <1>2 DEF QueueInv
<1>4. task \in [Requests -> Task] /\ id \in Queued /\ task[id].pc = "none"
  BY <1>1, <1>2, <1>3 DEF TypeOK, QueueInv, Queued, Running
<1>5. PICK t : t = [NoTask EXCEPT !.pc = "start"]
  OBVIOUS
<1>6. t \in Task /\ t.pc = "start" /\ ~ t.early
  <2>1. t = [pc |-> "start", call |-> "claim", next |-> "plan", attempts |-> 0, nonce |-> 0, early |-> FALSE]
    BY <1>5 DEF NoTask
  <2> QED
    BY <2>1, NatAssumption DEF Task
<1>7. /\ task' \in [Requests -> Task]
      /\ \A q \in Requests : q # id => task'[q] = task[q]
      /\ task'[id] = t \/ task'[id] = task[id]
  BY <1>1, <1>3, <1>4, <1>5, <1>6
<1>8. TypeOK'
  BY <1>1, <1>2, <1>7 DEF TypeOK
<1>9. QueueInv'
  <2>1. /\ IsFiniteSet(heap') /\ IsFiniteSet(Queued') /\ Queued' = Queued \ {id}
        /\ Cardinality(heap') = Cardinality(heap) - 1 /\ Cardinality(Queued') = Cardinality(heap')
        /\ DistinctJobs'
    BY <1>1, <1>2, <1>3, JobRemoved DEF QueueInv, Queued, DistinctJobs
  <2>2. Running' \subseteq Running \cup {id}
    BY <1>7 DEF Running
  <2>3. Cardinality(heap) \in Nat /\ max_size \in Nat
    BY <1>2, FS_CardinalityType, NatAssumption DEF QueueInv
  <2>4. Cardinality(heap') <= max_size
    BY <1>2, <2>1, <2>3 DEF QueueInv
  <2> QED
    BY <1>1, <1>2, <1>3, <2>1, <2>2, <2>4 DEF QueueInv
<1>10. ASSUME NEW q \in Requests PROVE TaskOK(q, task[q])'
  <2>1. CASE task'[q] = t
    BY <1>6, <2>1 DEF TaskOK
  <2>2. CASE task'[q] = task[q]
    <3>1. PICK u : u = task[q]
      OBVIOUS
    <3>2. TaskOK(q, u)'
      BY <1>1, <3>1, TaskStaysOK DEF NodeInv
    <3> QED
      BY <2>2, <3>1, <3>2 DEF TaskOK
  <2> QED
    BY <1>7, <2>1, <2>2
<1>11. NonceInv'
  <2>1. \A q \in Requests : Holding(q) => task'[q] = task[q]
    BY <1>4, <1>7 DEF Holding
  <2> QED
    BY <1>1, <1>2, <2>1, NoncesKept
<1> QED
  BY <1>8, <1>9, <1>10, <1>11 DEF NodeInv

(* The rest of the loop. *)
LEMMA LoopKeeps ==
    ASSUME NodeInv, StartRound \/ (\E r \in Requests : fetch_request_details(r)) \/ EndRound
    PROVE  NodeInv'
<1>1. TypeOK /\ QueueInv
  BY DEF NodeInv
<1>2. /\ UNCHANGED <<status, mined, mempool, claimMined, current_nonce, pending_count, burnt, task, faults>>
      /\ rounds' \in Nat
  BY <1>1 DEF StartRound, fetch_request_details, EndRound, chainVars, nonceVars, bounds, TypeOK
<1>3. NonceInv' /\ \A r \in Requests : TaskOK(r, task[r])'
  BY <1>2, TasksKept
<1>4. Running' = Running
  BY <1>2 DEF Running
<1>5. CASE StartRound
  <2>1. phase = "idle" /\ phase' = "filling" /\ UNCHANGED <<heap, seen>> /\ toFetch' \subseteq Requests
    BY <1>5 DEF StartRound, queueVars
  <2>2. QueueInv'
    BY <1>1, <1>4, <2>1, QueueKept
  <2>3. TypeOK'
    BY <1>1, <1>2, <2>1 DEF TypeOK
  <2> QED
    BY <1>3, <2>2, <2>3 DEF NodeInv
<1>6. CASE EndRound
  <2>1. Running = {} /\ phase' = "idle" /\ UNCHANGED <<heap, seen, toFetch>>
    BY <1>6 DEF EndRound, AllEnded, queueVars
  <2>2. QueueInv'
    BY <1>1, <1>4, <2>1, QueueKept
  <2>3. TypeOK'
    BY <1>1, <1>2, <2>1 DEF TypeOK
  <2> QED
    BY <1>3, <2>2, <2>3 DEF NodeInv
<1>7. ASSUME NEW r \in Requests, fetch_request_details(r) PROVE NodeInv'
  <2>1. /\ phase = "filling" /\ phase' \in {"filling", "draining", "serving"} /\ toFetch' \subseteq toFetch
        /\ (\E score \in Scores : push(r, score)) \/ UNCHANGED <<heap, seen>>
    BY <1>7 DEF fetch_request_details, queueVars
  <2>2. QueueInv'
    <3>1. CASE UNCHANGED <<heap, seen>>
      BY <1>1, <1>4, <2>1, <3>1, QueueKept
    <3>2. ASSUME NEW score \in Scores, push(r, score) PROVE QueueInv'
      <4>1. /\ heap' \subseteq [id : Requests, score : Scores] /\ IsFiniteSet(heap')
            /\ Cardinality(heap') <= max_size /\ DistinctJobs'
            /\ seen' = Queued' /\ IsFiniteSet(Queued') /\ Cardinality(Queued') = Cardinality(heap')
        BY <1>1, <3>2, PushKeepsQueue
      <4>2. Running' = {}
        BY <1>1, <1>4, <2>1 DEF QueueInv
      <4> QED
        BY <4>1, <4>2 DEF QueueInv
    <3> QED
      BY <2>1, <3>1, <3>2
  <2>3. seen' \subseteq Requests
    BY <2>2 DEF QueueInv, Queued
  <2>4. TypeOK'
    BY <1>1, <1>2, <2>1, <2>2, <2>3 DEF TypeOK, QueueInv
  <2> QED
    BY <1>3, <2>2, <2>4 DEF NodeInv
<1> QED
  BY <1>5, <1>6, <1>7

(* The account's next transaction is mined. *)
LEMMA MineStep == ASSUME NodeInv, Mine PROVE NodeInv'
<1>1. PICK tx \in mempool :
         /\ tx.nonce = mined /\ mined' = mined + 1 /\ mempool' = mempool \ {tx}
         /\ status' = IF Applicable(tx.call, tx.req)
                      THEN [status EXCEPT ![tx.req] = IF tx.call = "claim" THEN "ours" ELSE "done"]
                      ELSE status
         /\ claimMined' = IF tx.call = "claim" THEN claimMined \cup {tx.req} ELSE claimMined
         /\ UNCHANGED <<phase, toFetch, heap, seen, task, current_nonce, pending_count, burnt, rounds, faults>>
  BY DEF Mine, queueVars, nonceVars, bounds
<1>2. TypeOK /\ QueueInv /\ NonceInv /\ mined \in Nat /\ tx.req \in Requests
  BY <1>1 DEF NodeInv, TypeOK
<1>3. TypeOK'
  <2>1. status' \in [Requests -> {"pending", "ours", "theirs", "expired", "done"}]
    BY <1>1, <1>2 DEF TypeOK
  <2> QED
    BY <1>1, <1>2, <2>1 DEF TypeOK
<1>4. QueueInv'
  <2>1. Running' = Running
    BY <1>1 DEF Running
  <2> QED
    BY <1>1, <1>2, <2>1, QueueKept
<1>5. ASSUME NEW q \in Requests PROVE TaskOK(q, task[q])'
  <2>1. PICK u \in Task : u = task[q]
    BY <1>2 DEF TypeOK
  <2>2. TaskOK(q, u) /\ u.nonce \in Nat
    BY <2>1 DEF NodeInv, Task
  <2>3. claimMined \subseteq claimMined'
    BY <1>1
  <2>4. ASSUME u.pc = "await"
        PROVE  TxOf(q, u) \in mempool' \/ (u.nonce < mined' /\ (u.call = "claim" => q \in claimMined'))
    <3>1. CASE TxOf(q, u) = tx
      <4>1. u.nonce = mined /\ u.call = tx.call /\ q = tx.req
        BY <1>1, <3>1 DEF TxOf
      <4> QED
        BY <1>1, <1>2, <4>1
    <3>2. CASE TxOf(q, u) # tx
      BY <1>1, <1>2, <2>2, <2>3, <2>4, <3>2 DEF TaskOK
    <3> QED
      BY <3>1, <3>2
  <2>5. ASSUME u.pc = "sync" PROVE Taken(u.nonce)'
    BY <1>1, <1>2, <2>2, <2>5 DEF TaskOK, Taken
  <2>6. u.pc = "swap" => u.nonce <= mined'
    BY <1>1, <1>2, <2>2 DEF TaskOK
  <2>7. task'[q] = u
    BY <1>1, <2>1
  <2> QED
    BY <2>2, <2>3, <2>4, <2>5, <2>6, <2>7 DEF TaskOK, TxOf, Taken
<1>6. NonceInv'
  <2>1. \A x \in mempool : x.nonce \in Nat
    BY <1>2 DEF TypeOK
  <2>2. /\ \A x, y \in mempool' : x.nonce = y.nonce => x = y
        /\ \A x \in mempool' : x.nonce >= mined'
    BY <1>1, <1>2, <2>1 DEF NonceInv
  <2>3. ASSUME NEW n \in mined + 1 .. current_nonce - 1 PROVE Covered(n)'
    <3>1. n \in mined .. current_nonce - 1 /\ n # mined
      BY <1>2
    <3>2. Covered(n)
      BY <1>2, <3>1 DEF NonceInv
    <3>3. UNCHANGED <<burnt, task>> /\ \A x \in mempool : x.nonce = n => x \in mempool'
      BY <1>1, <3>1
    <3> QED
      BY <3>2, <3>3 DEF Covered, Holding
  <2> QED
    BY <1>1, <2>2, <2>3 DEF NonceInv
<1> QED
  BY <1>3, <1>4, <1>5, <1>6 DEF NodeInv

(* Every step keeps the inductive invariant. *)
LEMMA NextKeeps == NodeInv /\ [Next]_vars => NodeInv'
<1> SUFFICES ASSUME NodeInv, [Next]_vars PROVE NodeInv'
  OBVIOUS
<1>1. TypeOK /\ QueueInv
  BY DEF NodeInv
<1>2. CASE LoopStep
  BY <1>2, LoopKeeps, PopStep DEF LoopStep
<1>3. ASSUME NEW r \in Requests, TaskStep(r) PROVE NodeInv'
  BY <1>3, LocalStep, SendStep, SettleStep DEF TaskStep
<1>4. ASSUME NEW r \in Requests, Competitor(r) PROVE NodeInv'
  <2>1. /\ UNCHANGED <<mined, mempool, claimMined, phase, toFetch, heap, seen, task, current_nonce, pending_count,
                       burnt, rounds>>
        /\ faults' = faults + 1 /\ status' \in [Requests -> {"pending", "ours", "theirs", "expired", "done"}]
    BY <1>1, <1>4 DEF Competitor, queueVars, nonceVars, TypeOK
  <2>2. TypeOK'
    BY <1>1, <2>1 DEF TypeOK
  <2>3. Running' = Running
    BY <2>1 DEF Running
  <2>4. QueueInv'
    BY <1>1, <2>1, <2>3, QueueKept
  <2> QED
    BY <2>1, <2>2, <2>4, TasksKept DEF NodeInv
<1>5. CASE UNCHANGED vars
  <2>1. UNCHANGED <<status, mined, mempool, claimMined, phase, toFetch, heap, seen, task, current_nonce, pending_count,
                    burnt, rounds, faults>>
    BY <1>5 DEF vars, chainVars, queueVars, nonceVars, bounds
  <2>2. TypeOK'
    BY <1>1, <2>1 DEF TypeOK
  <2>3. Running' = Running
    BY <2>1 DEF Running
  <2>4. QueueInv'
    BY <1>1, <2>1, <2>3, QueueKept
  <2> QED
    BY <2>1, <2>2, <2>4, TasksKept DEF NodeInv
<1>6. CASE Restart
  <2>1. /\ UNCHANGED <<status, mined, mempool, claimMined>> /\ faults' = faults + 1 /\ phase' = "idle"
        /\ toFetch' = {} /\ heap' = {} /\ seen' = {} /\ task' = [r \in Requests |-> NoTask]
        /\ current_nonce' = mined /\ pending_count' = 0 /\ burnt' = {} /\ rounds' = 0
    BY <1>6 DEF Restart, chainVars
  <2>2. \A r \in Requests : task'[r] = NoTask /\ task'[r].pc = "none"
    BY <2>1 DEF NoTask
  <2>3. TypeOK'
    BY <1>1, <2>1, NoTaskOK DEF TypeOK
  <2>4. Running' = {} /\ Queued' = {} /\ DistinctJobs'
    BY <2>1, <2>2 DEF Running, Queued, DistinctJobs
  <2>5. QueueInv'
    BY <2>1, <2>4, FS_EmptySet, NatAssumption DEF QueueInv
  <2>6. \A r \in Requests : TaskOK(r, task[r])'
    BY <2>2 DEF TaskOK
  <2>7. mined \in Nat /\ mined .. mined - 1 = {}
    BY <1>1 DEF TypeOK
  <2>8. NonceInv'
    BY <2>1, <2>7 DEF NodeInv, NonceInv
  <2> QED
    BY <2>3, <2>5, <2>6, <2>8 DEF NodeInv
<1> QED
  BY <1>2, <1>3, <1>4, <1>5, <1>6, MineStep DEF Next

(* The inductive invariant of the service. *)
THEOREM NodeInvariant == Spec => []NodeInv
<1>1. Init => NodeInv
  <2> SUFFICES ASSUME Init PROVE NodeInv
    OBVIOUS
  <2>1. \A r \in Requests : task[r] = NoTask /\ task[r].pc = "none"
    BY DEF Init, NoTask
  <2>2. NoTask \in Task
    BY NoTaskOK
  <2>3. TypeOK
    BY <2>2 DEF Init, TypeOK
  <2>4. Running = {} /\ Queued = {} /\ DistinctJobs
    BY <2>1 DEF Init, Running, Queued, DistinctJobs
  <2>5. QueueInv
    BY <2>4, FS_EmptySet, NatAssumption DEF Init, QueueInv
  <2>6. \A r \in Requests : TaskOK(r, task[r])
    BY <2>1 DEF TaskOK
  <2>7. NonceInv
    BY DEF Init, NonceInv
  <2> QED
    BY <2>3, <2>5, <2>6, <2>7 DEF NodeInv
<1> QED
  BY <1>1, NextKeeps, PTL DEF Spec

(* For any number of requests, tasks and rounds, and through any number of *)
(* restarts and faults: the queue (JobQueue::push, pop) never exceeds      *)
(* max_size, its set of seen ids is exactly what is in the heap, and no    *)
(* request is queued twice or queued while a task works on it.             *)
THEOREM ConsistentQueue == Spec => []QueueIsConsistent
<1>1. NodeInv => QueueIsConsistent
  BY DEF NodeInv, QueueInv, QueueIsConsistent
<1> QED
  BY <1>1, NodeInvariant, PTL

(* However many tasks take, lose and synchronise nonces in parallel        *)
(* (NonceManager::next_nonce, sync_from_chain), no nonce is used by two    *)
(* waiting transactions, and the only gaps in front of the counter are     *)
(* those of sends that failed.                                             *)
THEOREM AccountedNonces == Spec => []NoncesAreAccountedFor
<1>1. NodeInv => NoncesAreAccountedFor
  BY DEF NodeInv, NonceInv, Covered, NoncesAreAccountedFor
<1> QED
  BY <1>1, NodeInvariant, PTL

(* No task gets to standard proving (process_single_job, step 7), to       *)
(* decomposed proving of a request with private inputs (step 4b), or to    *)
(* submitting a proof of any path, before a claim of this node for its     *)
(* request was mined, whatever calls failed, were retried or were made     *)
(* early.                                                                  *)
THEOREM ClaimFirst == Spec => []ClaimMinedBeforeProving
<1>1. NodeInv => ClaimMinedBeforeProving
  BY DEF NodeInv, TaskOK, ClaimMinedBeforeProving
<1> QED
  BY <1>1, NodeInvariant, PTL
=============================================================================
