-------------------------- MODULE BatchClientProofs --------------------------
(* Theorems about batched DAG verification (part 1) and its client (part   *)
(* 2), for circuits and batches of any size.                               *)
EXTENDS BatchClient, TotalsProofs, SequenceTheorems

----------------------------------------------------------------------------
(* Sequences one after the other *)

(* g holds the concatenations of the first members of ss. *)
Joins(ss, n, g) == g = [k \in 1 .. n |-> IF k = 1 THEN ss[k] ELSE g[k - 1] \o ss[k]]

(* FlattenSeq is the last one. *)
LEMMA FlattenDef ==
    ASSUME NEW ss, Len(ss) # 0
    PROVE  FlattenSeq(ss) = (CHOOSE g : Joins(ss, Len(ss), g))[Len(ss)]
BY DEF FlattenSeq, Joins

(* They exist. *)
LEMMA JoinsExist ==
    ASSUME NEW S, NEW ss \in Seq(Seq(S)), NEW n \in 0 .. Len(ss)
    PROVE  \E g \in [1 .. n -> Seq(S)] : Joins(ss, n, g)
<1> DEFINE Bad == {m \in 0 .. Len(ss) : ~ \E g \in [1 .. m -> Seq(S)] : Joins(ss, m, g)}
<1>0. Len(ss) \in Nat /\ \A k \in 1 .. Len(ss) : ss[k] \in Seq(S)
  OBVIOUS
<1> SUFFICES ASSUME Bad # {} PROVE FALSE
  OBVIOUS
<1>1. Bad \in SUBSET Nat
  BY <1>0
<1>2. PICK m \in Bad : \A j \in Bad : m <= j
  <2> HIDE DEF Bad
  <2> QED
    BY <1>1, LeastNumber
<1>3. m \in 0 .. Len(ss) /\ ~ \E g \in [1 .. m -> Seq(S)] : Joins(ss, m, g)
  BY <1>2
<1>4. CASE m = 0
  <2>1. PICK g : g = [k \in 1 .. 0 |-> <<>>]
    OBVIOUS
  <2>2. g \in [1 .. m -> Seq(S)] /\ Joins(ss, m, g)
    BY <1>4, <2>1 DEF Joins
  <2> QED
    BY <1>3, <2>2
<1>5. CASE m # 0
  <2>1. m - 1 \in 0 .. Len(ss) /\ m - 1 \notin Bad /\ m \in Nat
    <3>1. m \in Nat /\ m - 1 \in 0 .. Len(ss) /\ ~ m <= m - 1
      BY <1>0, <1>3, <1>5
    <3> HIDE DEF Bad
    <3> QED
      BY <1>2, <3>1
  <2>2. PICK g \in [1 .. m - 1 -> Seq(S)] : Joins(ss, m - 1, g)
    BY <2>1
  <2>3. PICK h : h = [k \in 1 .. m |-> IF k < m THEN g[k] ELSE IF k = 1 THEN ss[k] ELSE g[k - 1] \o ss[k]]
    OBVIOUS
  <2>4. h \in [1 .. m -> Seq(S)]
    <3> SUFFICES ASSUME NEW k \in 1 .. m
                 PROVE  (IF k < m THEN g[k] ELSE IF k = 1 THEN ss[k] ELSE g[k - 1] \o ss[k]) \in Seq(S)
      BY <2>3
    <3>1. k < m => g[k] \in Seq(S)
      BY <2>1
    <3>2. k \in 1 .. Len(ss) /\ ss[k] \in Seq(S)
      BY <1>0, <1>3
    <3>3. ~ k < m /\ k # 1 => g[k - 1] \in Seq(S)
      BY <2>1
    <3>4. \A u \in Seq(S), v \in Seq(S) : u \o v \in Seq(S)
      OBVIOUS
    <3> QED
      BY <3>1, <3>2, <3>3, <3>4
  <2>5. ASSUME NEW k \in 1 .. m PROVE h[k] = IF k = 1 THEN ss[k] ELSE h[k - 1] \o ss[k]
    <3>1. CASE k < m
      <4>1. h[k] = g[k] /\ g[k] = IF k = 1 THEN ss[k] ELSE g[k - 1] \o ss[k]
        <5>1. k \in 1 .. m - 1
          BY <2>1, <3>1
        <5>2. g[k] = IF k = 1 THEN ss[k] ELSE g[k - 1] \o ss[k]
          BY <2>2, <5>1 DEF Joins
        <5> QED
          BY <2>3, <3>1, <5>2
      <4>2. k # 1 => h[k - 1] = g[k - 1]
        BY <2>1, <2>3, <3>1
      <4> QED
        BY <4>1, <4>2
    <3>2. CASE ~ k < m
      <4>1. h[k] = IF k = 1 THEN ss[k] ELSE g[k - 1] \o ss[k]
        BY <2>3, <3>2
      <4>2. k # 1 => h[k - 1] = g[k - 1]
        BY <2>1, <2>3, <3>2
      <4> QED
        BY <4>1, <4>2
    <3> QED
      BY <3>1, <3>2
  <2>6. Joins(ss, m, h)
    BY <2>3, <2>5 DEF Joins
  <2> QED
    BY <1>3, <2>4, <2>6
<1> QED
  BY <1>4, <1>5

SameUpto(a, b, m) == \A k \in 1 .. m : a[k] = b[k]

(* There are no others, however many members there are. *)
LEMMA JoinsUnique ==
    ASSUME NEW ss, NEW tt, NEW m \in Nat, NEW n \in Nat, m <= n, SameUpto(ss, tt, m),
           NEW g, Joins(ss, m, g), NEW h, Joins(tt, n, h)
    PROVE  SameUpto(g, h, m)
<1> USE DEF SameUpto
<1> DEFINE Differ == {k \in 1 .. m : g[k] # h[k]}
<1> SUFFICES ASSUME Differ # {} PROVE FALSE
  OBVIOUS
<1>1. Differ \in SUBSET Nat
  OBVIOUS
<1>2. PICK k \in Differ : \A j \in Differ : k <= j
  <2> HIDE DEF Differ
  <2> QED
    BY <1>1, LeastNumber
<1>3. k \in 1 .. m /\ g[k] # h[k] /\ ss[k] = tt[k]
  BY <1>2
<1>4. k # 1 => k - 1 \in 1 .. m /\ g[k - 1] = h[k - 1]
  BY <1>2, <1>3
<1>5. g[k] = IF k = 1 THEN ss[k] ELSE g[k - 1] \o ss[k]
  BY <1>3 DEF Joins
<1>6. k \in 1 .. n
  BY <1>3
<1>7. h[k] = IF k = 1 THEN tt[k] ELSE h[k - 1] \o tt[k]
  BY <1>6 DEF Joins
<1> QED
  BY <1>3, <1>4, <1>5, <1>7

(* FlattenSeq, of one more member. *)
LEMMA FlattenAppend ==
    ASSUME NEW S, NEW ss \in Seq(Seq(S)), NEW s \in Seq(S)
    PROVE  FlattenSeq(ss) \in Seq(S) /\ FlattenSeq(Append(ss, s)) = FlattenSeq(ss) \o s
<1>1. ASSUME NEW tt \in Seq(Seq(S)), Len(tt) # 0
      PROVE  \E g \in [1 .. Len(tt) -> Seq(S)] : Joins(tt, Len(tt), g) /\ FlattenSeq(tt) = g[Len(tt)]
  <2>0. Len(tt) \in Nat /\ Len(tt) \in 0 .. Len(tt) /\ Len(tt) \in 1 .. Len(tt)
    BY <1>1
  <2>1. PICK g \in [1 .. Len(tt) -> Seq(S)] : Joins(tt, Len(tt), g)
    BY <2>0, JoinsExist
  <2>2. Joins(tt, Len(tt), CHOOSE h : Joins(tt, Len(tt), h))
    BY <2>1, Zenon
  <2>3. PICK h : h = (CHOOSE f : Joins(tt, Len(tt), f))
    OBVIOUS
  <2>4. g[Len(tt)] = h[Len(tt)]
    <3>1. SameUpto(tt, tt, Len(tt)) /\ Len(tt) <= Len(tt)
      BY <2>0 DEF SameUpto
    <3>2. SameUpto(g, h, Len(tt))
      BY <2>0, <2>1, <2>2, <2>3, <3>1, JoinsUnique
    <3> QED
      BY <2>0, <3>2 DEF SameUpto
  <2>5. FlattenSeq(tt) = h[Len(tt)]
    BY <1>1, <2>3, FlattenDef
  <2> QED
    BY <2>1, <2>4, <2>5
<1>2. PICK tt \in Seq(Seq(S)) : tt = Append(ss, s)
  <2>1. Append(ss, s) \in Seq(Seq(S))
    OBVIOUS
  <2> QED
    BY <2>1
<1>3. /\ Len(ss) \in Nat /\ Len(tt) = Len(ss) + 1 /\ tt[Len(tt)] = s
      /\ \A k \in 1 .. Len(ss) : ss[k] = tt[k]
  BY <1>2
<1>4. PICK h \in [1 .. Len(tt) -> Seq(S)] : Joins(tt, Len(tt), h) /\ FlattenSeq(tt) = h[Len(tt)]
  BY <1>1, <1>3
<1>5. h[Len(tt)] = IF Len(tt) = 1 THEN s ELSE h[Len(tt) - 1] \o s
  <2>1. Len(tt) \in 1 .. Len(tt)
    BY <1>3
  <2> QED
    BY <1>3, <1>4, <2>1 DEF Joins
<1>6. CASE Len(ss) = 0
  <2>1. ss = <<>> /\ FlattenSeq(ss) = ss
    BY <1>6 DEF FlattenSeq
  <2>2. ss \in Seq(S) /\ ss \o s = s
    BY <2>1
  <2>3. Len(tt) = 1
    BY <1>3, <1>6
  <2>4. FlattenSeq(tt) = s
    BY <1>4, <1>5, <2>3
  <2> QED
    BY <1>2, <2>1, <2>2, <2>4
<1>7. CASE Len(ss) # 0
  <2>1. PICK g \in [1 .. Len(ss) -> Seq(S)] : Joins(ss, Len(ss), g) /\ FlattenSeq(ss) = g[Len(ss)]
    BY <1>1, <1>7
  <2>2. Len(ss) \in 1 .. Len(ss) /\ Len(tt) - 1 = Len(ss) /\ Len(ss) <= Len(tt) /\ Len(tt) \in Nat
    BY <1>3, <1>7
  <2>3. g[Len(ss)] = h[Len(ss)] /\ g[Len(ss)] \in Seq(S)
    <3>1. \A k \in 1 .. Len(ss) : g[k] = h[k]
      <4>1. PICK m \in Nat, n \in Nat : m = Len(ss) /\ n = Len(tt) /\ m <= n
        BY <1>3, <2>2
      <4>2. Joins(ss, m, g) /\ Joins(tt, n, h) /\ SameUpto(ss, tt, m)
        BY <1>3, <1>4, <2>1, <4>1 DEF SameUpto
      <4>3. SameUpto(g, h, m)
        BY <4>1, <4>2, JoinsUnique
      <4> QED
        BY <4>1, <4>3 DEF SameUpto
    <3> QED
      BY <2>1, <2>2, <3>1
  <2>4. Len(tt) # 1
    BY <1>3, <1>7
  <2>5. FlattenSeq(tt) = h[Len(ss)] \o s
    BY <1>4, <1>5, <2>2, <2>4
  <2> QED
    BY <1>2, <2>1, <2>3, <2>5
<1> QED
  BY <1>6, <1>7
----------------------------------------------------------------------------
(* Loops, and what verifyDAGProof checks *)

Checks == [kind : {"layer", "group", "claim"}, at : Nat, item : Nat, uses : Nat]
Input == [committed : BOOLEAN, claims : Nat]

(* What is known of a description. *)
LEMMA DescriptionType ==
    ASSUME NEW d \in Descriptions
    PROVE  /\ d.numComputeLayers \in Nat /\ NumInputs(d) \in Nat
           /\ \A j \in 0 .. NumInputs(d) - 1 : Committed(d, j) \in BOOLEAN /\ Claims(d, j) \in Nat
<1>1. d \in [numComputeLayers : Nat, inputs : Seq(Input), gensHash : Generators \cup {Nothing}]
  BY DAGAssumption DEF Input
<1>2. PICK ins \in Seq(Input) : ins = d.inputs
  BY <1>1
<1>3. Len(ins) \in Nat /\ \A k \in 1 .. Len(ins) : ins[k] \in Input
  OBVIOUS
<1>4. ASSUME NEW j \in 0 .. Len(ins) - 1 PROVE ins[j + 1] \in Input
  BY <1>3
<1> QED
  BY <1>1, <1>2, <1>3, <1>4 DEF NumInputs, Committed, Claims, Input

(* Committed layers are counted in two parts. *)
LEMMA CommittedSplit ==
    ASSUME NEW d, NEW f \in Nat, NEW m \in Nat, f <= m
    PROVE  /\ CommittedIn(d, 0, f) \in Nat /\ CommittedIn(d, f, m) \in Nat
           /\ CommittedIn(d, 0, m) = CommittedIn(d, 0, f) + CommittedIn(d, f, m)
<1> DEFINE A == {j \in 0 .. f - 1 : Committed(d, j)}
           B == {j \in f .. m - 1 : Committed(d, j)}
           C == {j \in 0 .. m - 1 : Committed(d, j)}
<1>1. IsFiniteSet(0 .. f - 1) /\ IsFiniteSet(f .. m - 1)
  BY FS_Interval
<1>2. A \in SUBSET (0 .. f - 1) /\ B \in SUBSET (f .. m - 1)
  OBVIOUS
<1>3. IsFiniteSet(A) /\ IsFiniteSet(B)
  <2> HIDE DEF A, B
  <2> QED
    BY <1>1, <1>2, FS_Subset
<1>4. C = A \cup B /\ A \cap B = {}
  <2>1. \A j : j \in 0 .. m - 1 <=> j \in 0 .. f - 1 \/ j \in f .. m - 1
    OBVIOUS
  <2>2. \A j : ~ (j \in 0 .. f - 1 /\ j \in f .. m - 1)
    OBVIOUS
  <2> QED
    BY <2>1, <2>2
<1>5. Cardinality(A) \in Nat /\ Cardinality(B) \in Nat /\ Cardinality(C) = Cardinality(A) + Cardinality(B)
  <2> HIDE DEF A, B, C
  <2>1. Cardinality(A) \in Nat /\ Cardinality(B) \in Nat
    BY <1>3, FS_CardinalityType
  <2>2. Cardinality(A \cup B) = Cardinality(A) + Cardinality(B) - Cardinality(A \cap B)
    BY <1>3, FS_Union
  <2>3. Cardinality(A \cap B) = 0
    BY <1>4, FS_EmptySet
  <2> QED
    BY <1>4, <2>1, <2>2, <2>3
<1> QED
  BY <1>5 DEF CommittedIn

PublicSet(d, a, b) == {j \in a .. b - 1 : ~ Committed(d, j)}
PublicFcn(d, a, b) == [j \in PublicSet(d, a, b) |-> Claims(d, j)]

(* The claims on the public layers of a range: another public layer adds   *)
(* its own, a committed one nothing.                                       *)
LEMMA PublicNext ==
    ASSUME NEW d \in Descriptions, NEW a \in Nat, NEW m \in a .. NumInputs(d) - 1
    PROVE  /\ PublicClaimsIn(d, a, a) = 0 /\ PublicClaimsIn(d, a, m) \in Nat
           /\ PublicClaimsIn(d, a, m + 1) = PublicClaimsIn(d, a, m) + (IF Committed(d, m) THEN 0 ELSE Claims(d, m))
<1>0. NumInputs(d) \in Nat /\ m \in Nat /\ m \in 0 .. NumInputs(d) - 1
  BY DescriptionType
<1>1. \A b : PublicClaimsIn(d, a, b) = Total(PublicFcn(d, a, b))
  BY DEF PublicClaimsIn, PublicFcn, PublicSet
<1>2. ASSUME NEW b \in Nat, b <= NumInputs(d)
      PROVE  IsFiniteSet(PublicSet(d, a, b)) /\ PublicFcn(d, a, b) \in [PublicSet(d, a, b) -> Nat]
  <2>1. PublicSet(d, a, b) \in SUBSET (a .. b - 1) /\ IsFiniteSet(a .. b - 1)
    BY FS_Interval DEF PublicSet
  <2>2. \A j \in PublicSet(d, a, b) : Claims(d, j) \in Nat
    <3>1. \A j \in a .. b - 1 : j \in 0 .. NumInputs(d) - 1
      BY <1>0, <1>2
    <3> QED
      BY <2>1, <3>1, DescriptionType
  <2> QED
    BY <2>1, <2>2, FS_Subset DEF PublicFcn
<1>3. PublicClaimsIn(d, a, a) = 0
  <2>1. PublicSet(d, a, a) = {}
    BY DEF PublicSet
  <2>2. a <= NumInputs(d)
    BY <1>0
  <2>3. PublicFcn(d, a, a) \in [{} -> {0}] /\ IsFiniteSet({})
    BY <1>2, <2>1, <2>2, FS_EmptySet
  <2> QED
    BY <1>1, <2>3, TotalZero
<1>4. PublicClaimsIn(d, a, m) \in Nat
  <2>1. m <= NumInputs(d)
    BY <1>0
  <2> QED
    BY <1>0, <1>1, <1>2, <2>1, TotalNat
<1>5. CASE Committed(d, m)
  <2>1. \A j : j \in a .. m + 1 - 1 <=> j \in a .. m - 1 \/ j = m
    BY <1>0
  <2>2. PublicSet(d, a, m + 1) = PublicSet(d, a, m)
    BY <1>5, <2>1 DEF PublicSet
  <2>3. PublicClaimsIn(d, a, m + 1) = PublicClaimsIn(d, a, m)
    BY <1>1, <2>2 DEF PublicFcn
  <2> QED
    BY <1>3, <1>4, <1>5, <2>3
<1>6. CASE ~ Committed(d, m)
  <2>1. \A j : j \in a .. m + 1 - 1 <=> j \in a .. m - 1 \/ j = m
    BY <1>0
  <2>2. PublicSet(d, a, m + 1) = PublicSet(d, a, m) \cup {m} /\ m \notin PublicSet(d, a, m)
    BY <1>0, <1>6, <2>1 DEF PublicSet
  <2>3. m + 1 \in Nat /\ m + 1 <= NumInputs(d) /\ m <= NumInputs(d)
    BY <1>0
  <2>4. PICK S, g, h : S = PublicSet(d, a, m) /\ h = PublicFcn(d, a, m) /\ g = PublicFcn(d, a, m + 1)
    OBVIOUS
  <2>5. IsFiniteSet(S) /\ h \in [S -> Nat] /\ g \in [S \cup {m} -> Nat]
    BY <1>0, <1>2, <2>2, <2>3, <2>4
  <2>6. Extends(g, h, S, m)
    <3>1. \A j \in S : g[j] = Claims(d, j) /\ h[j] = Claims(d, j)
      BY <2>2, <2>4 DEF PublicFcn
    <3> QED
      BY <2>2, <2>4, <2>5, <3>1 DEF Extends
  <2>7. g[m] = Claims(d, m)
    BY <2>2, <2>4 DEF PublicFcn
  <2>8. Total(g) = Total(h) + Claims(d, m)
    BY <2>5, <2>6, <2>7, TotalExtend
  <2> QED
    BY <1>1, <1>3, <1>4, <1>6, <2>4, <2>8
<1> QED
  BY <1>5, <1>6

(* The claims are counted in two parts. *)
LEMMA PublicSplit ==
    ASSUME NEW d \in Descriptions, NEW f \in 0 .. NumInputs(d) - 1, NEW m \in f .. NumInputs(d) - 1
    PROVE  /\ PublicClaimsIn(d, 0, f) \in Nat /\ PublicClaimsIn(d, f, m) \in Nat
           /\ PublicClaimsIn(d, 0, m) = PublicClaimsIn(d, 0, f) + PublicClaimsIn(d, f, m)
<1>0. NumInputs(d) \in Nat /\ f \in Nat
  BY DescriptionType
<1> DEFINE Bad == {k \in f .. NumInputs(d) - 1 :
                     PublicClaimsIn(d, 0, k) # PublicClaimsIn(d, 0, f) + PublicClaimsIn(d, f, k)}
<1>1. ASSUME NEW k \in f .. NumInputs(d) - 1
      PROVE  PublicClaimsIn(d, 0, k) \in Nat /\ PublicClaimsIn(d, f, k) \in Nat
  BY <1>0, <1>1, PublicNext
<1>2. PublicClaimsIn(d, 0, f) \in Nat /\ f \in f .. NumInputs(d) - 1
  BY <1>0, <1>1
<1>3. Bad = {}
  <2> SUFFICES ASSUME Bad # {} PROVE FALSE
    OBVIOUS
  <2>1. Bad \in SUBSET Nat
    BY <1>0
  <2>2. PICK k \in Bad : \A j \in Bad : k <= j
    <3> HIDE DEF Bad
    <3> QED
      BY <2>1, LeastNumber
  <2>3. k \in f .. NumInputs(d) - 1 /\ k \in Nat
    BY <1>0, <2>2
  <2>4. CASE k = f
    <3>1. PublicClaimsIn(d, f, f) = 0
      BY <1>0, <1>2, PublicNext
    <3>2. PublicClaimsIn(d, 0, f) = PublicClaimsIn(d, 0, f) + PublicClaimsIn(d, f, f)
      BY <1>2, <3>1
    <3> QED
      BY <2>2, <2>4, <3>2
  <2>5. CASE k # f
    <3>1. k - 1 \in f .. NumInputs(d) - 1 /\ k - 1 \in 0 .. NumInputs(d) - 1 /\ k - 1 + 1 = k /\ ~ k <= k - 1
      BY <1>0, <2>3, <2>5
    <3>2. PublicClaimsIn(d, 0, k - 1) = PublicClaimsIn(d, 0, f) + PublicClaimsIn(d, f, k - 1)
      BY <2>2, <3>1
    <3>3. PICK x \in Nat : x = IF Committed(d, k - 1) THEN 0 ELSE Claims(d, k - 1)
      BY <3>1, DescriptionType
    <3>4. PublicClaimsIn(d, 0, k) = PublicClaimsIn(d, 0, k - 1) + x
      BY <3>1, <3>3, PublicNext
    <3>5. PublicClaimsIn(d, f, k) = PublicClaimsIn(d, f, k - 1) + x
      BY <1>0, <3>1, <3>3, PublicNext
    <3>6. PublicClaimsIn(d, f, k - 1) \in Nat
      BY <1>1, <3>1
    <3>7. PublicClaimsIn(d, 0, k) = PublicClaimsIn(d, 0, f) + PublicClaimsIn(d, f, k)
      BY <1>2, <3>2, <3>4, <3>5, <3>6
    <3> QED
      BY <2>2, <3>7
  <2> QED
    BY <2>4, <2>5
<1> QED
  BY <1>1, <1>2, <1>3

BindFcn(a, f, m) == [j \in f .. m - 1 |-> a.messages[j + 1]]

(* What is known of the arguments of a call. *)
LEMMA ArgumentType ==
    ASSUME NEW a \in Arguments
    PROVE  Len(a.messages) \in Nat /\ \A j \in 0 .. Len(a.messages) - 1 : a.messages[j + 1] \in Nat
<1>1. a \in [messages : Seq(Nat), gens : Generators \cup {Nothing}]
  BY DAGAssumption
<1>2. PICK ms \in Seq(Nat) : ms = a.messages
  BY <1>1
<1>3. Len(ms) \in Nat /\ \A k \in 1 .. Len(ms) : ms[k] \in Nat
  OBVIOUS
<1>4. ASSUME NEW j \in 0 .. Len(ms) - 1 PROVE ms[j + 1] \in Nat
  BY <1>3
<1> QED
  BY <1>2, <1>3, <1>4

(* The bindings of a range of layers: another layer adds its own. *)
LEMMA BindingsNext ==
    ASSUME NEW a \in Arguments, NEW f \in Nat, NEW m \in f .. Len(a.messages)
    PROVE  /\ BindingsIn(a, f, f) = 0 /\ BindingsIn(a, f, m) \in Nat
           /\ m < Len(a.messages) => /\ a.messages[m + 1] \in Nat
                                     /\ BindingsIn(a, f, m + 1) = BindingsIn(a, f, m) + a.messages[m + 1]
<1>0. Len(a.messages) \in Nat /\ m \in Nat
  BY ArgumentType
<1>1. \A b : BindingsIn(a, f, b) = Total(BindFcn(a, f, b))
  BY DEF BindingsIn, BindFcn
<1>2. ASSUME NEW b \in Nat, b <= Len(a.messages)
      PROVE  IsFiniteSet(f .. b - 1) /\ BindFcn(a, f, b) \in [f .. b - 1 -> Nat]
  <2>1. \A j \in f .. b - 1 : j \in 0 .. Len(a.messages) - 1
    BY <1>0, <1>2
  <2>2. \A j \in f .. b - 1 : a.messages[j + 1] \in Nat
    BY <2>1, ArgumentType
  <2>3. IsFiniteSet(f .. b - 1)
    BY FS_Interval
  <2> QED
    BY <2>2, <2>3 DEF BindFcn
<1>3. BindingsIn(a, f, f) = 0
  <2>1. f .. f - 1 = {} /\ f <= Len(a.messages)
    BY <1>0
  <2>2. BindFcn(a, f, f) \in [{} -> {0}] /\ IsFiniteSet({})
    BY <1>2, <2>1, FS_EmptySet
  <2> QED
    BY <1>1, <2>2, TotalZero
<1>4. BindingsIn(a, f, m) \in Nat
  <2>1. m <= Len(a.messages)
    BY <1>0
  <2> QED
    BY <1>0, <1>1, <1>2, <2>1, TotalNat
<1>5. ASSUME m < Len(a.messages)
      PROVE  a.messages[m + 1] \in Nat /\ BindingsIn(a, f, m + 1) = BindingsIn(a, f, m) + a.messages[m + 1]
  <2>1. m \in 0 .. Len(a.messages) - 1 /\ m + 1 \in Nat /\ m + 1 <= Len(a.messages) /\ m <= Len(a.messages)
    BY <1>0, <1>5
  <2>2. f .. m + 1 - 1 = (f .. m - 1) \cup {m} /\ m \notin f .. m - 1
    BY <1>0
  <2>3. PICK S, g, h : S = f .. m - 1 /\ h = BindFcn(a, f, m) /\ g = BindFcn(a, f, m + 1)
    OBVIOUS
  <2>4. IsFiniteSet(S) /\ h \in [S -> Nat] /\ g \in [S \cup {m} -> Nat]
    <3>1. IsFiniteSet(f .. m - 1) /\ BindFcn(a, f, m) \in [f .. m - 1 -> Nat]
      BY <1>0, <1>2, <2>1
    <3>2. BindFcn(a, f, m + 1) \in [f .. m + 1 - 1 -> Nat]
      BY <1>2, <2>1
    <3>3. BindFcn(a, f, m + 1) \in [(f .. m - 1) \cup {m} -> Nat]
      BY <2>2, <3>2
    <3> QED
      BY <2>3, <3>1, <3>3
  <2>5. Extends(g, h, S, m)
    <3>1. \A j \in S : g[j] = a.messages[j + 1] /\ h[j] = a.messages[j + 1]
      BY <2>2, <2>3 DEF BindFcn
    <3>2. m \notin S
      BY <2>2, <2>3
    <3> QED
      BY <2>4, <3>1, <3>2 DEF Extends
  <2>6. g[m] = a.messages[m + 1]
    BY <2>2, <2>3 DEF BindFcn
  <2>7. Total(g) = Total(h) + a.messages[m + 1]
    BY <2>4, <2>5, <2>6, TotalExtend
  <2> QED
    BY <1>1, <2>1, <2>3, <2>7, ArgumentType
<1> QED
  BY <1>3, <1>4, <1>5

(* The bindings are counted in two parts. *)
LEMMA BindingsSplit ==
    ASSUME NEW a \in Arguments, NEW f \in Nat, NEW m \in f .. Len(a.messages)
    PROVE  /\ BindingsIn(a, 0, f) \in Nat /\ BindingsIn(a, f, m) \in Nat
           /\ BindingsIn(a, 0, m) = BindingsIn(a, 0, f) + BindingsIn(a, f, m)
<1>0. PICK n \in Nat : n = Len(a.messages) /\ f <= n
  BY ArgumentType
<1> DEFINE Bad == {k \in f .. n : BindingsIn(a, 0, k) # BindingsIn(a, 0, f) + BindingsIn(a, f, k)}
<1>1. ASSUME NEW k \in f .. n
      PROVE  BindingsIn(a, 0, k) \in Nat /\ BindingsIn(a, f, k) \in Nat
  <2>1. 0 \in Nat /\ k \in 0 .. Len(a.messages) /\ k \in f .. Len(a.messages)
    BY <1>0
  <2> QED
    BY <2>1, BindingsNext
<1>2. BindingsIn(a, 0, f) \in Nat /\ f \in f .. n
  BY <1>0, <1>1
<1>3. Bad = {}
  <2> SUFFICES ASSUME Bad # {} PROVE FALSE
    OBVIOUS
  <2>1. Bad \in SUBSET Nat
    BY <1>0
  <2>2. PICK k \in Bad : \A j \in Bad : k <= j
    <3> HIDE DEF Bad
    <3> QED
      BY <2>1, LeastNumber
  <2>3. k \in f .. n /\ k \in Nat
    BY <1>0, <2>2
  <2>4. CASE k = f
    <3>1. BindingsIn(a, f, f) = 0
      BY <1>0, <1>2, BindingsNext
    <3>2. BindingsIn(a, 0, f) = BindingsIn(a, 0, f) + BindingsIn(a, f, f)
      BY <1>2, <3>1
    <3> QED
      BY <2>2, <2>4, <3>2
  <2>5. CASE k # f
    <3>1. k - 1 \in f .. n /\ k - 1 \in 0 .. n /\ k - 1 < n /\ k - 1 + 1 = k /\ ~ k <= k - 1 /\ 0 \in Nat
      BY <1>0, <2>3, <2>5
    <3>2. BindingsIn(a, 0, k - 1) = BindingsIn(a, 0, f) + BindingsIn(a, f, k - 1)
      BY <2>2, <3>1
    <3>3. PICK x \in Nat : x = a.messages[k - 1 + 1]
      BY <1>0, <3>1, BindingsNext
    <3>4. BindingsIn(a, 0, k) = BindingsIn(a, 0, k - 1) + x
      BY <1>0, <3>1, <3>3, BindingsNext
    <3>5. BindingsIn(a, f, k) = BindingsIn(a, f, k - 1) + x
      BY <1>0, <3>1, <3>3, BindingsNext
    <3>6. BindingsIn(a, f, k - 1) \in Nat
      BY <1>1, <3>1
    <3>7. BindingsIn(a, 0, k) = BindingsIn(a, 0, f) + BindingsIn(a, f, k)
      BY <1>2, <3>2, <3>4, <3>5, <3>6
    <3> QED
      BY <2>2, <3>7
  <2> QED
    BY <2>4, <2>5
<1> QED
  BY <1>0, <1>1, <1>2, <1>3

(* The values of F from a to b - 1. *)
Slice(F, a, b) == [k \in 1 .. b - a |-> F[a + k - 1]]

IsSlice(s, S, F, a, b) == s \in Seq(S) /\ Len(s) = b - a /\ \A k \in 1 .. b - a : s[k] = F[a + k - 1]

(* A slice is a sequence. *)
LEMMA SliceType ==
    ASSUME NEW S, NEW F \in [Nat -> S], NEW a \in Nat, NEW b \in Nat, a <= b
    PROVE  IsSlice(Slice(F, a, b), S, F, a, b)
<1>1. b - a \in Nat /\ \A k \in 1 .. b - a : a + k - 1 \in Nat
  OBVIOUS
<1>2. Slice(F, a, b) \in [1 .. b - a -> S]
  BY <1>1 DEF Slice
<1> QED
  BY <1>1, <1>2 DEF Slice, IsSlice

(* Two adjacent slices are one. *)
LEMMA SliceJoin ==
    ASSUME NEW S, NEW F \in [Nat -> S], NEW a \in Nat, NEW b \in Nat, NEW c \in Nat, a <= b, b <= c
    PROVE  Slice(F, a, b) \o Slice(F, b, c) = Slice(F, a, c)
<1>0. a <= c
  OBVIOUS
<1>1. PICK s, t, u : s = Slice(F, a, b) /\ t = Slice(F, b, c) /\ u = Slice(F, a, c)
  OBVIOUS
<1>a. IsSlice(s, S, F, a, b) /\ IsSlice(t, S, F, b, c) /\ IsSlice(u, S, F, a, c)
  BY <1>0, <1>1, SliceType
<1>2. /\ s \in Seq(S) /\ t \in Seq(S) /\ u \in Seq(S)
      /\ Len(s) = b - a /\ Len(t) = c - b /\ Len(u) = c - a
      /\ \A k \in 1 .. b - a : s[k] = F[a + k - 1]
      /\ \A k \in 1 .. c - b : t[k] = F[b + k - 1]
      /\ \A k \in 1 .. c - a : u[k] = F[a + k - 1]
  BY <1>a DEF IsSlice
<1>3. /\ s \o t \in Seq(S) /\ Len(s \o t) = Len(s) + Len(t)
      /\ \A k \in 1 .. Len(s) + Len(t) : (s \o t)[k] = IF k <= Len(s) THEN s[k] ELSE t[k - Len(s)]
  BY <1>2, ConcatProperties
<1>4. ASSUME NEW k \in 1 .. c - a PROVE (s \o t)[k] = u[k]
  <2>1. k \in 1 .. Len(s) + Len(t)
    BY <1>2
  <2>2. CASE k <= b - a
    BY <1>2, <1>3, <2>1, <2>2
  <2>3. CASE ~ k <= b - a
    <3>1. k - (b - a) \in 1 .. c - b /\ b + (k - (b - a)) - 1 = a + k - 1
      BY <2>3
    <3> QED
      BY <1>2, <1>3, <2>1, <2>3, <3>1
  <2> QED
    BY <2>2, <2>3
<1>5. Len(s \o t) = Len(u)
  BY <1>2, <1>3
<1>6. s \o t = u
  BY <1>2, <1>3, <1>4, <1>5, SeqEqual
<1> QED
  BY <1>1, <1>6

(* One more value. *)
LEMMA SliceAppend ==
    ASSUME NEW S, NEW F \in [Nat -> S], NEW a \in Nat, NEW b \in Nat, a <= b
    PROVE  Slice(F, a, b + 1) = Append(Slice(F, a, b), F[b])
<1>0. PICK c \in Nat : c = b + 1 /\ a <= c
  OBVIOUS
<1>1. PICK s, u : s = Slice(F, a, b) /\ u = Slice(F, a, c)
  OBVIOUS
<1>a. IsSlice(s, S, F, a, b) /\ IsSlice(u, S, F, a, c)
  BY <1>0, <1>1, SliceType
<1>2. /\ s \in Seq(S) /\ u \in Seq(S) /\ Len(s) = b - a /\ Len(u) = b + 1 - a
      /\ \A k \in 1 .. b - a : s[k] = F[a + k - 1]
      /\ \A k \in 1 .. b + 1 - a : u[k] = F[a + k - 1]
  BY <1>0, <1>a DEF IsSlice
<1>3. PICK t : t = Append(s, F[b])
  OBVIOUS
<1>4. t \in Seq(S) /\ Len(t) = Len(s) + 1 /\ (\A k \in 1 .. Len(s) : t[k] = s[k]) /\ t[Len(s) + 1] = F[b]
  <2>1. F[b] \in S
    OBVIOUS
  <2> QED
    BY <1>2, <1>3, <2>1
<1>5. ASSUME NEW k \in 1 .. Len(t) PROVE t[k] = u[k]
  <2>1. CASE k <= b - a
    <3>1. k \in 1 .. Len(s) /\ k \in 1 .. b - a /\ k \in 1 .. b + 1 - a
      BY <1>2, <2>1
    <3> QED
      BY <1>2, <1>4, <3>1
  <2>2. CASE ~ k <= b - a
    <3>1. k = Len(s) + 1 /\ k \in 1 .. b + 1 - a /\ a + k - 1 = b
      BY <1>2, <1>4, <2>2
    <3> QED
      BY <1>2, <1>4, <3>1
  <2> QED
    BY <2>1, <2>2
<1>6. t = u
  BY <1>2, <1>4, <1>5, SeqEqual
<1> QED
  BY <1>0, <1>1, <1>3, <1>6

LayerFcn == [j \in Nat |-> LayerCheck(j, j)]
GroupFcn(x, proof) == [j \in Nat |-> GroupCheck(x, j, proof)]
ClaimFcn(x, claim) == [j \in Nat |-> ClaimCheck(x, j, claim + j)]
InputFcn(d) == [j \in Nat |-> IF j < NumInputs(d) THEN InputChecks(d, j) ELSE <<>>]

(* The first checks of each kind, in the order of verifyDAGProof. *)
FirstLayers(m) == Slice(LayerFcn, 0, m)
FirstInputs(d, m) == FlattenSeq(Slice(InputFcn(d), 0, m))
FirstGroups(d, x, g) == Slice(GroupFcn(x, CommittedIn(d, 0, x)), 0, g)

(* They are checks. *)
LEMMA CheckFcns ==
    ASSUME NEW x \in Nat, NEW n \in Nat
    PROVE  /\ LayerFcn \in [Nat -> Checks]
           /\ GroupFcn(x, n) \in [Nat -> Checks]
           /\ ClaimFcn(x, n) \in [Nat -> Checks]
BY DEF LayerFcn, GroupFcn, ClaimFcn, LayerCheck, GroupCheck, ClaimCheck, Checks

(* The checks of an input layer are a slice. *)
LEMMA InputSlice ==
    ASSUME NEW d \in Descriptions, NEW x \in 0 .. NumInputs(d) - 1
    PROVE  /\ InputChecks(d, x) = IF Committed(d, x) THEN FirstGroups(d, x, Claims(d, x))
                                  ELSE Slice(ClaimFcn(x, PublicClaimsIn(d, 0, x)), 0, Claims(d, x))
           /\ InputChecks(d, x) \in Seq(Checks)
<1>1. x \in Nat /\ NumInputs(d) \in Nat /\ Claims(d, x) \in Nat
  BY DescriptionType
<1>2. PICK n \in Nat : n = Claims(d, x)
  BY <1>1
<1>3. PICK p \in Nat, q \in Nat : p = CommittedIn(d, 0, x) /\ q = PublicClaimsIn(d, 0, x)
  <2>1. CommittedIn(d, 0, x) \in Nat
    BY <1>1, CommittedSplit
  <2>2. PublicClaimsIn(d, 0, x) \in Nat
    BY <1>1, PublicNext
  <2> QED
    BY <2>1, <2>2
<1>4. \A k \in 1 .. n - 0 : 0 + k - 1 \in Nat
  OBVIOUS
<1>5. ForRange(0, n, LAMBDA g : GroupCheck(x, g, p)) = Slice(GroupFcn(x, p), 0, n)
  BY <1>4 DEF ForRange, Slice, GroupFcn
<1>6. ForRange(0, n, LAMBDA c : ClaimCheck(x, c, q + c)) = Slice(ClaimFcn(x, q), 0, n)
  BY <1>4 DEF ForRange, Slice, ClaimFcn
<1>7. Slice(GroupFcn(x, p), 0, n) \in Seq(Checks) /\ Slice(ClaimFcn(x, q), 0, n) \in Seq(Checks)
  <2>1. PICK G \in [Nat -> Checks], H \in [Nat -> Checks] : G = GroupFcn(x, p) /\ H = ClaimFcn(x, q)
    BY <1>1, CheckFcns
  <2>2. IsSlice(Slice(G, 0, n), Checks, G, 0, n) /\ IsSlice(Slice(H, 0, n), Checks, H, 0, n)
    <3>1. 0 \in Nat /\ 0 <= n
      OBVIOUS
    <3> QED
      BY <3>1, SliceType
  <2> QED
    BY <2>1, <2>2 DEF IsSlice
<1> QED
  BY <1>2, <1>3, <1>5, <1>6, <1>7 DEF InputChecks, FirstGroups

(* The input checks, one layer after the other. *)
LEMMA InputsNext ==
    ASSUME NEW d \in Descriptions, NEW m \in 0 .. NumInputs(d)
    PROVE  /\ FirstInputs(d, m) \in Seq(Checks) /\ FirstInputs(d, 0) = <<>>
           /\ m < NumInputs(d) => FirstInputs(d, m + 1) = FirstInputs(d, m) \o InputChecks(d, m)
<1>0. NumInputs(d) \in Nat /\ m \in Nat /\ 0 <= m
  BY DescriptionType
<1>1. PICK F \in [Nat -> Seq(Checks)] : F = InputFcn(d)
  <2>1. ASSUME NEW j \in Nat
        PROVE  (IF j < NumInputs(d) THEN InputChecks(d, j) ELSE <<>>) \in Seq(Checks)
    <3>1. CASE j < NumInputs(d)
      <4>1. j \in 0 .. NumInputs(d) - 1
        BY <1>0, <3>1
      <4> QED
        BY <3>1, <4>1, InputSlice
    <3>2. CASE ~ j < NumInputs(d)
      BY <3>2
    <3> QED
      BY <3>1, <3>2
  <2> QED
    BY <2>1 DEF InputFcn
<1>2. PICK ss \in Seq(Seq(Checks)) : ss = Slice(F, 0, m)
  <2>1. IsSlice(Slice(F, 0, m), Seq(Checks), F, 0, m)
    BY <1>0, SliceType
  <2> QED
    BY <2>1 DEF IsSlice
<1>3. FlattenSeq(ss) \in Seq(Checks) /\ \A s \in Seq(Checks) : FlattenSeq(Append(ss, s)) = FlattenSeq(ss) \o s
  <2>1. <<>> \in Seq(Checks)
    OBVIOUS
  <2> QED
    BY <2>1, FlattenAppend
<1>4. FirstInputs(d, m) = FlattenSeq(ss)
  BY <1>1, <1>2 DEF FirstInputs
<1>5. FirstInputs(d, 0) = <<>>
  <2>1. Slice(F, 0, 0) \in Seq(Seq(Checks)) /\ Len(Slice(F, 0, 0)) = 0
    <3>1. IsSlice(Slice(F, 0, 0), Seq(Checks), F, 0, 0)
      <4>1. 0 \in Nat /\ 0 <= 0
        OBVIOUS
      <4> QED
        BY <4>1, SliceType
    <3> QED
      BY <3>1 DEF IsSlice
  <2>2. Slice(F, 0, 0) = <<>>
    BY <2>1
  <2> QED
    BY <1>1, <2>2 DEF FirstInputs, FlattenSeq
<1>6. ASSUME m < NumInputs(d) PROVE FirstInputs(d, m + 1) = FirstInputs(d, m) \o InputChecks(d, m)
  <2>1. F[m] = InputChecks(d, m) /\ F[m] \in Seq(Checks)
    BY <1>0, <1>1, <1>6 DEF InputFcn
  <2>2. Slice(F, 0, m + 1) = Append(ss, F[m])
    BY <1>0, <1>2, SliceAppend
  <2> QED
    BY <1>1, <1>3, <1>4, <2>1, <2>2 DEF FirstInputs
<1> QED
  BY <1>3, <1>4, <1>5, <1>6

(* verifyDAGProof makes all of them. *)
LEMMA OneShotIs ==
    ASSUME NEW d \in Descriptions
    PROVE  OneShot(d) = FirstLayers(d.numComputeLayers) \o FirstInputs(d, NumInputs(d))
<1>1. PICK n \in Nat, m \in Nat : n = d.numComputeLayers /\ m = NumInputs(d)
  BY DescriptionType
<1>2. \A k \in 1 .. n - 0 : 0 + k - 1 \in Nat
  OBVIOUS
<1>3. ForRange(0, n, LAMBDA j : LayerCheck(j, j)) = Slice(LayerFcn, 0, n)
  BY <1>2 DEF ForRange, Slice, LayerFcn
<1>4. \A k \in 1 .. m - 0 : 0 + k - 1 \in Nat /\ 0 + k - 1 < m
  OBVIOUS
<1>5. ForRange(0, m, LAMBDA j : InputChecks(d, j)) = Slice(InputFcn(d), 0, m)
  BY <1>1, <1>4 DEF ForRange, Slice, InputFcn
<1> QED
  BY <1>1, <1>3, <1>5 DEF OneShot, ComputeChecks, FirstLayers, FirstInputs
(* No values: no slice. *)
LEMMA SliceEmpty ==
    ASSUME NEW F
    PROVE  Slice(F, 0, 0) = <<>>
<1>1. Slice(F, 0, 0) \in [1 .. 0 -> {0}]
  BY DEF Slice
<1>2. Slice(F, 0, 0) \in Seq({0}) /\ Len(Slice(F, 0, 0)) = 0
  BY <1>1
<1> QED
  BY <1>2

----------------------------------------------------------------------------
(* Batches of compute layers *)

(* The library's minimum and maximum of two numbers. *)
LEMMA MinMaxPair ==
    ASSUME NEW x \in Int, NEW y \in Int
    PROVE  /\ Min({x, y}) = IF x <= y THEN x ELSE y
           /\ Max({x, y}) = IF x <= y THEN y ELSE x
BY DEF Min, Max

(* The compute layers the first b batches verify, of n. *)
LayersBy(b, n) == IF StartLayer(b) <= n THEN StartLayer(b) ELSE n

(* A number divided, rounded down. *)
LEMMA DivProperty ==
    ASSUME NEW a \in Nat, NEW k \in Nat \ {0}
    PROVE  a \div k \in Nat /\ (a \div k) * k <= a /\ a < (a \div k) * k + k
OBVIOUS

(* More batches are more layers. *)
LEMMA TimesProperty ==
    ASSUME NEW b \in Nat, NEW t \in Nat, NEW k \in Nat
    PROVE  /\ b * k \in Nat /\ (b + 1) * k = b * k + k
           /\ b < t => b * k + k <= t * k
OBVIOUS

(* The batches cover the layers, each starting before the last layer and   *)
(* ending where the next one starts.                                       *)
LEMMA BatchArithmetic ==
    ASSUME NEW n \in Nat, NEW b \in Nat, NEW t, t = computeNumComputeBatches(n)
    PROVE  /\ t \in Nat /\ LayersBy(0, n) = 0 /\ LayersBy(t, n) = n /\ LayersBy(b, n) \in Nat
           /\ b < t => /\ LayersBy(b, n) = StartLayer(b)
                       /\ EndLayer(b, n) = LayersBy(b + 1, n)
                       /\ LayersBy(b, n) <= LayersBy(b + 1, n)
           /\ LayersBy(b, n) <= n /\ LayersBy(b + 1, n) \in Nat /\ LayersBy(b + 1, n) <= n
<1>1. PICK k \in Nat \ {0} : k = LAYERS_PER_BATCH
  BY DAGAssumption
<1>2. t = (n + k - 1) \div k /\ n + k - 1 \in Nat
  BY <1>1 DEF computeNumComputeBatches
<1>3. t \in Nat /\ t * k <= n + k - 1 /\ n + k - 1 < t * k + k
  BY <1>2, DivProperty
<1>4. b * k \in Nat /\ t * k \in Nat /\ (b + 1) * k = b * k + k /\ (b < t => b * k + k <= t * k)
  BY <1>3, TimesProperty
<1>5. PICK x \in Nat, y \in Nat : x = b * k /\ y = t * k
  BY <1>4
<1>6. StartLayer(b) = x /\ StartLayer(b + 1) = x + k /\ StartLayer(t) = y /\ StartLayer(0) = 0
  BY <1>1, <1>3, <1>4, <1>5 DEF StartLayer
<1>7. LayersBy(0, n) = 0 /\ LayersBy(t, n) = n
  BY <1>3, <1>5, <1>6 DEF LayersBy
<1>8. EndLayer(b, n) = IF x + k <= n THEN x + k ELSE n
  <2>1. Min({x + k, n}) = IF x + k <= n THEN x + k ELSE n
    BY MinMaxPair
  <2> QED
    BY <1>1, <1>6, <2>1 DEF EndLayer
<1>9. b < t => x < n
  BY <1>3, <1>4, <1>5
<1> QED
  BY <1>3, <1>6, <1>7, <1>8, <1>9 DEF LayersBy

----------------------------------------------------------------------------
(* The input layers, in shares *)

(* finalizeInputIdx and finalizeGroupsDone, when not all is done. *)
Amid(d, s) ==
    /\ s.finalizeInputIdx \in 0 .. NumInputs(d) - 1 /\ s.finalizeGroupsDone \in Nat
    /\ s.finalizeGroupsDone # 0 =>
           Committed(d, s.finalizeInputIdx) /\ s.finalizeGroupsDone < Claims(d, s.finalizeInputIdx)

(* The groups done before the call, then those of its share. *)
LEMMA GroupsShare ==
    ASSUME NEW d \in Descriptions, NEW s, Amid(d, s), NEW x \in s.finalizeInputIdx .. NumInputs(d) - 1,
           NEW e \in Nat, DoneBefore(s, x) <= e
    PROVE  /\ DoneBefore(s, x) \in Nat /\ GroupsUpto(d, s, x, e) \in Seq(Checks)
           /\ FirstGroups(d, x, DoneBefore(s, x)) \in Seq(Checks)
           /\ FirstGroups(d, x, DoneBefore(s, x)) \o GroupsUpto(d, s, x, e) = FirstGroups(d, x, e)
<1>1. PICK f \in Nat : f = s.finalizeInputIdx
  BY DEF Amid
<1>2. x \in Nat /\ f <= x /\ NumInputs(d) \in Nat
  BY <1>1, DescriptionType
<1>3. PICK h \in Nat : h = DoneBefore(s, x) /\ h <= e
  BY DEF Amid, DoneBefore
<1>4. PICK p \in Nat : p = CommittedIn(d, 0, x) /\ p = dagInputIdx(d, f, x)
  BY <1>2, CommittedSplit DEF dagInputIdx, countCommittedBefore
<1>5. PICK G \in [Nat -> Checks] : G = GroupFcn(x, p)
  BY <1>2, CheckFcns
<1>6. GroupsUpto(d, s, x, e) = Slice(G, h, e)
  <2>1. \A k \in 1 .. e - h : h + k - 1 \in Nat
    OBVIOUS
  <2>2. ForRange(h, e, LAMBDA g : GroupCheck(x, g, p)) = Slice(G, h, e)
    BY <1>5, <2>1 DEF ForRange, Slice, GroupFcn
  <2> QED
    BY <1>1, <1>3, <1>4, <2>2 DEF GroupsUpto, ForRange
<1>7. FirstGroups(d, x, h) = Slice(G, 0, h) /\ FirstGroups(d, x, e) = Slice(G, 0, e)
  BY <1>4, <1>5 DEF FirstGroups
<1>8. 0 \in Nat /\ 0 <= h
  OBVIOUS
<1>9. Slice(G, 0, h) \in Seq(Checks) /\ Slice(G, h, e) \in Seq(Checks)
  <2>1. IsSlice(Slice(G, 0, h), Checks, G, 0, h) /\ IsSlice(Slice(G, h, e), Checks, G, h, e)
    BY <1>3, <1>8, SliceType
  <2> QED
    BY <2>1 DEF IsSlice
<1>10. Slice(G, 0, h) \o Slice(G, h, e) = Slice(G, 0, e)
  BY <1>3, <1>8, SliceJoin
<1> QED
  BY <1>3, <1>6, <1>7, <1>9, <1>10

(* What was done of a layer before, and the rest of it. *)
LEMMA RestOfLayer ==
    ASSUME NEW d \in Descriptions, NEW s, Amid(d, s), NEW x \in s.finalizeInputIdx .. NumInputs(d) - 1
    PROVE  /\ RestOf(d, s, x) \in Seq(Checks) /\ InputChecks(d, x) \in Seq(Checks)
           /\ FirstGroups(d, x, DoneBefore(s, x)) \in Seq(Checks)
           /\ FirstGroups(d, x, DoneBefore(s, x)) \o RestOf(d, s, x) = InputChecks(d, x)
<1>1. PICK f \in Nat : f = s.finalizeInputIdx
  BY DEF Amid
<1>2. x \in Nat /\ f <= x /\ NumInputs(d) \in Nat /\ x \in 0 .. NumInputs(d) - 1 /\ f \in 0 .. NumInputs(d) - 1
  BY <1>1, DescriptionType DEF Amid
<1>3. PICK n \in Nat : n = Claims(d, x)
  BY <1>2, DescriptionType
<1>4. InputChecks(d, x) \in Seq(Checks)
  BY <1>2, InputSlice
<1>5. CASE Committed(d, x)
  <2>1. DoneBefore(s, x) <= n
    BY <1>1, <1>3 DEF Amid, DoneBefore
  <2>2. RestOf(d, s, x) = GroupsUpto(d, s, x, n)
    BY <1>3, <1>5 DEF RestOf
  <2>3. InputChecks(d, x) = FirstGroups(d, x, n)
    BY <1>2, <1>3, <1>5, InputSlice
  <2> QED
    BY <1>4, <2>1, <2>2, <2>3, GroupsShare
<1>6. CASE ~ Committed(d, x)
  <2>1. DoneBefore(s, x) = 0
    BY <1>1, <1>6 DEF Amid, DoneBefore
  <2>2. FirstGroups(d, x, DoneBefore(s, x)) = <<>>
    BY <2>1, SliceEmpty DEF FirstGroups
  <2>3. pubClaimIdx(d, f, x) = PublicClaimsIn(d, 0, x)
    BY <1>1, <1>2, PublicSplit DEF pubClaimIdx, countPublicClaimsBefore
  <2>4. RestOf(d, s, x) = InputChecks(d, x)
    BY <1>1, <1>6, <2>3 DEF RestOf, InputChecks
  <2>5. \A u \in Seq(Checks) : <<>> \o u = u
    OBVIOUS
  <2> QED
    BY <1>4, <2>2, <2>4, <2>5
<1> QED
  BY <1>5, <1>6
(* The rest of the layers of a call, by layer. *)
RestFcn(d, s) == [j \in Nat |-> IF j \in s.finalizeInputIdx .. NumInputs(d) - 1 THEN RestOf(d, s, j) ELSE <<>>]

(* What was checked of the input layers when layer x is reached. *)
InputsUpto(d, s, x) == FirstInputs(d, x) \o FirstGroups(d, x, DoneBefore(s, x))

(* The loop goes through the whole layers from finalizeInputIdx to x - 1. *)
Loop(d, s, x) == FlattenSeq(Slice(RestFcn(d, s), s.finalizeInputIdx, x))

(* The checks of the loop are a slice. *)
LEMMA LoopIs ==
    ASSUME NEW d \in Descriptions, NEW s, Amid(d, s), NEW x \in s.finalizeInputIdx .. NumInputs(d)
    PROVE  /\ RestFcn(d, s) \in [Nat -> Seq(Checks)]
           /\ FlattenSeq(ForRange(s.finalizeInputIdx, x, LAMBDA j : RestOf(d, s, j))) = Loop(d, s, x)
<1>1. PICK f \in Nat, n \in Nat : f = s.finalizeInputIdx /\ n = NumInputs(d)
  BY DescriptionType DEF Amid
<1>2. x \in f .. n /\ x \in Nat
  BY <1>1
<1>3. ASSUME NEW j \in Nat
      PROVE  (IF j \in f .. n - 1 THEN RestOf(d, s, j) ELSE <<>>) \in Seq(Checks)
  <2>1. j \in f .. n - 1 => RestOf(d, s, j) \in Seq(Checks)
    BY <1>1, RestOfLayer
  <2>2. <<>> \in Seq(Checks)
    OBVIOUS
  <2> QED
    BY <2>1, <2>2
<1>4. RestFcn(d, s) \in [Nat -> Seq(Checks)]
  BY <1>1, <1>3 DEF RestFcn
<1>5. \A k \in 1 .. x - f : f + k - 1 \in Nat /\ f + k - 1 \in f .. n - 1
  BY <1>2
<1>6. ForRange(f, x, LAMBDA j : RestOf(d, s, j)) = Slice(RestFcn(d, s), f, x)
  BY <1>1, <1>5 DEF ForRange, Slice, RestFcn
<1> QED
  BY <1>1, <1>4, <1>6 DEF Loop

(* The loop starts with nothing, and appends the rest of each layer. *)
LEMMA LoopNext ==
    ASSUME NEW d \in Descriptions, NEW s, Amid(d, s), NEW x \in s.finalizeInputIdx .. NumInputs(d)
    PROVE  /\ Loop(d, s, x) \in Seq(Checks) /\ Loop(d, s, s.finalizeInputIdx) = <<>>
           /\ x < NumInputs(d) => Loop(d, s, x + 1) = Loop(d, s, x) \o RestOf(d, s, x)
<1>1. PICK f \in Nat, n \in Nat : f = s.finalizeInputIdx /\ n = NumInputs(d)
  BY DescriptionType DEF Amid
<1>2. x \in f .. n /\ x \in Nat /\ f <= x /\ f <= f
  BY <1>1
<1>3. PICK F \in [Nat -> Seq(Checks)] : F = RestFcn(d, s)
  BY LoopIs
<1>4. PICK ss \in Seq(Seq(Checks)) : ss = Slice(F, f, x)
  <2>1. IsSlice(Slice(F, f, x), Seq(Checks), F, f, x)
    BY <1>2, SliceType
  <2> QED
    BY <2>1 DEF IsSlice
<1>5. FlattenSeq(ss) \in Seq(Checks) /\ \A u \in Seq(Checks) : FlattenSeq(Append(ss, u)) = FlattenSeq(ss) \o u
  <2>1. <<>> \in Seq(Checks)
    OBVIOUS
  <2> QED
    BY <2>1, FlattenAppend
<1>6. Loop(d, s, x) = FlattenSeq(ss)
  BY <1>1, <1>3, <1>4 DEF Loop
<1>7. Loop(d, s, f) = <<>>
  <2>1. Slice(F, f, f) \in Seq(Seq(Checks)) /\ Len(Slice(F, f, f)) = 0
    <3>1. IsSlice(Slice(F, f, f), Seq(Checks), F, f, f)
      BY <1>2, SliceType
    <3> QED
      BY <3>1 DEF IsSlice
  <2>2. Slice(F, f, f) = <<>>
    BY <2>1
  <2> QED
    BY <1>1, <1>3, <2>2 DEF Loop, FlattenSeq
<1>8. ASSUME x < n PROVE Loop(d, s, x + 1) = Loop(d, s, x) \o RestOf(d, s, x)
  <2>1. x \in f .. n - 1
    BY <1>2, <1>8
  <2>2. F[x] = RestOf(d, s, x) /\ F[x] \in Seq(Checks)
    BY <1>1, <1>2, <1>3, <2>1 DEF RestFcn
  <2>3. Slice(F, f, x + 1) = Append(ss, F[x])
    BY <1>2, <1>4, SliceAppend
  <2> QED
    BY <1>1, <1>3, <1>5, <1>6, <2>2, <2>3 DEF Loop
<1> QED
  BY <1>1, <1>5, <1>6, <1>7, <1>8

(* Checks one after the other, and then others. *)
LEMMA Concat ==
    ASSUME NEW S, NEW u \in Seq(S), NEW v \in Seq(S), NEW w \in Seq(S)
    PROVE  (u \o v) \o w = u \o (v \o w) /\ u \o v \in Seq(S) /\ u \o <<>> = u /\ <<>> \o u = u
<1>1. (u \o v) \o w = u \o (v \o w)
  BY ConcatAssociative
<1> QED
  BY <1>1, ConcatProperties, ConcatEmptySeq

Associates(t, u, v) == (t \o u) \o v = t \o (u \o v)

(* Checks, in groups. *)
LEMMA Associate ==
    ASSUME NEW t \in Seq(Checks), NEW u \in Seq(Checks), NEW v \in Seq(Checks)
    PROVE  Associates(t, u, v)
BY ConcatAssociative DEF Associates

Regrouped(t, u, v, w, r) == t \o u = v \o w => t \o (u \o r) = v \o (w \o r)

(* The same checks, and then others. *)
LEMMA Regroup ==
    ASSUME NEW t \in Seq(Checks), NEW u \in Seq(Checks), NEW v \in Seq(Checks), NEW w \in Seq(Checks),
           NEW r \in Seq(Checks)
    PROVE  Regrouped(t, u, v, w, r)
<1>1. (t \o u) \o r = t \o (u \o r)
  BY ConcatAssociative
<1>2. (v \o w) \o r = v \o (w \o r)
  BY ConcatAssociative
<1> QED
  BY <1>1, <1>2 DEF Regrouped

(* What was checked before and in the loop is what verifyDAGProof checks   *)
(* before it reaches the same layer.                                       *)
LEMMA LoopInvariant ==
    ASSUME NEW d \in Descriptions, NEW s, Amid(d, s), NEW x \in s.finalizeInputIdx .. NumInputs(d)
    PROVE  /\ InputsUpto(d, s, s.finalizeInputIdx) \o Loop(d, s, x) = InputsUpto(d, s, x)
           /\ InputsUpto(d, s, x) \in Seq(Checks) /\ FirstGroups(d, x, DoneBefore(s, x)) \in Seq(Checks)
<1>1. PICK f \in Nat, n \in Nat : f = s.finalizeInputIdx /\ n = NumInputs(d) /\ f \in 0 .. n - 1
  BY DescriptionType DEF Amid
<1>2. ASSUME NEW y \in f .. n
      PROVE  FirstInputs(d, y) \in Seq(Checks) /\ FirstGroups(d, y, DoneBefore(s, y)) \in Seq(Checks)
  <2>1. FirstInputs(d, y) \in Seq(Checks)
    <3>1. y \in 0 .. NumInputs(d)
      BY <1>1
    <3> QED
      BY <3>1, InputsNext
  <2>2. y < n => FirstGroups(d, y, DoneBefore(s, y)) \in Seq(Checks)
    <3>1. y < n => y \in f .. n - 1
      OBVIOUS
    <3> QED
      BY <1>1, <3>1, RestOfLayer
  <2>3. ~ y < n => FirstGroups(d, y, DoneBefore(s, y)) = <<>>
    <3>1. ~ y < n => DoneBefore(s, y) = 0
      BY <1>1 DEF DoneBefore
    <3> QED
      BY <3>1, SliceEmpty DEF FirstGroups
  <2>4. <<>> \in Seq(Checks)
    OBVIOUS
  <2> QED
    BY <2>1, <2>2, <2>3, <2>4
<1>3. ASSUME NEW y \in f .. n PROVE InputsUpto(d, s, y) \in Seq(Checks)
  BY <1>2, Concat DEF InputsUpto
<1>4. f \in f .. n
  BY <1>1
<1>5. PICK I \in Seq(Checks) : I = InputsUpto(d, s, f)
  BY <1>3, <1>4
<1> DEFINE Bad == {y \in f .. n : I \o Loop(d, s, y) # InputsUpto(d, s, y)}
<1>6. Bad = {}
  <2> SUFFICES ASSUME Bad # {} PROVE FALSE
    OBVIOUS
  <2>1. Bad \in SUBSET Nat
    BY <1>1
  <2>2. PICK m \in Bad : \A j \in Bad : m <= j
    <3> HIDE DEF Bad
    <3> QED
      BY <2>1, LeastNumber
  <2>3. m \in f .. n /\ m \in Nat
    BY <1>1, <2>2
  <2>a. I \o Loop(d, s, m) # InputsUpto(d, s, m)
    BY <2>2
  <2>4. CASE m = f
    <3>1. Loop(d, s, f) = <<>>
      BY <1>1, <1>4, LoopNext
    <3>2. I \o <<>> = I
      BY Concat
    <3> QED
      BY <1>5, <2>a, <2>4, <3>1, <3>2
  <2>5. CASE m # f
    <3>1. PICK y \in Nat : y = m - 1
      BY <2>3, <2>5
    <3>2. y \in f .. n - 1 /\ y \in f .. n /\ y + 1 = m /\ y < n /\ ~ m <= y /\ y \in 0 .. n
      BY <1>1, <2>3, <2>5, <3>1
    <3>3. y \notin Bad
      <4> HIDE DEF Bad
      <4> QED
        BY <2>2, <3>2
    <3>4. I \o Loop(d, s, y) = InputsUpto(d, s, y)
      BY <3>2, <3>3
    <3>5. PICK L \in Seq(Checks), R \in Seq(Checks), P \in Seq(Checks), G \in Seq(Checks) :
              L = Loop(d, s, y) /\ R = RestOf(d, s, y) /\ P = FirstInputs(d, y) /\ G = FirstGroups(d, y, DoneBefore(s, y))
      <4>1. Loop(d, s, y) \in Seq(Checks)
        BY <1>1, <3>2, LoopNext
      <4>2. RestOf(d, s, y) \in Seq(Checks)
        BY <1>1, <3>2, RestOfLayer
      <4>3. FirstInputs(d, y) \in Seq(Checks) /\ FirstGroups(d, y, DoneBefore(s, y)) \in Seq(Checks)
        BY <1>2, <3>2
      <4> QED
        BY <4>1, <4>2, <4>3
    <3>6. Loop(d, s, m) = L \o R
      BY <1>1, <3>2, <3>5, LoopNext
    <3>7. G \o R = InputChecks(d, y)
      BY <1>1, <3>2, <3>5, RestOfLayer
    <3>8. FirstInputs(d, m) = P \o InputChecks(d, y)
      BY <1>1, <3>2, <3>5, InputsNext
    <3>9. I \o L = P \o G => I \o (L \o R) = P \o (G \o R)
      <4>1. Regrouped(I, L, P, G, R)
        BY Regroup
      <4> QED
        BY <4>1 DEF Regrouped
    <3>10. I \o L = P \o G
      BY <3>4, <3>5 DEF InputsUpto
    <3>11. FirstGroups(d, m, DoneBefore(s, m)) = <<>>
      <4>1. DoneBefore(s, m) = 0
        BY <1>1, <2>5 DEF DoneBefore
      <4> QED
        BY <4>1, SliceEmpty DEF FirstGroups
    <3>12. InputsUpto(d, s, m) = FirstInputs(d, m)
      <4>1. FirstInputs(d, m) \in Seq(Checks)
        BY <1>2, <2>3
      <4> QED
        BY <3>11, <4>1, Concat DEF InputsUpto
    <3> QED
      BY <2>a, <3>6, <3>7, <3>8, <3>9, <3>10, <3>12
  <2> QED
    BY <2>4, <2>5
<1>7. x \in f .. n
  BY <1>1
<1> QED
  BY <1>1, <1>2, <1>3, <1>5, <1>6, <1>7
(* Where the loop stops: at the end, or at a layer that has groups left. *)
LEMMA StopsAtIs ==
    ASSUME NEW d \in Descriptions, NEW s, Amid(d, s), NEW x, x = StopsAt(d, s)
    PROVE  /\ x \in s.finalizeInputIdx .. NumInputs(d)
           /\ x # NumInputs(d) => GroupsRemain(d, x, DoneBefore(s, x))
<1>1. PICK f \in Nat, n \in Nat : f = s.finalizeInputIdx /\ n = NumInputs(d) /\ f <= n
  BY DescriptionType DEF Amid
<1>2. PICK S \in SUBSET (f .. n) : S = {j \in f .. n - 1 : GroupsRemain(d, j, DoneBefore(s, j))} \cup {n}
  <2>1. \A j : j \in f .. n - 1 \/ j = n => j \in f .. n
    BY <1>1
  <2> QED
    BY <2>1
<1>3. S \in SUBSET Nat /\ S # {}
  BY <1>1, <1>2
<1>4. PICK y \in S : \A z \in S : y <= z
  BY <1>3, LeastNumber
<1>5. Min(S) \in S
  BY <1>4, Zenon DEF Min
<1>6. x = Min(S)
  BY <1>1, <1>2 DEF StopsAt
<1> QED
  BY <1>1, <1>2, <1>5, <1>6

(* The share of a layer that has groups left is not empty and not all. *)
LEMMA ShareOf ==
    ASSUME NEW d \in Descriptions, NEW x \in 0 .. NumInputs(d) - 1, NEW h \in Nat, GroupsRemain(d, x, h)
    PROVE  /\ Committed(d, x) /\ EndGroup(d, x, h) \in Nat \ {0} /\ h <= EndGroup(d, x, h)
           /\ EndGroup(d, x, h) < Claims(d, x)
<1>1. PICK k \in Nat \ {0}, n \in Nat : k = GROUPS_PER_FINALIZE_BATCH /\ n = Claims(d, x)
  BY DAGAssumption, DescriptionType
<1>2. Min({h + k, n}) = IF h + k <= n THEN h + k ELSE n
  BY MinMaxPair
<1>3. EndGroup(d, x, h) = IF h + k <= n THEN h + k ELSE n
  BY <1>1, <1>2 DEF EndGroup
<1> QED
  BY <1>1, <1>3 DEF GroupsRemain

----------------------------------------------------------------------------
(* Part 1: sessions *)

(* The checks of b layers, f input layers and g groups of the next one. *)
DoneSoFar(d, b, f, g) == FirstLayers(b) \o (FirstInputs(d, f) \o FirstGroups(d, f, g))

(* A session of a circuit described by d has done whole batches, then      *)
(* input layers, the last one perhaps in part; b are the layers of which   *)
(* it holds the bindings, C the checks it has made.                        *)
SessionOK(d, s, b, C) ==
    LET n == d.numComputeLayers
        f == s.finalizeInputIdx
        g == s.finalizeGroupsDone
    IN  /\ s \in Session /\ s.totalBatches = computeNumComputeBatches(n)
        /\ s.nextBatchIdx <= s.totalBatches /\ b = LayersBy(s.nextBatchIdx, n)
        /\ f <= NumInputs(d) /\ (s.finalized <=> f = NumInputs(d)) /\ \A j \in 0 .. f - 1 : HasPoints(d, j)
        /\ BatchesLeft(s) => f = 0 /\ g = 0
        /\ g # 0 => f < NumInputs(d) /\ Committed(d, f) /\ g < Claims(d, f)
        /\ C = DoneSoFar(d, b, f, g)

(* registerDAGCircuit takes no empty circuit. *)
Proper(d) == d \in Descriptions /\ d.numComputeLayers > 0 /\ NumInputs(d) > 0

(* The layers of a range of batches, as a slice. *)
LEMMA LayersSlice ==
    ASSUME NEW a \in Nat, NEW b \in Nat, a <= b
    PROVE  /\ FirstLayers(a) \in Seq(Checks) /\ FirstLayers(b) \in Seq(Checks) /\ FirstLayers(0) = <<>>
           /\ Slice(LayerFcn, a, b) \in Seq(Checks) /\ FirstLayers(a) \o Slice(LayerFcn, a, b) = FirstLayers(b)
<1>1. PICK F \in [Nat -> Checks] : F = LayerFcn
  BY CheckFcns
<1>2. 0 \in Nat /\ 0 <= a /\ 0 <= b
  OBVIOUS
<1>3. IsSlice(Slice(F, 0, a), Checks, F, 0, a) /\ IsSlice(Slice(F, 0, b), Checks, F, 0, b) /\ IsSlice(Slice(F, a, b), Checks, F, a, b)
  BY <1>2, SliceType
<1>4. Slice(F, 0, a) \o Slice(F, a, b) = Slice(F, 0, b)
  BY <1>2, SliceJoin
<1>5. Slice(F, 0, 0) = <<>>
  BY SliceEmpty
<1> QED
  BY <1>1, <1>3, <1>4, <1>5 DEF FirstLayers, IsSlice

(* Nothing of the input layers is checked yet. *)
LEMMA NoInputsYet ==
    ASSUME NEW d \in Descriptions, NEW b \in Nat
    PROVE  DoneSoFar(d, b, 0, 0) = FirstLayers(b) /\ FirstLayers(b) \in Seq(Checks)
<1>1. FirstInputs(d, 0) = <<>>
  <2>1. 0 \in 0 .. NumInputs(d)
    BY DescriptionType
  <2> QED
    BY <2>1, InputsNext
<1>2. FirstGroups(d, 0, 0) = <<>>
  BY SliceEmpty DEF FirstGroups
<1>3. FirstLayers(b) \in Seq(Checks)
  BY LayersSlice
<1>4. <<>> \o <<>> = <<>> /\ FirstLayers(b) \o <<>> = FirstLayers(b)
  BY <1>3, Concat
<1> QED
  BY <1>1, <1>2, <1>3, <1>4 DEF DoneSoFar

(* A new session. *)
LEMMA StartOK ==
    ASSUME NEW d, Proper(d), NEW q \in Senders
    PROVE  SessionOK(d, NewSession(q, d), 0, <<>>)
<1>1. PICK n \in Nat, m \in Nat : n = d.numComputeLayers /\ m = NumInputs(d) /\ m > 0
  BY DescriptionType DEF Proper
<1>2. PICK s : s = NewSession(q, d)
  OBVIOUS
<1>3. PICK t \in Nat : t = computeNumComputeBatches(n)
  BY BatchArithmetic
<1>4. LayersBy(0, n) = 0
  BY <1>3, BatchArithmetic
<1>5. /\ s.nextBatchIdx = 0 /\ s.totalBatches = t /\ s.finalizeInputIdx = 0 /\ s.finalizeGroupsDone = 0
      /\ s.finalized = FALSE
  BY <1>1, <1>2, <1>3 DEF NewSession
<1>6. s \in Session
  BY <1>1, <1>2, <1>3 DEF NewSession, Session
<1>7. DoneSoFar(d, 0, 0, 0) = <<>>
  <2>1. 0 \in Nat /\ 0 <= 0
    OBVIOUS
  <2>2. FirstLayers(0) = <<>>
    BY <2>1, LayersSlice
  <2> QED
    BY <2>1, <2>2, NoInputsYet DEF Proper
<1>8. SessionOK(d, s, 0, <<>>)
  BY <1>1, <1>3, <1>4, <1>5, <1>6, <1>7 DEF SessionOK
<1> QED
  BY <1>2, <1>8
(* The checks of a continue call, and those of a finalize call up to the   *)
(* layer where it stops.                                                   *)
BatchChecks(b, start, end) == ForRange(start, end, LAMBDA j : LayerCheck(j, b + j - start))
WholeLayers(d, s, stop) == FlattenSeq(ForRange(s.finalizeInputIdx, stop, LAMBDA j : RestOf(d, s, j)))

(* Another batch. *)
LEMMA ContinueOK ==
    ASSUME NEW d, Proper(d), NEW s, NEW b, NEW C, SessionOK(d, s, b, C), BatchesLeft(s),
           NEW end, end = EndLayer(s.nextBatchIdx, d.numComputeLayers),
           NEW more, more = BatchChecks(b, StartLayer(s.nextBatchIdx), end)
    PROVE  /\ SessionOK(d, [s EXCEPT !.nextBatchIdx = @ + 1], end, C \o more)
           /\ C \in Seq(Checks) /\ more \in Seq(Checks) /\ end \in Nat /\ b \in Nat /\ b <= end
           /\ b = StartLayer(s.nextBatchIdx) /\ end <= d.numComputeLayers
<1>1. PICK n \in Nat, m \in Nat : n = d.numComputeLayers /\ m = NumInputs(d) /\ m > 0
  BY DescriptionType DEF Proper
<1>2. PICK x \in Nat, t \in Nat : x = s.nextBatchIdx /\ t = s.totalBatches /\ t = computeNumComputeBatches(n) /\ x < t
  BY <1>1 DEF SessionOK, Session, BatchesLeft
<1>3. /\ LayersBy(x, n) \in Nat /\ LayersBy(x, n) = StartLayer(x) /\ EndLayer(x, n) = LayersBy(x + 1, n)
      /\ LayersBy(x, n) <= LayersBy(x + 1, n) /\ LayersBy(x + 1, n) \in Nat /\ LayersBy(x + 1, n) <= n
  BY <1>2, BatchArithmetic
<1>4. b \in Nat /\ b = StartLayer(x) /\ end \in Nat /\ end = LayersBy(x + 1, n) /\ b <= end /\ end <= n
  BY <1>1, <1>2, <1>3 DEF SessionOK
<1>5. more = Slice(LayerFcn, b, end)
  <2>1. \A k \in 1 .. end - b : b + k - 1 \in Nat /\ b + (b + k - 1) - b = b + k - 1
    BY <1>4
  <2> QED
    BY <1>2, <1>4, <2>1 DEF BatchChecks, ForRange, Slice, LayerFcn
<1>6. s.finalizeInputIdx = 0 /\ s.finalizeGroupsDone = 0 /\ s.finalized \in BOOLEAN
  BY DEF SessionOK, Session
<1>7. C = FirstLayers(b) /\ DoneSoFar(d, end, 0, 0) = FirstLayers(end)
  BY <1>4, <1>6, NoInputsYet DEF SessionOK, Proper
<1>8. C \in Seq(Checks) /\ more \in Seq(Checks) /\ C \o more = DoneSoFar(d, end, 0, 0)
  <2>1. /\ FirstLayers(b) \in Seq(Checks) /\ Slice(LayerFcn, b, end) \in Seq(Checks)
        /\ FirstLayers(b) \o Slice(LayerFcn, b, end) = FirstLayers(end)
    BY <1>4, LayersSlice
  <2> QED
    BY <1>5, <1>7, <2>1
<1>10. PICK s2 : s2 = [s EXCEPT !.nextBatchIdx = @ + 1]
  OBVIOUS
<1>11. /\ s2 \in Session /\ s2.nextBatchIdx = x + 1 /\ s2.totalBatches = t /\ s2.finalizeInputIdx = 0
       /\ s2.finalizeGroupsDone = 0 /\ s2.finalized = s.finalized
  BY <1>2, <1>6, <1>10 DEF SessionOK, Session
<1>12. s.finalized <=> 0 = m
  BY <1>1, <1>6 DEF SessionOK
<1>13. SessionOK(d, s2, end, C \o more)
  <2>1. s2.nextBatchIdx <= s2.totalBatches /\ s2.finalizeInputIdx <= m
    BY <1>1, <1>2, <1>11
  <2>2. s2.finalized <=> s2.finalizeInputIdx = NumInputs(d)
    BY <1>1, <1>11, <1>12
  <2>3. s2.totalBatches = computeNumComputeBatches(d.numComputeLayers) /\ end = LayersBy(s2.nextBatchIdx, d.numComputeLayers)
    BY <1>1, <1>2, <1>4, <1>11
  <2>4. \A j \in 0 .. s2.finalizeInputIdx - 1 : HasPoints(d, j)
    BY <1>11
  <2>5. C \o more = DoneSoFar(d, end, s2.finalizeInputIdx, s2.finalizeGroupsDone)
    BY <1>8, <1>11
  <2> HIDE DEF DoneSoFar
  <2> QED
    BY <1>1, <1>11, <2>1, <2>2, <2>3, <2>4, <2>5 DEF SessionOK
<1> QED
  BY <1>1, <1>2, <1>4, <1>8, <1>10, <1>13

(* An open session is somewhere amid the input layers. *)
LEMMA AmidOK ==
    ASSUME NEW d, Proper(d), NEW s, NEW b, NEW C, SessionOK(d, s, b, C), ~ s.finalized
    PROVE  Amid(d, s)
<1>1. PICK m \in Nat : m = NumInputs(d)
  BY DescriptionType DEF Proper
<1>2. s.finalizeInputIdx \in Nat /\ s.finalizeGroupsDone \in Nat
  BY DEF SessionOK, Session
<1> QED
  BY <1>1, <1>2 DEF SessionOK, Amid

ExtendedBy(t, u, w, x, p, h, k) ==
    u \o w = p \o h /\ h \o x = k => (t \o u) \o (w \o x) = t \o (p \o k)

(* The same, with what a call adds to the checks. *)
LEMMA Extended ==
    ASSUME NEW t \in Seq(Checks), NEW u \in Seq(Checks), NEW w \in Seq(Checks), NEW x \in Seq(Checks),
           NEW p \in Seq(Checks), NEW h \in Seq(Checks), NEW k
    PROVE  ExtendedBy(t, u, w, x, p, h, k)
<1>1. PICK wx \in Seq(Checks) : wx = w \o x
  BY Concat
<1>2. Associates(t, u, wx)
  BY Associate
<1>3. Regrouped(u, w, p, h, x)
  BY Regroup
<1> QED
  BY <1>1, <1>2, <1>3 DEF Associates, Regrouped, ExtendedBy

(* A finalize call that stops at layer stop, of which it checks the share  *)
(* up to group g2, and leaves the session s2.                              *)
FinalizeCall(d, s, stop, g2, share, fin, more, s2) ==
    /\ ~ BatchesLeft(s) /\ ~ s.finalized /\ stop = StopsAt(d, s)
    /\ \A j \in s.finalizeInputIdx .. stop - 1 : HasPoints(d, j)
    /\ fin \in BOOLEAN /\ (fin <=> stop = NumInputs(d))
    /\ stop = NumInputs(d) => g2 = 0 /\ share = <<>>
    /\ stop # NumInputs(d) => g2 = EndGroup(d, stop, DoneBefore(s, stop)) /\ share = GroupsUpto(d, s, stop, g2)
    /\ more = WholeLayers(d, s, stop) \o share
    /\ s2 = [s EXCEPT !.finalizeInputIdx = stop, !.finalizeGroupsDone = g2, !.finalized = fin]

(* Another share of the input layers. *)
LEMMA FinalizeOK ==
    ASSUME NEW d, Proper(d), NEW s, NEW b, NEW C, SessionOK(d, s, b, C), NEW stop, NEW g2, NEW share,
           NEW fin, NEW more, NEW s2, FinalizeCall(d, s, stop, g2, share, fin, more, s2)
    PROVE  SessionOK(d, s2, b, C \o more) /\ C \in Seq(Checks) /\ more \in Seq(Checks)
<1>a. /\ ~ BatchesLeft(s) /\ ~ s.finalized /\ stop = StopsAt(d, s)
      /\ \A j \in s.finalizeInputIdx .. stop - 1 : HasPoints(d, j)
      /\ fin \in BOOLEAN /\ (fin <=> stop = NumInputs(d))
      /\ stop = NumInputs(d) => g2 = 0 /\ share = <<>>
      /\ stop # NumInputs(d) => g2 = EndGroup(d, stop, DoneBefore(s, stop)) /\ share = GroupsUpto(d, s, stop, g2)
      /\ more = WholeLayers(d, s, stop) \o share
      /\ s2 = [s EXCEPT !.finalizeInputIdx = stop, !.finalizeGroupsDone = g2, !.finalized = fin]
  BY DEF FinalizeCall
<1> HIDE DEF WholeLayers
<1>0. d \in Descriptions /\ Amid(d, s)
  BY <1>a, AmidOK DEF Proper
<1>1. PICK f \in Nat, m \in Nat : f = s.finalizeInputIdx /\ m = NumInputs(d) /\ f \in 0 .. m - 1
  BY <1>0, DescriptionType DEF Amid
<1>2. stop \in f .. m /\ stop \in Nat /\ f \in f .. m
  BY <1>a, <1>0, <1>1, StopsAtIs
<1>3. ASSUME stop # m
      PROVE  /\ stop \in f .. m - 1 /\ DoneBefore(s, stop) \in Nat /\ GroupsRemain(d, stop, DoneBefore(s, stop))
             /\ Committed(d, stop) /\ g2 \in Nat \ {0} /\ DoneBefore(s, stop) <= g2 /\ g2 < Claims(d, stop)
  <2>1. stop \in f .. m - 1 /\ stop \in 0 .. NumInputs(d) - 1
    BY <1>1, <1>2, <1>3
  <2>2. DoneBefore(s, stop) \in Nat /\ GroupsRemain(d, stop, DoneBefore(s, stop))
    BY <1>a, <1>0, <1>1, <1>3, StopsAtIs DEF Amid, DoneBefore
  <2> QED
    BY <1>a, <1>0, <1>1, <1>3, <2>1, <2>2, ShareOf
<1>4. g2 \in Nat
  BY <1>a, <1>1, <1>3
<1>5. PICK L \in Seq(Checks) : L = Loop(d, s, stop)
  BY <1>0, <1>1, <1>2, LoopNext
<1>6. more = L \o share
  BY <1>0, <1>1, <1>2, <1>5, <1>a, LoopIs DEF WholeLayers
<1>7. PICK P \in Seq(Checks), H \in Seq(Checks), I \in Seq(Checks) :
          /\ P = FirstInputs(d, stop) /\ H = FirstGroups(d, stop, DoneBefore(s, stop)) /\ I = InputsUpto(d, s, f)
          /\ I \o L = P \o H
  <2>1. FirstInputs(d, stop) \in Seq(Checks)
    <3>1. stop \in 0 .. NumInputs(d)
      BY <1>1, <1>2
    <3> QED
      BY <1>0, <3>1, InputsNext
  <2>2. FirstGroups(d, stop, DoneBefore(s, stop)) \in Seq(Checks)
    BY <1>0, <1>1, <1>2, LoopInvariant
  <2>3. InputsUpto(d, s, f) \in Seq(Checks)
    BY <1>0, <1>1, <1>2, LoopInvariant
  <2>4. InputsUpto(d, s, f) \o Loop(d, s, stop) = InputsUpto(d, s, stop)
    BY <1>0, <1>1, <1>2, LoopInvariant
  <2> QED
    BY <1>5, <2>1, <2>2, <2>3, <2>4 DEF InputsUpto
<1>8. share \in Seq(Checks) /\ H \o share = FirstGroups(d, stop, g2)
  <2>1. CASE stop = m
    <3>1. share = <<>> /\ g2 = 0
      BY <1>a, <1>1, <2>1
    <3>2. DoneBefore(s, stop) = 0
      BY <1>1, <2>1 DEF DoneBefore
    <3>3. H = <<>> /\ FirstGroups(d, stop, 0) = <<>>
      BY <1>7, <3>2, SliceEmpty DEF FirstGroups
    <3>4. <<>> \o <<>> = <<>> /\ <<>> \in Seq(Checks)
      OBVIOUS
    <3> QED
      BY <3>1, <3>3, <3>4
  <2>2. CASE stop # m
    <3>1. share = GroupsUpto(d, s, stop, g2)
      BY <1>a, <1>1, <2>2
    <3> QED
      BY <1>0, <1>1, <1>3, <1>4, <1>7, <2>2, <3>1, GroupsShare
  <2> QED
    BY <2>1, <2>2
<1>9. PICK n \in Nat : n = d.numComputeLayers /\ b = LayersBy(s.nextBatchIdx, n)
  BY <1>0, DescriptionType DEF SessionOK
<1>10. PICK B \in Seq(Checks) : B = FirstLayers(b)
  <2>1. s.nextBatchIdx \in Nat
    BY DEF SessionOK, Session
  <2>2. LayersBy(s.nextBatchIdx, n) \in Nat
    BY <2>1, BatchArithmetic
  <2>3. b \in Nat /\ b <= b
    BY <1>9, <2>2
  <2> QED
    BY <2>3, LayersSlice
<1>11. C = B \o I
  <2>1. DoneBefore(s, f) = s.finalizeGroupsDone
    BY <1>1 DEF DoneBefore
  <2> QED
    BY <1>1, <1>7, <1>10, <2>1 DEF SessionOK, DoneSoFar, InputsUpto
<1>12. C \o more = DoneSoFar(d, b, stop, g2)
  <2>1. (B \o I) \o (L \o share) = B \o (P \o FirstGroups(d, stop, g2))
    <3>1. ExtendedBy(B, I, L, share, P, H, FirstGroups(d, stop, g2))
      BY <1>8, Extended
    <3> QED
      BY <1>7, <1>8, <3>1 DEF ExtendedBy
  <2> QED
    BY <1>6, <1>7, <1>10, <1>11, <2>1 DEF DoneSoFar
<1>13. C \in Seq(Checks) /\ more \in Seq(Checks)
  <2>1. B \o I \in Seq(Checks)
    BY Concat
  <2>2. L \o share \in Seq(Checks)
    BY <1>8, Concat
  <2> QED
    BY <1>6, <1>11, <2>1, <2>2
<1>14. /\ s2 \in Session /\ s2.nextBatchIdx = s.nextBatchIdx /\ s2.totalBatches = s.totalBatches
       /\ s2.finalizeInputIdx = stop /\ s2.finalizeGroupsDone = g2 /\ s2.finalized = fin
  BY <1>a, <1>2, <1>4 DEF SessionOK, Session
<1>15. ~ BatchesLeft(s2)
  BY <1>a, <1>14 DEF BatchesLeft
<1>16. g2 # 0 => stop < m /\ Committed(d, stop) /\ g2 < Claims(d, stop)
  <2>1. stop = m => g2 = 0
    BY <1>a, <1>1
  <2>2. stop # m => stop < m
    BY <1>2
  <2> QED
    BY <1>3, <2>1, <2>2
<1>17. SessionOK(d, s2, b, C \o more)
  <2>1. /\ s.totalBatches = computeNumComputeBatches(d.numComputeLayers)
        /\ s.nextBatchIdx <= s.totalBatches /\ b = LayersBy(s.nextBatchIdx, d.numComputeLayers)
    BY DEF SessionOK
  <2>2. stop <= NumInputs(d)
    BY <1>1, <1>2
  <2>3. \A j \in 0 .. stop - 1 : HasPoints(d, j)
    <3>1. \A j \in 0 .. f - 1 : HasPoints(d, j)
      BY <1>1 DEF SessionOK
    <3>2. \A j \in f .. stop - 1 : HasPoints(d, j)
      BY <1>a, <1>1
    <3>3. \A j \in 0 .. stop - 1 : j \in 0 .. f - 1 \/ j \in f .. stop - 1
      BY <1>1, <1>2
    <3> QED
      BY <3>1, <3>2, <3>3
  <2> HIDE DEF HasPoints
  <2> QED
    BY <1>a, <1>1, <1>12, <1>14, <1>15, <1>16, <2>1, <2>2, <2>3 DEF SessionOK
<1> QED
  BY <1>13, <1>17
PrefixOfConcat(u, v) == IsPrefix(u, u \o v)

(* What is appended to leaves a prefix. *)
LEMMA PrefixConcat ==
    ASSUME NEW u \in Seq(Checks), NEW v \in Seq(Checks)
    PROVE  PrefixOfConcat(u, v)
<1>1. PICK w \in Seq(Checks) : w = u \o v
  BY Concat
<1>2. Len(w) = Len(u) + Len(v) /\ \A k \in 1 .. Len(u) : w[k] = u[k]
  BY <1>1
<1>3. Len(u) \in Nat /\ Len(v) \in Nat /\ Len(u) <= Len(w)
  BY <1>2
<1>4. SubSeq(u, 1, Len(u)) = SubSeq(w, 1, Len(u))
  BY <1>2, <1>3
<1> QED
  BY <1>1, <1>3, <1>4 DEF PrefixOfConcat, IsPrefix

(* All input layers are checked once the rest of them is. *)
LEMMA InputsRest ==
    ASSUME NEW d \in Descriptions, NEW s, Amid(d, s)
    PROVE  \E r \in Seq(Checks) :
               /\ (FirstInputs(d, s.finalizeInputIdx) \o FirstGroups(d, s.finalizeInputIdx, s.finalizeGroupsDone)) \o r
                      = FirstInputs(d, NumInputs(d))
               /\ FirstInputs(d, s.finalizeInputIdx) \o FirstGroups(d, s.finalizeInputIdx, s.finalizeGroupsDone) \in Seq(Checks)
<1>1. PICK f \in Nat, m \in Nat : f = s.finalizeInputIdx /\ m = NumInputs(d) /\ f \in 0 .. m - 1
  BY DescriptionType DEF Amid
<1>2. m \in f .. m /\ f \in f .. m /\ m # f /\ m \in 0 .. m
  BY <1>1
<1>3. PICK r \in Seq(Checks) : r = Loop(d, s, m)
  BY <1>1, <1>2, LoopNext
<1>4. InputsUpto(d, s, f) \o r = InputsUpto(d, s, m)
  BY <1>1, <1>2, <1>3, LoopInvariant
<1>5. InputsUpto(d, s, f) \in Seq(Checks)
  BY <1>1, <1>2, LoopInvariant
<1>6. InputsUpto(d, s, f) = FirstInputs(d, f) \o FirstGroups(d, f, s.finalizeGroupsDone)
  BY <1>1 DEF InputsUpto, DoneBefore
<1>7. InputsUpto(d, s, m) = FirstInputs(d, m)
  <2>1. FirstInputs(d, m) \in Seq(Checks)
    BY <1>1, <1>2, InputsNext
  <2>2. DoneBefore(s, m) = 0
    BY <1>1, <1>2 DEF DoneBefore
  <2>3. FirstGroups(d, m, 0) = <<>>
    BY SliceEmpty DEF FirstGroups
  <2> QED
    BY <2>1, <2>2, <2>3, Concat DEF InputsUpto
<1> QED
  BY <1>1, <1>3, <1>4, <1>5, <1>6, <1>7

(* A session has made the first checks of verifyDAGProof; a finalized one  *)
(* all of them, and holds the bindings of all layers.                      *)
LEMMA SessionPrefix ==
    ASSUME NEW d, Proper(d), NEW s, NEW b, NEW C, SessionOK(d, s, b, C)
    PROVE  /\ IsPrefix(C, OneShot(d))
           /\ s.finalized => C = OneShot(d) /\ Verifiable(d) /\ b = d.numComputeLayers
<1>0. d \in Descriptions
  BY DEF Proper
<1>1. PICK n \in Nat, m \in Nat : n = d.numComputeLayers /\ m = NumInputs(d) /\ m > 0
  BY DescriptionType DEF Proper
<1>2. PICK x \in Nat, t \in Nat : x = s.nextBatchIdx /\ t = s.totalBatches /\ t = computeNumComputeBatches(n) /\ x <= t
  BY <1>1 DEF SessionOK, Session
<1>3. LayersBy(x, n) \in Nat /\ LayersBy(x, n) <= n /\ LayersBy(t, n) = n
  BY <1>2, BatchArithmetic
<1>4. b \in Nat /\ b <= n /\ b = LayersBy(x, n)
  BY <1>1, <1>2, <1>3 DEF SessionOK
<1>5. PICK B \in Seq(Checks), R \in Seq(Checks), A \in Seq(Checks) :
          B = FirstLayers(b) /\ A = FirstLayers(n) /\ B \o R = A
  <2>1. /\ FirstLayers(b) \in Seq(Checks) /\ FirstLayers(n) \in Seq(Checks)
        /\ Slice(LayerFcn, b, n) \in Seq(Checks) /\ FirstLayers(b) \o Slice(LayerFcn, b, n) = FirstLayers(n)
    BY <1>4, LayersSlice
  <2> QED
    BY <2>1
<1>6. PICK W \in Seq(Checks) : W = FirstInputs(d, m)
  <2>1. m \in 0 .. NumInputs(d)
    BY <1>1
  <2> QED
    BY <1>0, <2>1, InputsNext
<1>7. OneShot(d) = A \o W
  BY <1>0, <1>1, <1>5, <1>6, OneShotIs
<1>8. CASE BatchesLeft(s)
  <2>1. s.finalizeInputIdx = 0 /\ s.finalizeGroupsDone = 0
    BY <1>8 DEF SessionOK
  <2>2. C = B
    <3>1. DoneSoFar(d, b, 0, 0) = B
      BY <1>0, <1>4, <1>5, NoInputsYet
    <3> QED
      BY <2>1, <3>1 DEF SessionOK
  <2>3. ~ s.finalized
    BY <1>1, <2>1 DEF SessionOK
  <2>4. PICK RW \in Seq(Checks) : RW = R \o W
    BY Concat
  <2>5. A \o W = B \o RW
    <3>1. Associates(B, R, W)
      BY Associate
    <3> QED
      BY <1>5, <2>4, <3>1 DEF Associates
  <2>6. PrefixOfConcat(B, RW)
    BY PrefixConcat
  <2> QED
    BY <1>7, <2>2, <2>3, <2>5, <2>6 DEF PrefixOfConcat
<1>9. CASE ~ BatchesLeft(s) /\ s.finalized
  <2>1. x = t /\ b = n /\ A = B
    BY <1>2, <1>3, <1>4, <1>5, <1>9 DEF BatchesLeft
  <2>2. s.finalizeInputIdx = m
    BY <1>1, <1>9 DEF SessionOK
  <2>3. s.finalizeGroupsDone = 0
    BY <1>1, <2>2 DEF SessionOK
  <2>4. C = B \o (W \o <<>>)
    <3>1. FirstGroups(d, m, 0) = <<>>
      BY SliceEmpty DEF FirstGroups
    <3> QED
      BY <1>5, <1>6, <2>2, <2>3, <3>1 DEF SessionOK, DoneSoFar
  <2>5. C = OneShot(d)
    BY <1>7, <2>1, <2>4, Concat
  <2>6. PrefixOfConcat(C, <<>>) /\ C \o <<>> = C
    <3>1. C \in Seq(Checks) /\ <<>> \in Seq(Checks)
      BY <1>7, <2>5, Concat
    <3> QED
      BY <3>1, PrefixConcat, Concat
  <2>7. Verifiable(d)
    BY <1>1, <2>2 DEF SessionOK, Verifiable
  <2> QED
    BY <1>1, <2>1, <2>5, <2>6, <2>7 DEF PrefixOfConcat
<1>10. CASE ~ BatchesLeft(s) /\ ~ s.finalized
  <2>1. x = t /\ b = n /\ A = B
    BY <1>2, <1>3, <1>4, <1>5, <1>10 DEF BatchesLeft
  <2>2. Amid(d, s)
    BY <1>10, AmidOK
  <2>3. PICK r \in Seq(Checks), v \in Seq(Checks) :
            /\ v = FirstInputs(d, s.finalizeInputIdx) \o FirstGroups(d, s.finalizeInputIdx, s.finalizeGroupsDone)
            /\ v \o r = W
    BY <1>0, <1>1, <1>6, <2>2, InputsRest
  <2>4. C = B \o v
    BY <1>5, <2>3 DEF SessionOK, DoneSoFar
  <2>5. OneShot(d) = C \o r
    <3>1. Associates(B, v, r)
      BY Associate
    <3> QED
      BY <1>7, <2>1, <2>3, <2>4, <3>1 DEF Associates
  <2>6. PrefixOfConcat(C, r)
    <3>1. C \in Seq(Checks)
      BY <2>4, Concat
    <3> QED
      BY <3>1, PrefixConcat
  <2> QED
    BY <1>10, <2>5, <2>6 DEF PrefixOfConcat
<1> QED
  BY <1>8, <1>9, <1>10
----------------------------------------------------------------------------
(* The arrays in storage *)

(* The arrays of a session given a in all of its calls, k layers on, and   *)
(* what _storeArray makes of the slots in use.                             *)
DataOf(a, k) == [layers |-> k, flat |-> BindingsIn(a, 0, k), challenges |-> a.messages[1]]
Joined(e, x) ==
    [layers |-> Longer(e.layers, x.layers), flat |-> Longer(e.flat, x.flat),
     challenges |-> Longer(e.challenges, x.challenges)]
Cleared(e, x) ==
    [layers |-> Beyond(e.layers, x.layers), flat |-> Beyond(e.flat, x.flat),
     challenges |-> Beyond(e.challenges, x.challenges)]
AtMost(x, y) == x.layers <= y.layers /\ x.flat <= y.flat /\ x.challenges <= y.challenges

(* The slots in use after a store. *)
LEMMA JoinedIs ==
    ASSUME NEW x \in CrossBatchData, NEW y \in CrossBatchData
    PROVE  /\ Joined(x, y) \in CrossBatchData
           /\ AtMost(x, y) => Joined(x, y) = y
           /\ AtMost(y, x) => Joined(x, y) = x
<1>1. \A m \in Nat, n \in Nat : Longer(m, n) = IF m <= n THEN n ELSE m
  BY MinMaxPair DEF Longer
<1>2. /\ x.layers \in Nat /\ x.flat \in Nat /\ x.challenges \in Nat
      /\ y.layers \in Nat /\ y.flat \in Nat /\ y.challenges \in Nat
      /\ x = [layers |-> x.layers, flat |-> x.flat, challenges |-> x.challenges]
      /\ y = [layers |-> y.layers, flat |-> y.flat, challenges |-> y.challenges]
  BY DEF CrossBatchData
<1>3. Joined(x, y) \in CrossBatchData
  BY <1>1, <1>2 DEF Joined, CrossBatchData
<1>4. ASSUME AtMost(x, y) PROVE Joined(x, y) = y
  <2>1. Longer(x.layers, y.layers) = y.layers /\ Longer(x.flat, y.flat) = y.flat /\ Longer(x.challenges, y.challenges) = y.challenges
    BY <1>1, <1>2, <1>4 DEF AtMost
  <2> QED
    BY <1>2, <2>1 DEF Joined
<1>5. ASSUME AtMost(y, x) PROVE Joined(x, y) = x
  <2>1. Longer(x.layers, y.layers) = x.layers /\ Longer(x.flat, y.flat) = x.flat /\ Longer(x.challenges, y.challenges) = x.challenges
    BY <1>1, <1>2, <1>5 DEF AtMost
  <2> QED
    BY <1>2, <2>1 DEF Joined
<1> QED
  BY <1>3, <1>4, <1>5

(* The arrays grow with the layers. *)
LEMMA DataGrows ==
    ASSUME NEW a \in Arguments, a.messages # <<>>, NEW m \in Nat, m <= Len(a.messages), NEW k \in Nat, k <= m
    PROVE  /\ DataOf(a, k) \in CrossBatchData /\ DataOf(a, m) \in CrossBatchData
           /\ AtMost(DataOf(a, k), DataOf(a, m)) /\ DataOf(a, 0) = FirstData(a)
<1>0. Len(a.messages) \in Nat
  BY ArgumentType
<1>1. a.messages[1] \in Nat
  <2>1. a.messages \in Seq(Nat)
    BY DAGAssumption
  <2>2. Len(a.messages) # 0
    BY <2>1
  <2>3. 0 \in 0 .. Len(a.messages) - 1
    BY <1>0, <2>2
  <2> QED
    BY <2>3, ArgumentType
<1>2. /\ BindingsIn(a, 0, k) \in Nat /\ BindingsIn(a, k, m) \in Nat
      /\ BindingsIn(a, 0, m) = BindingsIn(a, 0, k) + BindingsIn(a, k, m)
  <2>1. m \in k .. Len(a.messages)
    BY <1>0
  <2> QED
    BY <2>1, BindingsSplit
<1>3. BindingsIn(a, 0, 0) = 0
  <2>1. 0 \in Nat /\ 0 \in 0 .. Len(a.messages)
    BY <1>0
  <2> QED
    BY <2>1, BindingsNext
<1>4. BindingsIn(a, 0, m) \in Nat /\ BindingsIn(a, 0, k) <= BindingsIn(a, 0, m)
  BY <1>2
<1> QED
  BY <1>1, <1>2, <1>3, <1>4 DEF DataOf, CrossBatchData, AtMost, FirstData

(* The arrays after another batch. *)
LEMMA UpdateIs ==
    ASSUME NEW x \in CrossBatchData, NEW a \in Arguments, NEW m \in Nat, m <= Len(a.messages), x.layers <= m,
           NEW y, y = updateBindings(x, a, x.layers, m)
    PROVE  /\ y \in CrossBatchData /\ AtMost(x, y) /\ y.layers = m
           /\ x = DataOf(a, x.layers) => y = DataOf(a, m)
<1>1. PICK k \in Nat, p \in Nat, c \in Nat : x = [layers |-> k, flat |-> p, challenges |-> c]
  BY DEF CrossBatchData
<1>2. /\ BindingsIn(a, 0, k) \in Nat /\ BindingsIn(a, k, m) \in Nat
      /\ BindingsIn(a, 0, m) = BindingsIn(a, 0, k) + BindingsIn(a, k, m)
  <2>1. m \in k .. Len(a.messages)
    BY <1>1, ArgumentType
  <2> QED
    BY <2>1, BindingsSplit
<1>3. y = [layers |-> m, flat |-> p + BindingsIn(a, k, m), challenges |-> c]
  BY <1>1 DEF updateBindings
<1> QED
  BY <1>1, <1>2, <1>3 DEF CrossBatchData, AtMost, DataOf

(* Of sessions all given a: the arrays are a's, and the slots in use those *)
(* of some session that had come at least as far.                          *)
GivenOnce(d, x, e, a) ==
    /\ a.messages # <<>> /\ x = DataOf(a, x.layers)
    /\ \E m \in Nat : x.layers <= m /\ m <= d.numComputeLayers /\ m <= Len(a.messages) /\ e = DataOf(a, m)

(* The stored arrays x and the slots e in use of a session s that was      *)
(* given S, after earlier ones that were given P.                          *)
StoreOK(d, s, x, e, S, P) ==
    /\ s # Nothing => S # {}
    /\ \A a \in Arguments : s # Nothing /\ S = {a} => ValidGens(d, a)
    /\ P = {} /\ s = Nothing => e = NoData
    /\ P = {} /\ s # Nothing => e = x
    /\ \A a \in Arguments : P \cup S = {a} /\ s = Nothing => e = NoData
    /\ \A a \in Arguments : P \cup S = {a} /\ s # Nothing => GivenOnce(d, x, e, a)

StartCall(d, s, x, e, S, P, a, s2) ==
    /\ d.numComputeLayers \in Nat /\ x \in CrossBatchData /\ e \in CrossBatchData
    /\ StoreOK(d, s, x, e, S, P) /\ a \in Arguments /\ a.messages # <<>> /\ ValidGens(d, a) /\ s2 # Nothing

(* Storing what a new session starts with. *)
LEMMA StartStore ==
    ASSUME NEW d, NEW s, NEW x, NEW e, NEW S, NEW P, NEW a, NEW s2, StartCall(d, s, x, e, S, P, a, s2)
    PROVE  /\ FirstData(a) \in CrossBatchData /\ Joined(e, FirstData(a)) \in CrossBatchData
           /\ StoreOK(d, s2, FirstData(a), Joined(e, FirstData(a)), {a}, P \cup S)
<1> d.numComputeLayers \in Nat /\ x \in CrossBatchData /\ e \in CrossBatchData /\ StoreOK(d, s, x, e, S, P)
  BY DEF StartCall
<1> a \in Arguments /\ a.messages # <<>> /\ ValidGens(d, a) /\ s2 # Nothing
  BY DEF StartCall
<1>0. Len(a.messages) \in Nat
  BY ArgumentType
<1>1. PICK y : y = FirstData(a) /\ y = DataOf(a, 0) /\ y \in CrossBatchData /\ y.layers = 0
  <2>1. 0 \in Nat /\ 0 <= Len(a.messages) /\ 0 <= 0
    BY <1>0
  <2>2. DataOf(a, 0) = FirstData(a) /\ DataOf(a, 0) \in CrossBatchData
    BY <2>1, DataGrows
  <2> QED
    BY <2>2 DEF FirstData
<1>2. Joined(e, y) \in CrossBatchData
  BY <1>1, JoinedIs
<1>3. ASSUME e = NoData PROVE Joined(e, y) = y
  <2>1. AtMost(e, y)
    BY <1>1, <1>3 DEF AtMost, NoData, CrossBatchData
  <2> QED
    BY <1>1, <2>1, JoinedIs
<1>4. ASSUME P \cup S = {} PROVE Joined(e, y) = y
  BY <1>3, <1>4 DEF StoreOK
<1>5. ASSUME NEW b \in Arguments, (P \cup S) \cup {a} = {b} PROVE GivenOnce(d, y, Joined(e, y), b)
  <2>1. b = a
    BY <1>5
  <2>2. ASSUME Joined(e, y) = y PROVE GivenOnce(d, y, Joined(e, y), a)
    <3>1. 0 \in Nat /\ y.layers <= 0 /\ 0 <= d.numComputeLayers /\ 0 <= Len(a.messages) /\ Joined(e, y) = DataOf(a, 0)
      BY <1>0, <1>1, <2>2
    <3> QED
      BY <1>1, <3>1 DEF GivenOnce
  <2>3. CASE P \cup S = {}
    BY <1>4, <2>1, <2>2, <2>3
  <2>4. CASE P \cup S = {a} /\ s = Nothing
    BY <1>3, <2>1, <2>2, <2>4 DEF StoreOK
  <2>5. CASE P \cup S = {a} /\ s # Nothing
    <3>1. GivenOnce(d, x, e, a)
      BY <2>5 DEF StoreOK
    <3>2. PICK m \in Nat : m <= d.numComputeLayers /\ m <= Len(a.messages) /\ e = DataOf(a, m)
      BY <3>1 DEF GivenOnce
    <3>3. 0 \in Nat /\ 0 <= m
      BY <3>2
    <3>4. AtMost(y, e)
      BY <1>1, <3>2, <3>3, DataGrows
    <3>5. Joined(e, y) = DataOf(a, m)
      BY <1>1, <3>2, <3>4, JoinedIs
    <3> HIDE DEF Joined
    <3> QED
      BY <1>1, <2>1, <3>2, <3>3, <3>5 DEF GivenOnce
  <2>6. P \cup S = {} \/ P \cup S = {a}
    BY <1>5, <2>1
  <2> QED
    BY <2>3, <2>4, <2>5, <2>6
<1>6. \A b \in Arguments : {a} = {b} => ValidGens(d, b)
  OBVIOUS
<1> HIDE DEF Joined, GivenOnce, ValidGens
<1> QED
  BY <1>1, <1>2, <1>4, <1>5, <1>6 DEF StoreOK

ContinueCall(d, s, x, e, S, P, a, end, y, s2) ==
    /\ d.numComputeLayers \in Nat /\ s # Nothing /\ x \in CrossBatchData /\ e \in CrossBatchData
    /\ StoreOK(d, s, x, e, S, P) /\ a \in Arguments
    /\ end \in Nat /\ x.layers <= end /\ end <= d.numComputeLayers /\ end <= Len(a.messages)
    /\ y = updateBindings(x, a, x.layers, end) /\ s2 # Nothing

(* Storing another batch. *)
LEMMA ContinueStore ==
    ASSUME NEW d, NEW s, NEW x, NEW e, NEW S, NEW P, NEW a, NEW end, NEW y, NEW s2,
           ContinueCall(d, s, x, e, S, P, a, end, y, s2)
    PROVE  /\ y \in CrossBatchData /\ Joined(e, y) \in CrossBatchData /\ y.layers = end
           /\ StoreOK(d, s2, y, Joined(e, y), S \cup {a}, P)
<1> d.numComputeLayers \in Nat /\ s # Nothing /\ x \in CrossBatchData /\ e \in CrossBatchData
  BY DEF ContinueCall
<1> StoreOK(d, s, x, e, S, P) /\ a \in Arguments /\ s2 # Nothing
  BY DEF ContinueCall
<1> end \in Nat /\ x.layers <= end /\ end <= d.numComputeLayers /\ end <= Len(a.messages)
  BY DEF ContinueCall
<1> y = updateBindings(x, a, x.layers, end)
  BY DEF ContinueCall
<1>0. Len(a.messages) \in Nat /\ x.layers \in Nat
  BY ArgumentType DEF CrossBatchData
<1>1. y \in CrossBatchData /\ AtMost(x, y) /\ y.layers = end /\ (x = DataOf(a, x.layers) => y = DataOf(a, end))
  BY UpdateIs
<1>2. Joined(e, y) \in CrossBatchData
  BY <1>1, JoinedIs
<1>3. ASSUME P = {} PROVE Joined(e, y) = y
  <2>1. e = x
    BY <1>3 DEF StoreOK
  <2> QED
    BY <1>1, <2>1, JoinedIs
<1>4. ASSUME NEW b \in Arguments, S \cup {a} = {b} PROVE ValidGens(d, b)
  <2>1. S = {b}
    BY <1>4 DEF StoreOK
  <2> QED
    BY <2>1 DEF StoreOK
<1>5. ASSUME NEW b \in Arguments, P \cup (S \cup {a}) = {b} PROVE GivenOnce(d, y, Joined(e, y), b)
  <2>1. b = a /\ P \cup S = {a}
    BY <1>5 DEF StoreOK
  <2>2. GivenOnce(d, x, e, a)
    BY <2>1 DEF StoreOK
  <2>3. y = DataOf(a, end) /\ a.messages # <<>>
    BY <1>1, <2>2 DEF GivenOnce
  <2>4. PICK m \in Nat : m <= d.numComputeLayers /\ m <= Len(a.messages) /\ e = DataOf(a, m)
    BY <2>2 DEF GivenOnce
  <2>5. CASE m <= end
    <3>1. AtMost(e, y)
      BY <2>3, <2>4, <2>5, DataGrows
    <3>2. Joined(e, y) = DataOf(a, end)
      BY <1>1, <2>3, <3>1, JoinedIs
    <3>3. y.layers <= end
      BY <1>1
    <3> HIDE DEF Joined
    <3> QED
      BY <1>1, <2>1, <2>3, <3>2, <3>3 DEF GivenOnce
  <2>6. CASE end <= m
    <3>1. AtMost(y, e)
      BY <2>3, <2>4, <2>6, DataGrows
    <3>2. Joined(e, y) = DataOf(a, m)
      BY <1>1, <2>4, <3>1, JoinedIs
    <3>3. y.layers <= m
      BY <1>1, <2>6
    <3> HIDE DEF Joined
    <3> QED
      BY <1>1, <2>1, <2>3, <2>4, <3>2, <3>3 DEF GivenOnce
  <2> QED
    BY <2>4, <2>5, <2>6
<1>6. S \cup {a} # {}
  OBVIOUS
<1> HIDE DEF Joined, GivenOnce, ValidGens
<1> QED
  BY <1>1, <1>2, <1>3, <1>4, <1>5, <1>6 DEF StoreOK

(* A finalize call stores nothing. *)
LEMMA FinalizeStore ==
    ASSUME NEW d, NEW s, s # Nothing, NEW x, NEW e, NEW S, NEW P,
           StoreOK(d, s, x, e, S, P), NEW a \in Arguments, NEW s2, s2 # Nothing
    PROVE  StoreOK(d, s2, x, e, S \cup {a}, P)
<1>1. ASSUME NEW b \in Arguments, S \cup {a} = {b} PROVE ValidGens(d, b)
  <2>1. S = {b}
    BY <1>1 DEF StoreOK
  <2> QED
    BY <2>1 DEF StoreOK
<1>2. ASSUME NEW b \in Arguments, P \cup (S \cup {a}) = {b} PROVE GivenOnce(d, x, e, b)
  <2>1. P \cup S = {b}
    BY <1>2 DEF StoreOK
  <2> QED
    BY <2>1 DEF StoreOK
<1>3. S \cup {a} # {}
  OBVIOUS
<1> HIDE DEF GivenOnce, ValidGens
<1> QED
  BY <1>1, <1>2, <1>3 DEF StoreOK

(* Clearing the arrays of all layers. *)
LEMMA CleanupStore ==
    ASSUME NEW d, d.numComputeLayers \in Nat, NEW s, s # Nothing, NEW x \in CrossBatchData, NEW e \in CrossBatchData,
           NEW S, NEW P, StoreOK(d, s, x, e, S, P),
           x.layers = d.numComputeLayers
    PROVE  Cleared(e, x) \in CrossBatchData /\ StoreOK(d, Nothing, NoData, Cleared(e, x), S, P)
<1>0. /\ x.layers \in Nat /\ x.flat \in Nat /\ x.challenges \in Nat
      /\ e.layers \in Nat /\ e.flat \in Nat /\ e.challenges \in Nat
  BY DEF CrossBatchData
<1>1. Cleared(e, x) \in CrossBatchData
  BY <1>0 DEF Cleared, Beyond, CrossBatchData
<1>2. ASSUME e = x PROVE Cleared(e, x) = NoData
  BY <1>0, <1>2 DEF Cleared, Beyond, NoData
<1>3. ASSUME P = {} PROVE e = x
  BY <1>3 DEF StoreOK
<1>4. ASSUME NEW a \in Arguments, P \cup S = {a} PROVE e = x
  <2>1. GivenOnce(d, x, e, a)
    BY <1>4 DEF StoreOK
  <2>2. PICK m \in Nat : x.layers <= m /\ m <= d.numComputeLayers /\ e = DataOf(a, m)
    BY <2>1 DEF GivenOnce
  <2>3. m = x.layers
    BY <1>0, <2>2
  <2> QED
    BY <2>1, <2>2, <2>3 DEF GivenOnce
<1> HIDE DEF Cleared
<1> QED
  BY <1>1, <1>2, <1>3, <1>4 DEF StoreOK

----------------------------------------------------------------------------
(* The inductive invariant of part 1 *)

(* A session is of a circuit and as far as it says. *)
SlotOK(d, s, b, C) == s # Nothing => Proper(d) /\ SessionOK(d, s, b, C)

CircuitsOK == \A c \in Circuits : dagCircuits[c] # Nothing => Proper(dagCircuits[c])
SlotsOK == \A id \in SessionIds :
               SlotOK(dagCircuits[CircuitOf(id)], session[id], crossData[id].layers, checked[id])
StoresOK == \A id \in SessionIds :
                StoreOK(dagCircuits[CircuitOf(id)], session[id], crossData[id], extent[id], supplied[id], earlier[id])

BatchInv == TypeOK /\ checked \in [SessionIds -> Seq(Checks)] /\ CircuitsOK /\ SlotsOK /\ StoresOK

(* A session id names a circuit. *)
LEMMA CircuitOfId ==
    ASSUME NEW id \in SessionIds
    PROVE  CircuitOf(id) \in Circuits
BY DEF SessionIds, CircuitOf

(* A session has not done more batches than it has. *)
LEMMA SlotBatches ==
    ASSUME NEW d, NEW s, NEW b, NEW C, SlotOK(d, s, b, C), s # Nothing
    PROVE  s.nextBatchIdx <= s.totalBatches
BY DEF SlotOK, SessionOK

(* The invariant holds at first. *)
LEMMA BatchInitial == Init => BatchInv
<1> SUFFICES ASSUME Init PROVE BatchInv
  OBVIOUS
<1>0. NoData \in CrossBatchData
  BY DEF NoData, CrossBatchData
<1>1. TypeOK
  <2>1. 1 \in 1 .. MaxBlock
    BY DAGAssumption
  <2>2. FALSE \in BOOLEAN /\ {} \in SUBSET Arguments
    OBVIOUS
  <2> QED
    BY <1>0, <2>1, <2>2 DEF Init, TypeOK
<1>2. checked \in [SessionIds -> Seq(Checks)]
  <2>1. <<>> \in Seq(Checks)
    OBVIOUS
  <2> QED
    BY <2>1 DEF Init
<1>3. CircuitsOK
  BY DEF Init, CircuitsOK
<1>4. SlotsOK
  BY DEF Init, SlotsOK, SlotOK
<1>5. StoresOK
  BY DEF Init, StoresOK, StoreOK
<1> QED
  BY <1>1, <1>2, <1>3, <1>4, <1>5 DEF BatchInv

(* A step that touches no session and no circuit. *)
LEMMA OthersBatch ==
    ASSUME BatchInv, UNCHANGED <<dagCircuits, storage, history>>,
           block' \in 1 .. MaxBlock, paused' \in BOOLEAN, active' \subseteq {c \in Circuits : dagCircuits[c] # Nothing}
    PROVE  BatchInv'
<1>0. UNCHANGED <<session, crossData, extent, checked, supplied, earlier, dagCircuits>>
  BY DEF storage, history
<1>1. TypeOK'
  BY <1>0 DEF BatchInv, TypeOK
<1>2. CircuitsOK' /\ SlotsOK' /\ StoresOK'
  <2> HIDE DEF SlotOK, StoreOK, Proper
  <2> QED
    BY <1>0 DEF BatchInv, CircuitsOK, SlotsOK, StoresOK
<1>3. (checked \in [SessionIds -> Seq(Checks)])'
  BY <1>0 DEF BatchInv
<1> QED
  BY <1>1, <1>2, <1>3 DEF BatchInv

(* registerDAGCircuit. *)
LEMMA RegisterBatch ==
    ASSUME BatchInv, NEW c \in Circuits, NEW d \in Descriptions, registerDAGCircuit(c, d)
    PROVE  BatchInv'
<1>1. dagCircuits' = [dagCircuits EXCEPT ![c] = d] /\ active' = active \cup {c} /\ dagCircuits[c] = Nothing
  BY DEF registerDAGCircuit
<1>2. Proper(d) /\ d # Nothing
  BY DAGAssumption DEF registerDAGCircuit, Proper
<1>3. /\ dagCircuits \in [Circuits -> Descriptions \cup {Nothing}]
      /\ active \subseteq {k \in Circuits : dagCircuits[k] # Nothing}
  BY DEF BatchInv, TypeOK
<1>4. \A k \in Circuits : dagCircuits'[k] = IF k = c THEN d ELSE dagCircuits[k]
  BY <1>1, <1>3
<1>5. UNCHANGED <<block, paused, session, crossData, extent, checked, supplied, earlier>>
  BY DEF registerDAGCircuit, storage, history
<1>6. TypeOK'
  <2>1. dagCircuits' \in [Circuits -> Descriptions \cup {Nothing}]
    BY <1>1, <1>3
  <2>2. active' \subseteq {k \in Circuits : dagCircuits'[k] # Nothing}
    BY <1>1, <1>2, <1>3, <1>4
  <2> QED
    BY <1>5, <2>1, <2>2 DEF BatchInv, TypeOK
<1>7. CircuitsOK'
  <2> HIDE DEF Proper
  <2> QED
    BY <1>2, <1>4 DEF BatchInv, CircuitsOK
<1>8. SlotsOK' /\ StoresOK'
  <2> SUFFICES ASSUME NEW id \in SessionIds
               PROVE  /\ SlotOK(dagCircuits'[CircuitOf(id)], session[id], crossData[id].layers, checked[id])
                      /\ StoreOK(dagCircuits'[CircuitOf(id)], session[id], crossData[id], extent[id], supplied[id], earlier[id])
    BY <1>5 DEF SlotsOK, StoresOK
  <2>1. /\ SlotOK(dagCircuits[CircuitOf(id)], session[id], crossData[id].layers, checked[id])
        /\ StoreOK(dagCircuits[CircuitOf(id)], session[id], crossData[id], extent[id], supplied[id], earlier[id])
    BY DEF BatchInv, SlotsOK, StoresOK
  <2>2. CASE CircuitOf(id) = c
    <3>1. ~ Proper(dagCircuits[CircuitOf(id)])
      BY <1>1, <2>2, DAGAssumption DEF Proper
    <3>2. session[id] = Nothing
      BY <2>1, <3>1 DEF SlotOK
    <3> QED
      BY <2>1, <3>2 DEF SlotOK, StoreOK
  <2>3. CASE CircuitOf(id) # c
    <3>1. dagCircuits'[CircuitOf(id)] = dagCircuits[CircuitOf(id)]
      BY <1>4, <2>3, CircuitOfId
    <3> QED
      BY <2>1, <3>1
  <2> QED
    BY <2>2, <2>3
<1> QED
  BY <1>5, <1>6, <1>7, <1>8 DEF BatchInv

(* A step of one session. *)
LEMMA OneSession ==
    ASSUME BatchInv, UNCHANGED <<block, registry>>, NEW id \in SessionIds,
           NEW s \in Session \cup {Nothing}, NEW x \in CrossBatchData, NEW e \in CrossBatchData, NEW C \in Seq(Checks),
           NEW S \in SUBSET Arguments, NEW P \in SUBSET Arguments,
           SlotOK(dagCircuits[CircuitOf(id)], s, x.layers, C), StoreOK(dagCircuits[CircuitOf(id)], s, x, e, S, P),
           session' = [session EXCEPT ![id] = s], crossData' = [crossData EXCEPT ![id] = x],
           extent' = [extent EXCEPT ![id] = e], checked' = [checked EXCEPT ![id] = C],
           supplied' = [supplied EXCEPT ![id] = S], earlier' = [earlier EXCEPT ![id] = P]
    PROVE  BatchInv'
<1>1. /\ session \in [SessionIds -> Session \cup {Nothing}] /\ crossData \in [SessionIds -> CrossBatchData]
      /\ extent \in [SessionIds -> CrossBatchData] /\ checked \in [SessionIds -> Seq(Checks)]
      /\ supplied \in [SessionIds -> SUBSET Arguments] /\ earlier \in [SessionIds -> SUBSET Arguments]
  BY DEF BatchInv, TypeOK
<1>2. /\ session' \in [SessionIds -> Session \cup {Nothing}] /\ crossData' \in [SessionIds -> CrossBatchData]
      /\ extent' \in [SessionIds -> CrossBatchData] /\ checked' \in [SessionIds -> Seq(Checks)]
      /\ supplied' \in [SessionIds -> SUBSET Arguments] /\ earlier' \in [SessionIds -> SUBSET Arguments]
  BY <1>1
<1>3. ASSUME NEW k \in SessionIds
      PROVE  /\ SlotOK(dagCircuits[CircuitOf(k)], session'[k], crossData'[k].layers, checked'[k])
             /\ StoreOK(dagCircuits[CircuitOf(k)], session'[k], crossData'[k], extent'[k], supplied'[k], earlier'[k])
  <2>1. CASE k = id
    <3>1. /\ session'[k] = s /\ crossData'[k] = x /\ extent'[k] = e /\ checked'[k] = C
          /\ supplied'[k] = S /\ earlier'[k] = P
      BY <1>1, <2>1
    <3> QED
      BY <2>1, <3>1
  <2>2. CASE k # id
    <3>1. /\ session'[k] = session[k] /\ crossData'[k] = crossData[k] /\ extent'[k] = extent[k]
          /\ checked'[k] = checked[k] /\ supplied'[k] = supplied[k] /\ earlier'[k] = earlier[k]
      BY <1>1, <2>2
    <3> QED
      BY <3>1 DEF BatchInv, SlotsOK, StoresOK
  <2> QED
    BY <2>1, <2>2
<1>4. SlotsOK' /\ StoresOK' /\ CircuitsOK'
  BY <1>3 DEF BatchInv, SlotsOK, StoresOK, CircuitsOK, registry
<1>5. \A k \in SessionIds : session'[k] # Nothing => session'[k].nextBatchIdx <= session'[k].totalBatches
  BY <1>3, SlotBatches
<1>6. TypeOK'
  BY <1>2, <1>5 DEF BatchInv, TypeOK, registry
<1> QED
  BY <1>2, <1>4, <1>6 DEF BatchInv

Known(id, d, s, x, e, C, S, P) ==
    /\ d = dagCircuits[CircuitOf(id)] /\ s = session[id] /\ x = crossData[id] /\ e = extent[id]
    /\ C = checked[id] /\ S = supplied[id] /\ P = earlier[id]
    /\ SlotOK(d, s, x.layers, C) /\ StoreOK(d, s, x, e, S, P)

(* What is known of the slots of a session id. *)
LEMMA SlotKnown ==
    ASSUME BatchInv, NEW id \in SessionIds
    PROVE  \E x \in CrossBatchData, e \in CrossBatchData, C \in Seq(Checks), S \in SUBSET Arguments,
              P \in SUBSET Arguments, d \in {dagCircuits[CircuitOf(id)]}, s \in {session[id]} :
                  Known(id, d, s, x, e, C, S, P)
<1>1. /\ crossData[id] \in CrossBatchData /\ extent[id] \in CrossBatchData /\ checked[id] \in Seq(Checks)
      /\ supplied[id] \in SUBSET Arguments /\ earlier[id] \in SUBSET Arguments
  BY DEF BatchInv, TypeOK
<1>2. /\ SlotOK(dagCircuits[CircuitOf(id)], session[id], crossData[id].layers, checked[id])
      /\ StoreOK(dagCircuits[CircuitOf(id)], session[id], crossData[id], extent[id], supplied[id], earlier[id])
  BY DEF BatchInv, SlotsOK, StoresOK
<1> QED
  BY <1>1, <1>2 DEF Known

(* startDAGBatchVerify, also of a session id that is in use. *)
LEMMA StartBatch ==
    ASSUME BatchInv, NEW q \in Senders, NEW c \in Circuits, NEW a \in Arguments, startDAGBatchVerify(q, c, a)
    PROVE  BatchInv'
<1>1. PICK id \in SessionIds : id = generateSessionId(q, c) /\ CircuitOf(id) = c
  <2>1. PICK k \in 1 .. MaxBlock : k = block
    BY DEF BatchInv, TypeOK
  <2>2. <<q, c, k>> \in SessionIds /\ <<q, c, k>>[2] = c
    BY DEF SessionIds
  <2> QED
    BY <2>1, <2>2 DEF generateSessionId, CircuitOf
<1>2. PICK x \in CrossBatchData, e \in CrossBatchData, C \in Seq(Checks), S \in SUBSET Arguments,
           P \in SUBSET Arguments, d \in {dagCircuits[CircuitOf(id)]}, s \in {session[id]} :
               Known(id, d, s, x, e, C, S, P)
  BY SlotKnown
<1>3. /\ d = dagCircuits[c] /\ e = extent[id] /\ S = supplied[id] /\ P = earlier[id]
      /\ StoreOK(d, s, x, e, S, P) /\ d = dagCircuits[CircuitOf(id)]
  BY <1>1, <1>2 DEF Known
<1>4. c \in active /\ ValidGens(d, a) /\ a.messages # <<>>
  BY <1>3 DEF startDAGBatchVerify, MayStart
<1>5. Proper(d)
  BY <1>3, <1>4 DEF BatchInv, TypeOK, CircuitsOK
<1>6. d.numComputeLayers \in Nat /\ x.layers \in Nat
  BY <1>5, DescriptionType DEF Proper, CrossBatchData
<1>7. PICK s2 : s2 = NewSession(q, d)
  OBVIOUS
<1>8. SessionOK(d, s2, 0, <<>>)
  BY <1>5, <1>7, StartOK
<1>9. s2 \in Session /\ s2 # Nothing
  BY <1>8, DAGAssumption DEF SessionOK
<1>10. PICK y, e2 : y = FirstData(a) /\ e2 = Joined(e, y)
  OBVIOUS
<1>11. y \in CrossBatchData /\ e2 \in CrossBatchData /\ StoreOK(d, s2, y, e2, {a}, P \cup S)
  <2>1. /\ FirstData(a) \in CrossBatchData /\ Joined(e, FirstData(a)) \in CrossBatchData
        /\ StoreOK(d, s2, FirstData(a), Joined(e, FirstData(a)), {a}, P \cup S)
    <3>1. StartCall(d, s, x, e, S, P, a, s2)
      BY <1>3, <1>4, <1>6, <1>9 DEF StartCall
    <3> QED
      BY <3>1, StartStore
  <2> QED
    BY <1>10, <2>1
<1>12. y.layers = 0
  BY <1>10 DEF FirstData
<1>13. SlotOK(d, s2, y.layers, <<>>)
  BY <1>5, <1>8, <1>12 DEF SlotOK
<1>14. crossData' = [crossData EXCEPT ![id] = y] /\ extent' = [extent EXCEPT ![id] = e2]
  <2>1. StoreCrossData(id, y)
    BY <1>1, <1>10 DEF startDAGBatchVerify
  <2> QED
    BY <1>3, <1>10, <2>1 DEF StoreCrossData, Joined
<1>15. /\ session' = [session EXCEPT ![id] = s2] /\ checked' = [checked EXCEPT ![id] = <<>>]
       /\ supplied' = [supplied EXCEPT ![id] = {a}] /\ earlier' = [earlier EXCEPT ![id] = P \cup S]
       /\ UNCHANGED <<block, registry>>
  BY <1>1, <1>3, <1>7 DEF startDAGBatchVerify
<1>16. <<>> \in Seq(Checks) /\ {a} \in SUBSET Arguments /\ P \cup S \in SUBSET Arguments
  OBVIOUS
<1> QED
  BY <1>3, <1>9, <1>11, <1>13, <1>14, <1>15, <1>16, OneSession

(* continueDAGBatchVerify. *)
LEMMA ContinueBatch ==
    ASSUME BatchInv, NEW q \in Senders, NEW id \in SessionIds, NEW a \in Arguments, continueDAGBatchVerify(q, id, a)
    PROVE  BatchInv' /\ session[id] # Nothing /\ \E more \in Seq(Checks) : checked' = [checked EXCEPT ![id] = checked[id] \o more]
<1>0. session[id] # Nothing /\ MayContinue(q, id, a)
  BY DEF continueDAGBatchVerify, MayContinue, OpenSession
<1>1. PICK x \in CrossBatchData, e \in CrossBatchData, C \in Seq(Checks), S \in SUBSET Arguments,
           P \in SUBSET Arguments, d \in {dagCircuits[CircuitOf(id)]}, s \in {session[id]} :
               Known(id, d, s, x, e, C, S, P)
  BY SlotKnown
<1>2. /\ d = dagCircuits[CircuitOf(id)] /\ s = session[id] /\ x = crossData[id] /\ e = extent[id]
      /\ C = checked[id] /\ S = supplied[id] /\ P = earlier[id] /\ s # Nothing
      /\ Proper(d) /\ SessionOK(d, s, x.layers, C) /\ StoreOK(d, s, x, e, S, P)
  BY <1>0, <1>1 DEF Known, SlotOK
<1>3. PICK end : end = EndLayer(s.nextBatchIdx, d.numComputeLayers)
  OBVIOUS
<1>4. PICK more : more = BatchChecks(x.layers, StartLayer(s.nextBatchIdx), end)
  OBVIOUS
<1>5. PICK s2 : s2 = [s EXCEPT !.nextBatchIdx = @ + 1]
  OBVIOUS
<1>6. BatchesLeft(s) /\ end <= Len(a.messages)
  BY <1>0, <1>2, <1>3 DEF MayContinue, LastLayer
<1>7. /\ SessionOK(d, s2, end, C \o more) /\ more \in Seq(Checks) /\ end \in Nat /\ x.layers <= end
      /\ x.layers = StartLayer(s.nextBatchIdx) /\ end <= d.numComputeLayers
  BY <1>2, <1>3, <1>4, <1>5, <1>6, ContinueOK
<1>8. s2 \in Session /\ s2 # Nothing /\ d.numComputeLayers \in Nat
  BY <1>2, <1>7, DAGAssumption, DescriptionType DEF SessionOK, Proper
<1>9. PICK y, e2 : y = updateBindings(x, a, x.layers, end) /\ e2 = Joined(e, y)
  OBVIOUS
<1>10. y \in CrossBatchData /\ e2 \in CrossBatchData /\ y.layers = end /\ StoreOK(d, s2, y, e2, S \cup {a}, P)
  <2>1. /\ y \in CrossBatchData /\ Joined(e, y) \in CrossBatchData /\ y.layers = end
        /\ StoreOK(d, s2, y, Joined(e, y), S \cup {a}, P)
    <3>1. ContinueCall(d, s, x, e, S, P, a, end, y, s2)
      BY <1>2, <1>6, <1>7, <1>8, <1>9 DEF ContinueCall
    <3> QED
      BY <3>1, ContinueStore
  <2> QED
    BY <1>9, <2>1
<1>11. SlotOK(d, s2, y.layers, C \o more)
  BY <1>2, <1>7, <1>10 DEF SlotOK
<1>12. LastLayer(id) = end
  BY <1>2, <1>3 DEF LastLayer
<1>13. checked' = [checked EXCEPT ![id] = C \o more]
  BY <1>2, <1>4, <1>12 DEF continueDAGBatchVerify, Check, BatchChecks, ForRange
<1>14. crossData' = [crossData EXCEPT ![id] = y] /\ extent' = [extent EXCEPT ![id] = e2]
  <2>1. StoreCrossData(id, updateBindings(crossData[id], a, StartLayer(session[id].nextBatchIdx), LastLayer(id)))
    BY DEF continueDAGBatchVerify
  <2>2. StoreCrossData(id, y)
    BY <1>2, <1>7, <1>9, <1>12, <2>1
  <2> QED
    BY <1>2, <1>9, <2>2 DEF StoreCrossData, Joined
<1>15. /\ session' = [session EXCEPT ![id] = s2] /\ supplied' = [supplied EXCEPT ![id] = S \cup {a}]
       /\ UNCHANGED <<block, registry>>
  BY <1>2, <1>5 DEF continueDAGBatchVerify, Check
<1>16. earlier' = [earlier EXCEPT ![id] = P]
  <2>1. earlier \in [SessionIds -> SUBSET Arguments]
    BY DEF BatchInv, TypeOK
  <2> QED
    BY <1>2, <2>1 DEF continueDAGBatchVerify, Check
<1>17. C \o more \in Seq(Checks) /\ S \cup {a} \in SUBSET Arguments
  BY <1>7, Concat
<1>18. BatchInv'
  BY <1>2, <1>8, <1>10, <1>11, <1>13, <1>14, <1>15, <1>16, <1>17, OneSession
<1> QED
  BY <1>0, <1>2, <1>7, <1>13, <1>18

(* finalizeDAGBatchVerify. *)
LEMMA FinalizeBatch ==
    ASSUME BatchInv, NEW q \in Senders, NEW id \in SessionIds, NEW a \in Arguments, finalizeDAGBatchVerify(q, id, a)
    PROVE  BatchInv' /\ session[id] # Nothing /\ \E more \in Seq(Checks) : checked' = [checked EXCEPT ![id] = checked[id] \o more]
<1>0. session[id] # Nothing /\ ~ session[id].finalized /\ MayFinalize(q, id)
  BY DEF finalizeDAGBatchVerify, MayFinalize, OpenSession
<1>1. PICK x \in CrossBatchData, e \in CrossBatchData, C \in Seq(Checks), S \in SUBSET Arguments,
           P \in SUBSET Arguments, d \in {dagCircuits[CircuitOf(id)]}, s \in {session[id]} :
               Known(id, d, s, x, e, C, S, P)
  BY SlotKnown
<1>2. /\ d = dagCircuits[CircuitOf(id)] /\ s = session[id] /\ x = crossData[id] /\ e = extent[id]
      /\ C = checked[id] /\ S = supplied[id] /\ P = earlier[id] /\ s # Nothing
      /\ Proper(d) /\ SessionOK(d, s, x.layers, C) /\ StoreOK(d, s, x, e, S, P)
  BY <1>0, <1>1 DEF Known, SlotOK
<1>3. PICK stop : stop = StopsAt(d, s)
  OBVIOUS
<1>4. PICK fin \in BOOLEAN : fin = (stop = NumInputs(d))
  OBVIOUS
<1>5. PICK g2 : g2 = IF fin THEN 0 ELSE EndGroup(d, stop, DoneBefore(s, stop))
  OBVIOUS
<1>6. PICK share : share = IF fin THEN <<>> ELSE GroupsUpto(d, s, stop, EndGroup(d, stop, DoneBefore(s, stop)))
  OBVIOUS
<1>7. PICK more : more = WholeLayers(d, s, stop) \o share
  OBVIOUS
<1>8. PICK s2 : s2 = [s EXCEPT !.finalizeInputIdx = stop, !.finalizeGroupsDone = g2, !.finalized = fin]
  OBVIOUS
<1>9. ~ BatchesLeft(s) /\ ~ s.finalized /\ \A j \in s.finalizeInputIdx .. stop - 1 : HasPoints(d, j)
  BY <1>0, <1>2, <1>3 DEF MayFinalize
<1>10. FinalizeCall(d, s, stop, g2, share, fin, more, s2)
  <2>1. /\ stop = NumInputs(d) => g2 = 0 /\ share = <<>>
        /\ stop # NumInputs(d) => g2 = EndGroup(d, stop, DoneBefore(s, stop)) /\ share = GroupsUpto(d, s, stop, g2)
        /\ fin <=> stop = NumInputs(d)
    BY <1>4, <1>5, <1>6
  <2> QED
    BY <1>3, <1>7, <1>8, <1>9, <2>1, Zenon DEF FinalizeCall
<1>11. SessionOK(d, s2, x.layers, C \o more) /\ more \in Seq(Checks)
  BY <1>2, <1>10, FinalizeOK
<1>12. s2 \in Session /\ s2 # Nothing
  BY <1>11, DAGAssumption DEF SessionOK
<1>13. SlotOK(d, s2, x.layers, C \o more) /\ StoreOK(d, s2, x, e, S \cup {a}, P)
  BY <1>2, <1>11, <1>12, FinalizeStore DEF SlotOK
<1>14. checked' = [checked EXCEPT ![id] = C \o more]
  <2>1. checked' = [checked EXCEPT ![id] = checked[id] \o
            (WholeLayers(d, s, stop)
                \o (IF stop = NumInputs(d) THEN <<>> ELSE GroupsUpto(d, s, stop, EndGroup(d, stop, DoneBefore(s, stop)))))]
    BY <1>2, <1>3 DEF finalizeDAGBatchVerify, Check, WholeLayers
  <2>2. share = IF stop = NumInputs(d) THEN <<>> ELSE GroupsUpto(d, s, stop, EndGroup(d, stop, DoneBefore(s, stop)))
    BY <1>4, <1>6
  <2> QED
    BY <1>2, <1>7, <2>1, <2>2, Zenon
<1>15. session' = [session EXCEPT ![id] = s2]
  <2>1. session' = [session EXCEPT ![id].finalizeInputIdx = stop,
            ![id].finalizeGroupsDone = IF stop = NumInputs(d) THEN 0 ELSE EndGroup(d, stop, DoneBefore(s, stop)),
            ![id].finalized = (stop = NumInputs(d))]
    BY <1>2, <1>3, Zenon DEF finalizeDAGBatchVerify
  <2> QED
    BY <1>2, <1>4, <1>5, <1>8, <2>1
<1>16. /\ crossData' = [crossData EXCEPT ![id] = x] /\ extent' = [extent EXCEPT ![id] = e]
       /\ supplied' = [supplied EXCEPT ![id] = S \cup {a}] /\ earlier' = [earlier EXCEPT ![id] = P]
       /\ UNCHANGED <<block, registry>>
  <2>1. /\ crossData \in [SessionIds -> CrossBatchData] /\ extent \in [SessionIds -> CrossBatchData]
        /\ earlier \in [SessionIds -> SUBSET Arguments]
    BY DEF BatchInv, TypeOK
  <2>2. UNCHANGED <<block, registry, crossData, extent, earlier>> /\ supplied' = [supplied EXCEPT ![id] = S \cup {a}]
    BY <1>2 DEF finalizeDAGBatchVerify, Check
  <2> QED
    BY <1>2, <2>1, <2>2
<1>17. C \o more \in Seq(Checks) /\ S \cup {a} \in SUBSET Arguments
  BY <1>11, Concat
<1>18. BatchInv'
  BY <1>2, <1>12, <1>13, <1>14, <1>15, <1>16, <1>17, OneSession
<1> QED
  BY <1>0, <1>2, <1>11, <1>14, <1>18

(* cleanupDAGBatchSession: the session is finalized, so it holds the       *)
(* bindings of all layers, and the slots it clears are all that sessions   *)
(* with its arguments have used.                                           *)
LEMMA CleanupBatch ==
    ASSUME BatchInv, NEW q \in Senders, NEW id \in SessionIds, cleanupDAGBatchSession(q, id)
    PROVE  BatchInv'
<1>0. session[id] # Nothing /\ session[id].finalized
  BY DEF cleanupDAGBatchSession, MayCleanUp
<1>1. PICK x \in CrossBatchData, e \in CrossBatchData, C \in Seq(Checks), S \in SUBSET Arguments,
           P \in SUBSET Arguments, d \in {dagCircuits[CircuitOf(id)]}, s \in {session[id]} :
               Known(id, d, s, x, e, C, S, P)
  BY SlotKnown
<1>2. /\ d = dagCircuits[CircuitOf(id)] /\ s = session[id] /\ x = crossData[id] /\ e = extent[id]
      /\ C = checked[id] /\ S = supplied[id] /\ P = earlier[id] /\ s # Nothing
      /\ Proper(d) /\ SessionOK(d, s, x.layers, C) /\ StoreOK(d, s, x, e, S, P)
  BY <1>0, <1>1 DEF Known, SlotOK
<1>3. x.layers = d.numComputeLayers /\ d.numComputeLayers \in Nat
  BY <1>0, <1>2, SessionPrefix, DescriptionType DEF Proper
<1>4. PICK e2 : e2 = Cleared(e, x)
  OBVIOUS
<1>5. e2 \in CrossBatchData /\ StoreOK(d, Nothing, NoData, e2, S, P)
  BY <1>2, <1>3, <1>4, CleanupStore
<1>6. /\ session' = [session EXCEPT ![id] = Nothing] /\ crossData' = [crossData EXCEPT ![id] = NoData]
      /\ checked' = [checked EXCEPT ![id] = <<>>] /\ UNCHANGED <<block, registry, supplied, earlier>>
  BY DEF cleanupDAGBatchSession, ClearCrossData
<1>7. extent' = [extent EXCEPT ![id] = e2]
  <2>1. ClearCrossData(id)
    BY DEF cleanupDAGBatchSession
  <2> QED
    BY <1>2, <1>4, <2>1 DEF ClearCrossData, Cleared
<1>8. supplied' = [supplied EXCEPT ![id] = S] /\ earlier' = [earlier EXCEPT ![id] = P]
  <2>1. supplied \in [SessionIds -> SUBSET Arguments] /\ earlier \in [SessionIds -> SUBSET Arguments]
    BY DEF BatchInv, TypeOK
  <2> QED
    BY <1>2, <1>6, <2>1
<1>9. SlotOK(d, Nothing, NoData.layers, <<>>)
  BY DEF SlotOK
<1>10. <<>> \in Seq(Checks) /\ Nothing \in Session \cup {Nothing} /\ NoData \in CrossBatchData
  BY DEF NoData, CrossBatchData
<1> QED
  BY <1>2, <1>5, <1>6, <1>7, <1>8, <1>9, <1>10, OneSession

(* Steps of the block, of the pause and of the active circuits. *)
LEMMA AdminBatch ==
    ASSUME BatchInv,
           \/ NewBlock \/ pause \/ unpause
           \/ \E c \in Circuits : deactivateDAGCircuit(c) \/ reactivateDAGCircuit(c)
    PROVE  BatchInv' /\ UNCHANGED <<session, checked>>
<1>1. /\ block \in 1 .. MaxBlock /\ paused \in BOOLEAN
      /\ active \subseteq {c \in Circuits : dagCircuits[c] # Nothing}
  BY DEF BatchInv, TypeOK
<1>2. CASE NewBlock
  <2>1. block' \in 1 .. MaxBlock
    BY <1>1, <1>2, DAGAssumption DEF NewBlock
  <2>2. UNCHANGED <<paused, dagCircuits, active, storage, history>>
    BY <1>2 DEF NewBlock, registry
  <2>3. paused' \in BOOLEAN /\ active' \subseteq {c \in Circuits : dagCircuits[c] # Nothing}
    BY <1>1, <2>2
  <2>4. BatchInv'
    BY <2>1, <2>2, <2>3, OthersBatch
  <2> QED
    BY <2>2, <2>4 DEF storage, history
<1>3. CASE pause \/ unpause
  <2>1. UNCHANGED <<block, dagCircuits, active, storage, history>> /\ paused' \in BOOLEAN
    BY <1>3 DEF pause, unpause, AdminCall
  <2>2. BatchInv'
    BY <1>1, <2>1, OthersBatch
  <2> QED
    BY <2>1, <2>2 DEF storage, history
<1>4. ASSUME NEW c \in Circuits, deactivateDAGCircuit(c) \/ reactivateDAGCircuit(c)
      PROVE  BatchInv' /\ UNCHANGED <<session, checked>>
  <2>1. UNCHANGED <<block, paused, dagCircuits, storage, history>>
    BY <1>4 DEF deactivateDAGCircuit, reactivateDAGCircuit, AdminCall
  <2>2. active' \subseteq {k \in Circuits : dagCircuits[k] # Nothing}
    BY <1>1, <1>4 DEF deactivateDAGCircuit, reactivateDAGCircuit
  <2>3. BatchInv'
    BY <1>1, <2>1, <2>2, OthersBatch
  <2> QED
    BY <2>1, <2>3 DEF storage, history
<1> QED
  BY <1>2, <1>3, <1>4

(* What NoReplayAcrossBlocks says of a step. *)
NoReplayOf(id) ==
    id[3] < block =>
        /\ session[id] = Nothing => session'[id] = Nothing
        /\ session'[id] # Nothing => IsPrefix(checked[id], checked'[id])

(* The checks of a session begin with themselves. *)
LEMMA PrefixSame ==
    ASSUME NEW u \in Seq(Checks)
    PROVE  IsPrefix(u, u)
<1>1. u \o <<>> = u /\ <<>> \in Seq(Checks)
  BY Concat
<1>2. PrefixOfConcat(u, <<>>)
  BY <1>1, PrefixConcat
<1> QED
  BY <1>1, <1>2 DEF PrefixOfConcat

(* A step that leaves a session alone. *)
LEMMA NoReplaySame ==
    ASSUME BatchInv, NEW id \in SessionIds, session'[id] = session[id], checked'[id] = checked[id]
    PROVE  NoReplayOf(id)
<1>1. checked[id] \in Seq(Checks)
  BY DEF BatchInv
<1> QED
  BY <1>1, PrefixSame DEF NoReplayOf

(* A call that appends to the checks of a session that is there. *)
LEMMA NoReplayAppend ==
    ASSUME BatchInv, NEW k \in SessionIds, session[k] # Nothing, NEW s, session' = [session EXCEPT ![k] = s],
           NEW more \in Seq(Checks), checked' = [checked EXCEPT ![k] = checked[k] \o more]
    PROVE  \A id \in SessionIds : NoReplayOf(id)
<1> SUFFICES ASSUME NEW id \in SessionIds PROVE NoReplayOf(id)
  OBVIOUS
<1>1. session \in [SessionIds -> Session \cup {Nothing}] /\ checked \in [SessionIds -> Seq(Checks)]
  BY DEF BatchInv, TypeOK
<1>2. CASE id = k
  <2>1. PICK u \in Seq(Checks) : u = checked[id]
    BY <1>1
  <2>2. checked'[id] = u \o more
    BY <1>1, <1>2, <2>1
  <2>3. PrefixOfConcat(u, more)
    BY PrefixConcat
  <2> QED
    BY <1>2, <2>1, <2>2, <2>3 DEF NoReplayOf, PrefixOfConcat
<1>3. CASE id # k
  BY <1>1, <1>3, NoReplaySame
<1> QED
  BY <1>2, <1>3

(* Every step keeps the invariant and replays nothing. *)
LEMMA BatchNext ==
    ASSUME BatchInv, [Next]_vars
    PROVE  BatchInv' /\ \A id \in SessionIds : NoReplayOf(id)
<1>0. session \in [SessionIds -> Session \cup {Nothing}] /\ checked \in [SessionIds -> Seq(Checks)]
  BY DEF BatchInv, TypeOK
<1>1. ASSUME UNCHANGED <<session, checked>> PROVE \A id \in SessionIds : NoReplayOf(id)
  BY <1>1, NoReplaySame
<1>2. CASE \/ NewBlock \/ pause \/ unpause
           \/ \E c \in Circuits : deactivateDAGCircuit(c) \/ reactivateDAGCircuit(c)
  BY <1>1, <1>2, AdminBatch
<1>3. ASSUME NEW c \in Circuits, NEW d \in Descriptions, registerDAGCircuit(c, d)
      PROVE  BatchInv' /\ \A id \in SessionIds : NoReplayOf(id)
  <2>1. UNCHANGED <<session, checked>>
    BY <1>3 DEF registerDAGCircuit, storage, history
  <2> QED
    BY <1>1, <1>3, <2>1, RegisterBatch
<1>4. ASSUME NEW q \in Senders, NEW c \in Circuits, NEW a \in Arguments, startDAGBatchVerify(q, c, a)
      PROVE  BatchInv' /\ \A id \in SessionIds : NoReplayOf(id)
  <2>1. PICK k : k = <<q, c, block>>
    OBVIOUS
  <2>2. PICK s : session' = [session EXCEPT ![k] = s] /\ checked' = [checked EXCEPT ![k] = <<>>]
    BY <1>4, <2>1 DEF startDAGBatchVerify, generateSessionId
  <2>3. ASSUME NEW id \in SessionIds PROVE NoReplayOf(id)
    <3>1. CASE id = k
      <4>1. id[3] = block /\ block \in Nat
        BY <2>1, <3>1 DEF BatchInv, TypeOK
      <4> QED
        BY <4>1 DEF NoReplayOf
    <3>2. CASE id # k
      BY <1>0, <2>2, <3>2, NoReplaySame
    <3> QED
      BY <3>1, <3>2
  <2> QED
    BY <1>4, <2>3, StartBatch
<1>5. ASSUME NEW q \in Senders, NEW k \in SessionIds, NEW a \in Arguments, continueDAGBatchVerify(q, k, a)
      PROVE  BatchInv' /\ \A id \in SessionIds : NoReplayOf(id)
  <2>1. PICK s : session' = [session EXCEPT ![k] = s]
    BY <1>5 DEF continueDAGBatchVerify
  <2>2. session[k] # Nothing /\ \E more \in Seq(Checks) : checked' = [checked EXCEPT ![k] = checked[k] \o more]
    BY <1>5, ContinueBatch
  <2> QED
    BY <1>5, <2>1, <2>2, ContinueBatch, NoReplayAppend
<1>6. ASSUME NEW q \in Senders, NEW k \in SessionIds, NEW a \in Arguments, finalizeDAGBatchVerify(q, k, a)
      PROVE  BatchInv' /\ \A id \in SessionIds : NoReplayOf(id)
  <2>1. PICK s : session' = [session EXCEPT ![k] = s]
    BY <1>6 DEF finalizeDAGBatchVerify
  <2>2. session[k] # Nothing /\ \E more \in Seq(Checks) : checked' = [checked EXCEPT ![k] = checked[k] \o more]
    BY <1>6, FinalizeBatch
  <2> QED
    BY <1>6, <2>1, <2>2, FinalizeBatch, NoReplayAppend
<1>7. ASSUME NEW q \in Senders, NEW k \in SessionIds, cleanupDAGBatchSession(q, k)
      PROVE  BatchInv' /\ \A id \in SessionIds : NoReplayOf(id)
  <2>1. session' = [session EXCEPT ![k] = Nothing] /\ checked' = [checked EXCEPT ![k] = <<>>]
    BY <1>7 DEF cleanupDAGBatchSession
  <2>2. ASSUME NEW id \in SessionIds PROVE NoReplayOf(id)
    <3>1. CASE id = k
      BY <1>0, <2>1, <3>1 DEF NoReplayOf
    <3>2. CASE id # k
      BY <1>0, <2>1, <3>2, NoReplaySame
    <3> QED
      BY <3>1, <3>2
  <2> QED
    BY <1>7, <2>2, CleanupBatch
<1>8. CASE UNCHANGED vars
  <2>1. UNCHANGED <<block, paused, dagCircuits, active, storage, history>>
    BY <1>8 DEF vars, registry, storage, history
  <2>2. BatchInv'
    BY <2>1, OthersBatch DEF BatchInv, TypeOK
  <2>3. UNCHANGED <<session, checked>>
    BY <2>1 DEF storage, history
  <2> QED
    BY <1>1, <2>2, <2>3
<1> QED
  BY <1>2, <1>3, <1>4, <1>5, <1>6, <1>7, <1>8 DEF Next

(* A session has made the first checks of verifyDAGProof, in shares        *)
(* counted from what it keeps between its calls (RemainderVerifier.sol,    *)
(* continueDAGBatchVerify and finalizeDAGBatchVerify).                     *)
THEOREM BatchInvariant == Spec => []BatchInv
<1>1. Init => BatchInv
  BY BatchInitial
<1>2. BatchInv /\ [Next]_vars => BatchInv'
  BY BatchNext
<1> QED
  BY <1>1, <1>2, PTL DEF Spec

(* However many layers, groups and claims a circuit has, whatever its      *)
(* calls are given and however they interleave with others, a finalized    *)
(* session has made all checks of verifyDAGProof, in the same order and    *)
(* with the values of the same numbers, for a circuit that verifyDAGProof  *)
(* can verify; given one proof in all of its calls, it has made them of    *)
(* that proof, with the registered generators.                             *)
THEOREM OneShotMatched == Spec => []MatchesOneShot
<1>1. BatchInv => MatchesOneShot
  <2> SUFFICES ASSUME BatchInv, NEW id \in SessionIds, session[id] # Nothing
               PROVE  /\ IsPrefix(checked[id], OneShot(dagCircuits[CircuitOf(id)]))
                      /\ session[id].finalized => /\ checked[id] = OneShot(dagCircuits[CircuitOf(id)])
                                                  /\ Verifiable(dagCircuits[CircuitOf(id)])
                      /\ \A a \in Arguments : supplied[id] = {a} => ValidGens(dagCircuits[CircuitOf(id)], a)
    BY DEF MatchesOneShot, BatchInv
  <2>1. /\ Proper(dagCircuits[CircuitOf(id)])
        /\ SessionOK(dagCircuits[CircuitOf(id)], session[id], crossData[id].layers, checked[id])
    BY DEF BatchInv, SlotsOK, SlotOK
  <2>2. StoreOK(dagCircuits[CircuitOf(id)], session[id], crossData[id], extent[id], supplied[id], earlier[id])
    BY DEF BatchInv, StoresOK
  <2>3. \A a \in Arguments : supplied[id] = {a} => ValidGens(dagCircuits[CircuitOf(id)], a)
    BY <2>2 DEF StoreOK
  <2> QED
    BY <2>1, <2>3, SessionPrefix
<1> QED
  BY <1>1, BatchInvariant, PTL

(* Cleaning up leaves no slot of the three arrays in use, also after any   *)
(* number of restarts in the same block, when their calls were all given   *)
(* the same arguments; without a restart, whatever the calls were given    *)
(* (cleanupDAGBatchSession requires a finalized session).                  *)
THEOREM NothingLeft == Spec => []NoStorageLeftBehind
<1>1. BatchInv => NoStorageLeftBehind
  <2> SUFFICES ASSUME BatchInv, NEW id \in SessionIds, session[id] = Nothing,
                      earlier[id] = {} \/ \E a \in Arguments : earlier[id] \cup supplied[id] = {a}
               PROVE  extent[id] = NoData
    BY DEF NoStorageLeftBehind
  <2>1. StoreOK(dagCircuits[CircuitOf(id)], session[id], crossData[id], extent[id], supplied[id], earlier[id])
    BY DEF BatchInv, StoresOK
  <2> QED
    BY <2>1 DEF StoreOK
<1> QED
  BY <1>1, BatchInvariant, PTL

(* No call replays a session of an earlier block (generateSessionId takes  *)
(* the block into the session id).                                         *)
THEOREM NoReplay == Spec => NoReplayAcrossBlocks
<1>1. BatchInv /\ [Next]_vars =>
          [\A id \in SessionIds : id[3] < block =>
              /\ session[id] = Nothing => session'[id] = Nothing
              /\ session'[id] # Nothing => IsPrefix(checked[id], checked'[id])]_vars
  BY BatchNext DEF NoReplayOf
<1> QED
  BY <1>1, BatchInvariant, PTL DEF Spec, NoReplayAcrossBlocks
----------------------------------------------------------------------------
(* Part 2: the client *)

Calls == [fn : {"start"}, arg : Circuits] \cup [fn : {"continue", "finalize", "cleanup"}, arg : SessionIds]

(* The mempool q of a client in phase ph whose receipt is r, after t       *)
(* errors: the call waited for is the last one, and all others were given  *)
(* up on after an error.                                                   *)
PoolOf(q, r, ph, t) ==
    /\ q \in Seq(Calls)
    /\ r = "pending" => q # <<>> /\ q[Len(q)].fn = ph /\ Len(q) <= t + 1
    /\ r # "pending" => Len(q) <= t
    /\ r \in {"ok", "reverted"} => q = <<>>

(* A call is sent. *)
LEMMA PoolSend ==
    ASSUME NEW q \in Seq(Calls), NEW t \in Nat, Len(q) <= t, NEW call \in Calls
    PROVE  PoolOf(Append(q, call), "pending", call.fn, t)
<1>1. PICK p : p = Append(q, call)
  OBVIOUS
<1>2. p \in Seq(Calls) /\ Len(p) = Len(q) + 1 /\ p[Len(p)] = call /\ p # <<>>
  BY <1>1
<1>3. Len(p) <= t + 1
  BY <1>2
<1> QED
  BY <1>1, <1>2, <1>3 DEF PoolOf

(* The oldest call is mined. *)
LEMMA PoolMined ==
    ASSUME NEW q, NEW r, NEW ph, NEW t \in Nat, PoolOf(q, r, ph, t), q # <<>>, NEW status \in {"ok", "reverted"}
    PROVE  /\ Head(q) \in Calls
           /\ PoolOf(Tail(q), IF Len(q) = 1 /\ r = "pending" THEN status ELSE r, ph, t)
           /\ Len(q) = 1 /\ r = "pending" => Head(q).fn = ph
<1>1. q \in Seq(Calls)
  BY DEF PoolOf
<1>2. PICK p : p = Tail(q)
  OBVIOUS
<1>3. PICK n \in Nat : n = Len(q) /\ n # 0
  BY <1>1
<1>4. p \in Seq(Calls) /\ Len(p) = n - 1 /\ Head(q) = q[1] /\ Head(q) \in Calls
  BY <1>1, <1>2, <1>3
<1>5. ASSUME n # 1 PROVE p[Len(p)] = q[n] /\ p # <<>>
  <2>1. \A k \in 1 .. Len(p) : p[k] = q[k + 1]
    BY <1>1, <1>2, <1>3, HeadTailProperties
  <2>2. PICK k \in Nat : k = n - 1 /\ k \in 1 .. Len(p) /\ k + 1 = n
    BY <1>3, <1>4, <1>5
  <2>3. p # <<>>
    BY <1>4, <2>2
  <2> QED
    BY <1>4, <2>1, <2>2, <2>3
<1>6. n = 1 => p = <<>>
  BY <1>4
<1>7. PICK r2 : r2 = IF Len(q) = 1 /\ r = "pending" THEN status ELSE r
  OBVIOUS
<1>8. PoolOf(p, r2, ph, t)
  <2>1. CASE n = 1 /\ r = "pending"
    <3>1. r2 = status /\ p = <<>> /\ Len(p) = 0
      BY <1>3, <1>4, <1>6, <1>7, <2>1
    <3> QED
      BY <1>4, <3>1 DEF PoolOf
  <2>2. CASE n # 1 /\ r = "pending"
    <3>1. r2 = "pending" /\ q[n].fn = ph /\ n <= t + 1
      BY <1>3, <1>7, <2>2 DEF PoolOf
    <3> QED
      BY <1>3, <1>4, <1>5, <2>2, <3>1 DEF PoolOf
  <2>3. CASE r # "pending"
    <3>1. r2 = r /\ n <= t /\ r \notin {"ok", "reverted"}
      BY <1>3, <1>7, <2>3 DEF PoolOf
    <3> QED
      BY <1>3, <1>4, <2>3, <3>1 DEF PoolOf
  <2> QED
    BY <2>1, <2>2, <2>3
<1> QED
  BY <1>2, <1>3, <1>4, <1>7, <1>8 DEF PoolOf

(* The wait ends. *)
LEMMA PoolQuit ==
    ASSUME NEW q, NEW r, NEW ph, NEW t \in Nat, PoolOf(q, r, ph, t)
    PROVE  /\ \A p : PoolOf(q, "none", p, t + 1) /\ PoolOf(q, "unsent", p, t + 1)
           /\ r # "pending" => \A p : PoolOf(q, "none", p, t) /\ PoolOf(q, "unsent", p, t)
           /\ Len(q) \in Nat /\ Len(q) <= t + 1 /\ q \in Seq(Calls)
<1>1. Len(q) \in Nat
  BY DEF PoolOf
<1> QED
  BY <1>1 DEF PoolOf

FaultsOK == faults \in [errors : Nat, cancels : Nat]
PoolOK == PoolOf(mempool, receipt, phase, faults.errors)

ClientVarsOK ==
    /\ phase \in Working \cup Stopped \cup {"idle", "loop", "finalized", "done"}
    /\ aborted \in BOOLEAN /\ skipCleanup \in BOOLEAN
    /\ sessionId \in SessionIds \cup {Nothing} /\ circuit \in Circuits \cup {Nothing}
    /\ i \in Nat /\ totalBatches \in Nat
    /\ attempt \in 0 .. maxRetries
    /\ receipt \in {"none", "unsent", "pending", "ok", "reverted"}

(* What a phase promises. *)
PhaseOK ==
    /\ phase = "start" => circuit \in Circuits
    /\ phase \in {"loop", "continue", "finalize", "finalized", "cleanup", "done"} => sessionId \in SessionIds
    /\ phase \in {"finalized", "cleanup", "done"} => sessionId \in verified
    /\ phase \notin Working => receipt = "none"
    /\ phase = "start" /\ receipt = "ok" => logs \in SessionIds

VerifiedOK == \A id \in SessionIds : session[id] # Nothing /\ session[id].finalized => id \in verified

ClientInv == BatchInv /\ FaultsOK /\ PoolOK /\ ClientVarsOK /\ PhaseOK /\ VerifiedOK

(* The invariant holds at first. *)
LEMMA ClientInitial == ClientInit => ClientInv
<1> SUFFICES ASSUME ClientInit PROVE ClientInv
  OBVIOUS
<1>1. BatchInv
  BY BatchInitial DEF ClientInit
<1>2. FaultsOK /\ faults.errors = 0
  BY DEF ClientInit, FaultsOK
<1>3. PoolOK
  <2>1. PICK q : q = <<>>
    OBVIOUS
  <2>2. q \in Seq(Calls) /\ Len(q) = 0
    BY <2>1
  <2> QED
    BY <1>2, <2>1, <2>2 DEF ClientInit, PoolOK, PoolOf
<1>4. ClientVarsOK
  <2>1. 0 \in 0 .. maxRetries /\ 0 \in Nat
    BY ClientAssumption
  <2>2. skipCleanup \in BOOLEAN
    BY ClientAssumption DEF ClientInit
  <2>3. aborted \in BOOLEAN
    BY Zenon DEF ClientInit
  <2> QED
    BY <2>1, <2>2, <2>3 DEF ClientInit, ClientVarsOK
<1>5. PhaseOK
  BY DEF ClientInit, PhaseOK, Working
<1>6. VerifiedOK
  BY DEF ClientInit, Init, VerifiedOK
<1> QED
  BY <1>1, <1>2, <1>3, <1>4, <1>5, <1>6 DEF ClientInv

(* A call in the mempool is one of the contract's. *)
LEMMA ExecuteNext ==
    ASSUME NEW call \in Calls, Execute(call)
    PROVE  Next
<1>1. Me \in Senders /\ MyArguments \in Arguments
  BY ClientAssumption
<1>2. call.fn = "start" => call.arg \in Circuits
  BY DEF Calls
<1>3. call.fn \in {"continue", "finalize", "cleanup"} => call.arg \in SessionIds
  BY DEF Calls
<1>4. CASE call.fn = "start" /\ startDAGBatchVerify(Me, call.arg, MyArguments)
  BY <1>1, <1>2, <1>4 DEF Next
<1>5. CASE call.fn = "continue" /\ continueDAGBatchVerify(Me, call.arg, MyArguments)
  BY <1>1, <1>3, <1>5 DEF Next
<1>6. CASE call.fn = "finalize" /\ finalizeDAGBatchVerify(Me, call.arg, MyArguments)
  BY <1>1, <1>3, <1>6 DEF Next
<1>7. CASE call.fn = "cleanup" /\ cleanupDAGBatchSession(Me, call.arg)
  BY <1>1, <1>3, <1>7 DEF Next
<1> QED
  BY <1>4, <1>5, <1>6, <1>7 DEF Execute

(* Every step of the client, the chain and the others is one of the        *)
(* contract, or leaves it alone.                                           *)
LEMMA ClientStep ==
    ASSUME ClientInv, [ClientNext]_allVars
    PROVE  [Next]_vars
<1>1. CASE Others
  BY <1>1 DEF Others, Next
<1>2. CASE MineOk
  <2>1. Head(mempool) \in Calls
    <3>1. faults.errors \in Nat
      BY DEF ClientInv, FaultsOK
    <3>2. PoolOf(mempool, receipt, phase, faults.errors) /\ mempool # <<>>
      BY <1>2 DEF ClientInv, PoolOK, MineOk
    <3> QED
      BY <3>1, <3>2, PoolMined
  <2> QED
    BY <1>2, <2>1, ExecuteNext DEF MineOk
<1>3. CASE \/ MineReverted \/ ResumeBatch \/ NextCall \/ sendTransaction \/ Conclude \/ ReceiptOk \/ ReceiptReverted
           \/ SendError \/ Cancel
  BY <1>3 DEF MineReverted, ResumeBatch, NextCall, sendTransaction, Conclude, ReceiptOk, ReceiptReverted, SendError, Cancel
<1>4. CASE \E c \in Circuits : VerifyBatch(c)
  BY <1>4 DEF VerifyBatch
<1>5. CASE UNCHANGED allVars
  BY <1>5 DEF allVars
<1> QED
  BY <1>1, <1>2, <1>3, <1>4, <1>5 DEF ClientNext
(* A step that leaves the sessions alone keeps those that are verified. *)
LEMMA VerifiedSame ==
    ASSUME ClientInv, session' = session, verified' = verified
    PROVE  VerifiedOK'
BY DEF ClientInv, VerifiedOK

(* Steps of others. *)
LEMMA OthersClient ==
    ASSUME ClientInv, BatchInv', session' = session, UNCHANGED <<clientVars, txVars, faults>>
    PROVE  ClientInv'
<1>1. UNCHANGED <<phase, aborted, skipCleanup, sessionId, circuit, i, totalBatches, attempt, receipt, logs, mempool, verified>>
  BY DEF clientVars, txVars
<1>2. VerifiedOK'
  BY <1>1, VerifiedSame
<1>3. FaultsOK' /\ PoolOK'
  BY <1>1 DEF ClientInv, FaultsOK, PoolOK
<1>4. ClientVarsOK' /\ PhaseOK'
  BY <1>1 DEF ClientInv, ClientVarsOK, PhaseOK
<1> QED
  BY <1>2, <1>3, <1>4 DEF ClientInv

(* A call is mined. *)
LEMMA MinedClient ==
    ASSUME ClientInv, BatchInv', mempool # <<>>, NEW status \in {"ok", "reverted"}, Mined(status),
           VerifiedOK', verified \subseteq verified'
    PROVE  ClientInv'
<1>1. UNCHANGED <<phase, aborted, skipCleanup, sessionId, circuit, i, totalBatches, attempt, faults>>
  BY DEF Mined, clientVars
<1>2. faults.errors \in Nat /\ PoolOf(mempool, receipt, phase, faults.errors)
  BY DEF ClientInv, FaultsOK, PoolOK
<1>3. PICK r : r = IF Len(mempool) = 1 /\ receipt = "pending" THEN status ELSE receipt
  OBVIOUS
<1>4. receipt' = r /\ mempool' = Tail(mempool)
  BY <1>3 DEF Mined
<1>5. /\ Head(mempool) \in Calls /\ PoolOf(Tail(mempool), r, phase, faults.errors)
      /\ Len(mempool) = 1 /\ receipt = "pending" => Head(mempool).fn = phase
  BY <1>2, <1>3, PoolMined
<1>6. FaultsOK' /\ PoolOK'
  BY <1>1, <1>4, <1>5 DEF ClientInv, FaultsOK, PoolOK
<1>7. ClientVarsOK'
  <2>1. receipt' \in {"none", "unsent", "pending", "ok", "reverted"}
    BY <1>3, <1>4 DEF ClientInv, ClientVarsOK
  <2> QED
    BY <1>1, <2>1 DEF ClientInv, ClientVarsOK
<1>8. receipt # "pending" => receipt' = receipt
  BY <1>3, <1>4
<1>9. phase = "start" /\ receipt' = "ok" => logs' \in SessionIds
  <2> SUFFICES ASSUME phase = "start", receipt' = "ok" PROVE logs' \in SessionIds
    OBVIOUS
  <2>1. receipt # "ok"
    BY <1>2 DEF PoolOf
  <2>2. Len(mempool) = 1 /\ receipt = "pending"
    BY <1>3, <1>4, <2>1
  <2>3. PICK c \in Circuits : c = Head(mempool).arg /\ Head(mempool).fn = "start"
    BY <1>5, <2>2 DEF Calls
  <2>4. PICK k \in 1 .. MaxBlock : k = block
    BY DEF ClientInv, BatchInv, TypeOK
  <2>5. logs' = <<Me, c, k>>
    BY <2>3, <2>4 DEF Mined, generateSessionId
  <2> QED
    BY <2>5, ClientAssumption DEF SessionIds
<1>10. PhaseOK'
  <2>1. phase \notin Working => receipt' = "none"
    BY <1>8 DEF ClientInv, PhaseOK
  <2> QED
    BY <1>1, <1>9, <2>1 DEF ClientInv, PhaseOK
<1> QED
  BY <1>6, <1>7, <1>10 DEF ClientInv

(* The call that is sent, for the phase. *)
LEMMA CallIs ==
    ASSUME NEW ph \in Working, ph = "start" => circuit \in Circuits, ph # "start" => sessionId \in SessionIds
    PROVE  Call(ph) \in Calls /\ Call(ph).fn = ph
BY DEF Call, Calls, Working

(* The pool when no receipt is awaited any more. *)
LEMMA PoolNow ==
    ASSUME ClientInv
    PROVE  /\ faults.errors \in Nat
           /\ receipt # "pending" => /\ PoolOf(mempool, "none", phase', faults.errors)
                                     /\ PoolOf(mempool, "unsent", phase', faults.errors)
           /\ PoolOf(mempool, "none", phase', faults.errors + 1) /\ PoolOf(mempool, "unsent", phase', faults.errors + 1)
           /\ mempool \in Seq(Calls) /\ Len(mempool) \in Nat /\ Len(mempool) <= faults.errors + 1
<1>1. faults.errors \in Nat /\ PoolOf(mempool, receipt, phase, faults.errors)
  BY DEF ClientInv, FaultsOK, PoolOK
<1> QED
  BY <1>1, PoolQuit

(* verifyBatch. *)
LEMMA VerifyClient ==
    ASSUME ClientInv, BatchInv', NEW c \in Circuits, VerifyBatch(c)
    PROVE  ClientInv'
<1>1. /\ UNCHANGED <<session, skipCleanup, sessionId, i, totalBatches, logs, mempool, verified, faults>>
      /\ phase' = "start" /\ circuit' = c /\ attempt' = 0 /\ receipt' = "unsent" /\ aborted' = FALSE
  BY DEF VerifyBatch, vars, storage
<1>2. phase \notin Working
  BY DEF VerifyBatch, Working, Stopped
<1>3. receipt = "none"
  BY <1>2 DEF ClientInv, PhaseOK
<1>4. PoolOK'
  <2>1. PoolOf(mempool, "unsent", phase', faults.errors)
    BY <1>3, PoolNow
  <2> QED
    BY <1>1, <2>1 DEF PoolOK
<1>5. FaultsOK' /\ VerifiedOK'
  BY <1>1, VerifiedSame DEF ClientInv, FaultsOK
<1>6. ClientVarsOK'
  <2>1. attempt' \in 0 .. maxRetries
    BY <1>1, ClientAssumption
  <2>2. aborted' \in BOOLEAN
    BY <1>1, Zenon
  <2> QED
    BY <1>1, <2>1, <2>2 DEF ClientInv, ClientVarsOK, Working
<1>7. PhaseOK'
  BY <1>1 DEF PhaseOK, Working
<1> QED
  BY <1>4, <1>5, <1>6, <1>7 DEF ClientInv

(* sendTransaction. *)
LEMMA SendClient ==
    ASSUME ClientInv, BatchInv', sendTransaction
    PROVE  ClientInv'
<1>1. /\ UNCHANGED <<session, phase, aborted, skipCleanup, sessionId, circuit, i, totalBatches, attempt, logs, verified, faults>>
      /\ phase \in Working /\ receipt = "unsent" /\ receipt' = "pending" /\ mempool' = Append(mempool, Call(phase))
  BY DEF sendTransaction, vars, storage, clientVars
<1>2. phase = "start" => circuit \in Circuits
  BY DEF ClientInv, PhaseOK
<1>3. phase # "start" => sessionId \in SessionIds
  BY <1>1 DEF ClientInv, PhaseOK, Working
<1>4. PICK call \in Calls : call = Call(phase) /\ call.fn = phase
  BY <1>1, <1>2, <1>3, CallIs
<1>5. PICK t \in Nat : t = faults.errors
  BY DEF ClientInv, FaultsOK
<1>6. mempool \in Seq(Calls) /\ Len(mempool) <= t
  BY <1>1, <1>5 DEF ClientInv, PoolOK, PoolOf
<1>7. PoolOK'
  <2>1. PoolOf(Append(mempool, call), "pending", call.fn, t)
    BY <1>6, PoolSend
  <2> QED
    BY <1>1, <1>4, <1>5, <2>1 DEF PoolOK
<1>8. FaultsOK' /\ VerifiedOK'
  BY <1>1, VerifiedSame DEF ClientInv, FaultsOK
<1>9. ClientVarsOK'
  BY <1>1 DEF ClientInv, ClientVarsOK
<1>10. PhaseOK'
  BY <1>1 DEF ClientInv, PhaseOK
<1> QED
  BY <1>7, <1>8, <1>9, <1>10 DEF ClientInv

(* resumeBatch: a session found finalized is one that was verified. *)
LEMMA ResumeClient ==
    ASSUME ClientInv, BatchInv', ResumeBatch
    PROVE  ClientInv'
<1>1. /\ UNCHANGED <<session, skipCleanup, sessionId, circuit, attempt, receipt, logs, mempool, verified, faults>>
      /\ aborted' = FALSE
  BY DEF ResumeBatch, vars, storage, txVars
<1>2. PICK k \in SessionIds : k = sessionId /\ session[k] # Nothing
  BY DEF ResumeBatch, ClientInv, ClientVarsOK
<1>3. PICK s \in Session : s = session[k]
  BY <1>2 DEF ClientInv, BatchInv, TypeOK
<1>4. i' \in Nat /\ totalBatches' \in Nat
  BY <1>2, <1>3 DEF ResumeBatch, FirstBatch, Session
<1>5. phase' \in {"finalized", "loop"} /\ (phase' = "finalized" => s.finalized)
  BY <1>2, <1>3 DEF ResumeBatch
<1>6. receipt = "none"
  <2>1. phase \notin Working
    BY DEF ResumeBatch, Working, Stopped
  <2> QED
    BY <2>1 DEF ClientInv, PhaseOK
<1>7. PoolOK'
  <2>1. faults.errors \in Nat /\ PoolOf(mempool, receipt, phase, faults.errors)
    BY DEF ClientInv, FaultsOK, PoolOK
  <2>2. PoolOf(mempool, "none", phase', faults.errors)
    BY <1>6, <2>1, PoolQuit
  <2> QED
    BY <1>1, <1>6, <2>2 DEF PoolOK
<1>8. FaultsOK' /\ VerifiedOK'
  BY <1>1, VerifiedSame DEF ClientInv, FaultsOK
<1>9. ClientVarsOK'
  <2>1. aborted' \in BOOLEAN
    BY <1>1, Zenon
  <2> QED
    BY <1>1, <1>4, <1>5, <2>1 DEF ClientInv, ClientVarsOK
<1>10. PhaseOK'
  <2>1. s.finalized => k \in verified
    BY <1>2, <1>3 DEF ClientInv, VerifiedOK
  <2> QED
    BY <1>1, <1>2, <1>5, <1>6, <2>1 DEF PhaseOK, Working
<1> QED
  BY <1>7, <1>8, <1>9, <1>10 DEF ClientInv

(* The client turns to the call of its next phase, no receipt being        *)
(* awaited.                                                                *)
LEMMA PrepareClient ==
    ASSUME ClientInv, BatchInv', NEW ph \in {"continue", "finalize", "cleanup"}, phase' = ph, receipt = "none",
           sessionId \in SessionIds, ph = "cleanup" => sessionId \in verified, attempt' = 0, receipt' = "unsent",
           UNCHANGED <<session, aborted, skipCleanup, sessionId, circuit, i, totalBatches, logs, mempool, verified, faults>>
    PROVE  ClientInv'
<1>1. PoolOK'
  <2>1. PoolOf(mempool, "unsent", phase', faults.errors)
    BY PoolNow
  <2> QED
    BY <2>1 DEF PoolOK
<1>2. FaultsOK' /\ VerifiedOK'
  BY VerifiedSame DEF ClientInv, FaultsOK
<1>3. ClientVarsOK'
  <2>1. attempt' \in 0 .. maxRetries
    BY ClientAssumption
  <2> QED
    BY <2>1 DEF ClientInv, ClientVarsOK, Working
<1>4. PhaseOK'
  BY DEF PhaseOK, Working
<1> QED
  BY <1>1, <1>2, <1>3, <1>4 DEF ClientInv

(* The client stops waiting and sends nothing. *)
LEMMA QuietClient ==
    ASSUME ClientInv, BatchInv', UNCHANGED <<session, aborted, skipCleanup, circuit, attempt, logs, mempool, verified>>,
           receipt' = "none", FaultsOK', PoolOf(mempool, "none", phase', faults'.errors),
           phase' \in Stopped \cup {"loop", "finalized", "done"}, i' \in Nat, totalBatches' \in Nat,
           sessionId' \in SessionIds \cup {Nothing},
           phase' \in {"loop", "finalized", "done"} => sessionId' \in SessionIds,
           phase' \in {"finalized", "done"} => sessionId' \in verified
    PROVE  ClientInv'
<1>1. PoolOK'
  BY DEF PoolOK
<1>2. VerifiedOK'
  BY VerifiedSame
<1>3. ClientVarsOK'
  BY DEF ClientInv, ClientVarsOK
<1>4. PhaseOK'
  BY DEF PhaseOK, Stopped, Working
<1> QED
  BY <1>1, <1>2, <1>3, <1>4 DEF ClientInv

(* The loops of the client. *)
LEMMA NextCallClient ==
    ASSUME ClientInv, BatchInv', NextCall
    PROVE  ClientInv'
<1>1. UNCHANGED <<session, aborted, skipCleanup, sessionId, circuit, i, totalBatches, logs, mempool, verified, faults>>
  BY DEF NextCall, vars, storage
<1>2. phase = "loop" /\ receipt = "none" /\ sessionId \in SessionIds
  BY DEF NextCall, ClientInv, PhaseOK, Working
<1>3. CASE phase' = "cancelled" /\ UNCHANGED <<attempt, receipt>>
  <2>1. FaultsOK' /\ PoolOf(mempool, "none", phase', faults'.errors)
    BY <1>1, <1>2, PoolNow DEF ClientInv, FaultsOK
  <2>2. i' \in Nat /\ totalBatches' \in Nat /\ sessionId' \in SessionIds \cup {Nothing}
    BY <1>1 DEF ClientInv, ClientVarsOK
  <2>3. phase' \in Stopped \cup {"loop", "finalized", "done"} /\ phase' \notin {"loop", "finalized", "done"}
    BY <1>3 DEF Stopped
  <2> QED
    BY <1>1, <1>2, <1>3, <2>1, <2>2, <2>3, QuietClient
<1>4. CASE phase' = (IF i < totalBatches THEN "continue" ELSE "finalize") /\ attempt' = 0 /\ receipt' = "unsent"
  <2>1. PICK ph \in {"continue", "finalize"} : ph = phase'
    BY <1>4
  <2> QED
    BY <1>1, <1>2, <1>4, <2>1, PrepareClient
<1> QED
  BY <1>3, <1>4 DEF NextCall

(* The end of a verification. *)
LEMMA ConcludeClient ==
    ASSUME ClientInv, BatchInv', Conclude
    PROVE  ClientInv'
<1>1. UNCHANGED <<session, aborted, skipCleanup, sessionId, circuit, i, totalBatches, logs, mempool, verified, faults>>
  BY DEF Conclude, vars, storage
<1>2. phase = "finalized" /\ receipt = "none" /\ sessionId \in SessionIds /\ sessionId \in verified
  BY DEF Conclude, ClientInv, PhaseOK, Working
<1>3. CASE phase' = "done" /\ UNCHANGED <<attempt, receipt>>
  <2>1. FaultsOK' /\ PoolOf(mempool, "none", phase', faults'.errors)
    BY <1>1, <1>2, PoolNow DEF ClientInv, FaultsOK
  <2>2. i' \in Nat /\ totalBatches' \in Nat /\ sessionId' \in SessionIds \cup {Nothing}
    BY <1>1 DEF ClientInv, ClientVarsOK
  <2> QED
    BY <1>1, <1>2, <1>3, <2>1, <2>2, QuietClient
<1>4. CASE phase' = "cleanup" /\ attempt' = 0 /\ receipt' = "unsent"
  BY <1>1, <1>2, <1>4, PrepareClient
<1> QED
  BY <1>3, <1>4 DEF Conclude

(* A receipt comes. *)
LEMMA ReceiptOkClient ==
    ASSUME ClientInv, BatchInv', ReceiptOk
    PROVE  ClientInv'
<1>1. UNCHANGED <<session, aborted, skipCleanup, circuit, attempt, logs, mempool, verified, faults>> /\ receipt' = "none"
  BY DEF ReceiptOk, vars, storage
<1>2. receipt = "ok"
  BY DEF ReceiptOk
<1>3. FaultsOK' /\ PoolOf(mempool, "none", phase', faults'.errors)
  BY <1>1, <1>2, PoolNow DEF ClientInv, FaultsOK
<1>4. i \in Nat /\ totalBatches \in Nat /\ session \in [SessionIds -> Session \cup {Nothing}]
  BY DEF ClientInv, ClientVarsOK, BatchInv, TypeOK
<1>5. CASE /\ phase = "start" /\ sessionId' = logs /\ phase' = "loop" /\ i' = 0
           /\ totalBatches' = IF session[logs] = Nothing THEN 0 ELSE session[logs].totalBatches
  <2>1. logs \in SessionIds
    BY <1>2, <1>5 DEF ClientInv, PhaseOK
  <2>2. totalBatches' \in Nat
    BY <1>4, <1>5, <2>1 DEF Session
  <2> QED
    BY <1>1, <1>3, <1>5, <2>1, <2>2, QuietClient
<1>6. CASE phase = "continue" /\ phase' = "loop" /\ i' = i + 1 /\ UNCHANGED <<sessionId, totalBatches>>
  <2>1. sessionId \in SessionIds
    BY <1>6 DEF ClientInv, PhaseOK
  <2>2. i' \in Nat /\ totalBatches' \in Nat /\ sessionId' \in SessionIds
    BY <1>4, <1>6, <2>1
  <2> QED
    BY <1>1, <1>3, <1>6, <2>2, QuietClient
<1>7. CASE /\ phase = "finalize" /\ phase' = (IF IsFinalized THEN "finalized" ELSE "loop")
           /\ UNCHANGED <<sessionId, i, totalBatches>>
  <2>1. sessionId \in SessionIds
    BY <1>7 DEF ClientInv, PhaseOK
  <2>2. IsFinalized => sessionId \in verified
    BY <2>1 DEF IsFinalized, ClientInv, VerifiedOK
  <2>3. i' \in Nat /\ totalBatches' \in Nat /\ sessionId' \in SessionIds
    BY <1>4, <1>7, <2>1
  <2>4. phase' \in {"loop", "finalized"} /\ (phase' = "finalized" => sessionId' \in verified)
    BY <1>7, <2>2
  <2> QED
    BY <1>1, <1>3, <2>3, <2>4, QuietClient
<1>8. CASE phase = "cleanup" /\ phase' = "done" /\ UNCHANGED <<sessionId, i, totalBatches>>
  <2>1. sessionId \in SessionIds /\ sessionId \in verified
    BY <1>8 DEF ClientInv, PhaseOK
  <2>2. i' \in Nat /\ totalBatches' \in Nat /\ sessionId' \in SessionIds /\ sessionId' \in verified
    BY <1>4, <1>8, <2>1
  <2> QED
    BY <1>1, <1>3, <1>8, <2>2, QuietClient
<1> QED
  BY <1>5, <1>6, <1>7, <1>8 DEF ReceiptOk

(* The call was reverted. *)
LEMMA ReceiptRevertedClient ==
    ASSUME ClientInv, BatchInv', ReceiptReverted
    PROVE  ClientInv'
<1>1. /\ UNCHANGED <<session, aborted, skipCleanup, sessionId, circuit, i, totalBatches, attempt, logs, mempool, verified, faults>>
      /\ receipt' = "none" /\ phase' = "failed" /\ receipt = "reverted"
  BY DEF ReceiptReverted, vars, storage
<1>2. FaultsOK' /\ PoolOf(mempool, "none", phase', faults'.errors)
  BY <1>1, PoolNow DEF ClientInv, FaultsOK
<1>3. i' \in Nat /\ totalBatches' \in Nat /\ sessionId' \in SessionIds \cup {Nothing}
  BY <1>1 DEF ClientInv, ClientVarsOK
<1>4. phase' \in Stopped \cup {"loop", "finalized", "done"} /\ phase' \notin {"loop", "finalized", "done"}
  BY <1>1 DEF Stopped
<1> QED
  BY <1>1, <1>2, <1>3, <1>4, QuietClient

(* Sending, or the wait, ends with an error. *)
LEMMA SendErrorClient ==
    ASSUME ClientInv, BatchInv', SendError
    PROVE  ClientInv'
<1>1. UNCHANGED <<session, aborted, skipCleanup, sessionId, circuit, i, totalBatches, logs, mempool, verified>>
  BY DEF SendError, vars, storage
<1>2. PICK t \in Nat : t = faults.errors
  BY DEF ClientInv, FaultsOK
<1>3. FaultsOK' /\ faults'.errors = t + 1
  BY <1>2 DEF SendError, ClientInv, FaultsOK
<1>4. PoolOf(mempool, "none", phase', t + 1) /\ PoolOf(mempool, "unsent", phase', t + 1)
  BY <1>2, PoolNow
<1>5. CASE MayRetry /\ attempt' = attempt + 1 /\ receipt' = "unsent" /\ UNCHANGED phase
  <2>1. phase \in Working
    BY DEF SendError
  <2>2. PoolOK'
    BY <1>1, <1>3, <1>4, <1>5 DEF PoolOK
  <2>3. ClientVarsOK'
    <3>1. attempt' \in 0 .. maxRetries
      BY <1>5, ClientAssumption DEF ClientInv, ClientVarsOK, MayRetry
    <3> QED
      BY <1>1, <1>5, <3>1 DEF ClientInv, ClientVarsOK
  <2>4. PhaseOK'
    BY <1>1, <1>5, <2>1 DEF ClientInv, PhaseOK
  <2>5. VerifiedOK'
    BY <1>1, VerifiedSame
  <2> QED
    BY <1>3, <2>2, <2>3, <2>4, <2>5 DEF ClientInv
<1>6. CASE phase' = "failed" /\ receipt' = "none" /\ UNCHANGED attempt
  <2>1. i' \in Nat /\ totalBatches' \in Nat /\ sessionId' \in SessionIds \cup {Nothing}
    BY <1>1 DEF ClientInv, ClientVarsOK
  <2>2. phase' \in Stopped \cup {"loop", "finalized", "done"} /\ phase' \notin {"loop", "finalized", "done"}
    BY <1>6 DEF Stopped
  <2> QED
    BY <1>1, <1>3, <1>4, <1>6, <2>1, <2>2, QuietClient
<1> QED
  BY <1>5, <1>6 DEF SendError

(* cancel(). *)
LEMMA CancelClient ==
    ASSUME ClientInv, BatchInv', Cancel
    PROVE  ClientInv'
<1>1. /\ UNCHANGED <<session, phase, skipCleanup, sessionId, circuit, i, totalBatches, attempt, receipt, logs, mempool, verified>>
      /\ aborted' = TRUE
  BY DEF Cancel, vars, storage, txVars
<1>2. FaultsOK' /\ faults'.errors = faults.errors
  BY DEF Cancel, ClientInv, FaultsOK
<1>3. PoolOK'
  BY <1>1, <1>2 DEF ClientInv, PoolOK
<1>4. ClientVarsOK'
  <2>1. aborted' \in BOOLEAN
    BY <1>1, Zenon
  <2> QED
    BY <1>1, <2>1 DEF ClientInv, ClientVarsOK
<1>5. PhaseOK' /\ VerifiedOK'
  BY <1>1, VerifiedSame DEF ClientInv, PhaseOK
<1> QED
  BY <1>2, <1>3, <1>4, <1>5 DEF ClientInv

(* Every step keeps the invariant. *)
LEMMA ClientNextKeeps ==
    ASSUME ClientInv, [ClientNext]_allVars
    PROVE  ClientInv'
<1>1. BatchInv'
  BY ClientStep, BatchNext DEF ClientInv
<1>2. CASE Others
  <2>1. session' = session
    BY <1>2 DEF Others, NewBlock, pause, unpause, AdminCall, registerDAGCircuit, storage
  <2> QED
    BY <1>1, <1>2, <2>1, OthersClient DEF Others
<1>3. CASE MineOk
  <2>1. VerifiedOK' /\ verified \subseteq verified' /\ mempool # <<>> /\ Mined("ok")
    BY <1>3 DEF MineOk, VerifiedOK
  <2> QED
    BY <1>1, <2>1, MinedClient
<1>4. CASE MineReverted
  <2>1. session' = session /\ verified' = verified /\ mempool # <<>> /\ Mined("reverted")
    BY <1>4 DEF MineReverted, vars, storage
  <2> QED
    BY <1>1, <2>1, VerifiedSame, MinedClient
<1>5. CASE UNCHANGED allVars
  BY <1>1, <1>5, OthersClient DEF allVars, vars, storage
<1> QED
  BY <1>1, <1>2, <1>3, <1>4, <1>5, VerifyClient, ResumeClient, NextCallClient, ConcludeClient, ReceiptOkClient,
     ReceiptRevertedClient, SendClient, SendErrorClient, CancelClient DEF ClientNext

(* The client's invariant. *)
THEOREM ClientInvariant == ClientSpec => []ClientInv
<1>1. ClientInit => ClientInv
  BY ClientInitial
<1>2. ClientInv /\ [ClientNext]_allVars => ClientInv'
  BY ClientNextKeeps
<1> QED
  BY <1>1, <1>2, PTL DEF ClientSpec

(* The client and the chain take only steps of the contract, so that what  *)
(* holds of the contract holds while it is driven by the client            *)
(* (batch-verifier.ts).                                                    *)
THEOREM ClientDrives == ClientSpec => Spec
<1>1. ClientInit => Init
  BY DEF ClientInit
<1>2. ClientInv /\ [ClientNext]_allVars => [Next]_vars
  BY ClientStep
<1> QED
  BY <1>1, <1>2, ClientInvariant, PTL DEF ClientSpec, Spec

(* A result that verifyBatch or resumeBatch returns is true, however many  *)
(* calls were sent twice, mined late or given up.                          *)
THEOREM Reported == ClientSpec => []ReportedIsVerified
<1>1. ClientInv => ReportedIsVerified
  <2> SUFFICES ASSUME ClientInv PROVE ReportedIsVerified
    OBVIOUS
  <2>1. PICK t \in Nat : t = faults.errors
    BY DEF ClientInv, FaultsOK
  <2>2. mempool \in Seq(Calls) /\ Len(mempool) <= t + 1
    BY <2>1, PoolNow
  <2>3. Calls \subseteq [fn : Working, arg : Circuits \cup SessionIds]
    BY DEF Calls, Working
  <2>4. PICK S : S = [fn : Working, arg : Circuits \cup SessionIds]
    OBVIOUS
  <2>5. mempool \in Seq(S)
    <3>1. Calls \subseteq S
      BY <2>3, <2>4
    <3> QED
      BY <2>2, <3>1
  <2>6. ClientTypeOK
    BY <2>1, <2>2, <2>4, <2>5 DEF ClientInv, ClientVarsOK, ClientTypeOK
  <2>7. phase = "done" => sessionId \in verified
    BY DEF ClientInv, PhaseOK
  <2> QED
    BY <2>6, <2>7 DEF ReportedIsVerified
<1> QED
  BY <1>1, ClientInvariant, PTL
=============================================================================
