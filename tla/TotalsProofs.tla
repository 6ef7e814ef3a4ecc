---------------------------- MODULE TotalsProofs ----------------------------
(* What the sum of a function's values is, for any finite domain.  The     *)
(* sum is defined by choosing elements one after the other; the theorems   *)
(* say that the order does not matter.                                     *)
EXTENDS Totals, FiniteSetTheorems, WellFoundedInduction, TLAPS

(* A nonempty set of natural numbers has a least element. *)
LEMMA LeastNumber ==
    ASSUME NEW T \in SUBSET Nat, T # {}
    PROVE  \E n \in T : \A m \in T : n <= m
<1> DEFINE Less == {ss \in Nat \X Nat : ss[1] < ss[2]}
<1>1. Less = OpToRel(<, Nat)
  BY Zenon DEF OpToRel
<1>2. IsWellFoundedOn(Less, Nat)
  BY <1>1, NatLessThanWellFounded, Zenon
<1>3. PICK n \in T : \A m \in T : ~ (<<m, n>> \in Less)
  BY <1>2, WFMin
<1>4. ASSUME NEW m \in T PROVE n <= m
  <2>1. <<m, n>> \in Nat \X Nat /\ <<m, n>>[1] = m /\ <<m, n>>[2] = n
    OBVIOUS
  <2>2. ~ (m < n)
    BY <1>3, <2>1, Zenon
  <2> QED
    BY <2>2
<1> QED
  BY <1>4

(* The equation of the sum over the subsets of S, with an arbitrary choice *)
(* of the next element.                                                    *)
Pick(s) == CHOOSE x \in s : TRUE

Sums(f, S, g) == g = [s \in SUBSET S |-> IF s = {} THEN 0 ELSE f[Pick(s)] + g[s \ {Pick(s)}]]

(* Total is the value at S of the function chosen for that equation. *)
LEMMA TotalDef ==
    ASSUME NEW f, NEW S, DOMAIN f = S
    PROVE  Total(f) = (CHOOSE g : Sums(f, S, g))[S]
BY DEF Total, MapThenSumSet, MapThenFoldSet, Sums, Pick

(* Induction over the subsets of a finite set, by their size. *)
LEMMA SmallestSubset ==
    ASSUME NEW S, IsFiniteSet(S), NEW Q \in SUBSET SUBSET S, Q # {}
    PROVE  \E s \in Q : \A t \in Q : Cardinality(s) <= Cardinality(t)
<1> DEFINE Sizes == {n \in Nat : \E s \in Q : Cardinality(s) = n}
<1>1. \A s \in Q : Cardinality(s) \in Nat
  BY FS_Subset, FS_CardinalityType
<1>2. Sizes \in SUBSET Nat /\ Sizes # {}
  BY <1>1
<1>3. PICK n \in Sizes : \A m \in Sizes : n <= m
  <2> HIDE DEF Sizes
  <2> QED
    BY <1>2, LeastNumber
<1> QED
  BY <1>1, <1>3

(* The chosen element is one of the set. *)
LEMMA PickMember == \A s : s # {} => Pick(s) \in s
BY Zenon DEF Pick

Body(f, g, s) == IF s = {} THEN 0 ELSE f[Pick(s)] + g[s \ {Pick(s)}]

(* The equation has a solution: one that holds for the sets of up to n     *)
(* elements gives one for the sets of up to n + 1.                         *)
LEMMA SumsExist ==
    ASSUME NEW S, IsFiniteSet(S), NEW f \in [S -> Int]
    PROVE  \E g \in [SUBSET S -> Int] : Sums(f, S, g)
<1> DEFINE Upto(n) == \E g \in [SUBSET S -> Int] :
                        \A s \in SUBSET S : Cardinality(s) <= n => g[s] = Body(f, g, s)
           Bad == {n \in Nat : ~ Upto(n)}
<1>1. \A s \in SUBSET S : IsFiniteSet(s) /\ Cardinality(s) \in Nat /\ (Cardinality(s) = 0 <=> s = {})
  BY FS_Subset, FS_CardinalityType, FS_EmptySet
<1>2. Upto(0)
  <2>1. [s \in SUBSET S |-> 0] \in [SUBSET S -> Int]
    OBVIOUS
  <2>2. \A s \in SUBSET S : Cardinality(s) <= 0 => [t \in SUBSET S |-> 0][s] = Body(f, [t \in SUBSET S |-> 0], s)
    BY <1>1 DEF Body
  <2> QED
    BY <2>1, <2>2
<1>3. ASSUME NEW n \in Nat, Upto(n)
      PROVE  Upto(n + 1)
  <2>1. PICK g \in [SUBSET S -> Int] : \A s \in SUBSET S : Cardinality(s) <= n => g[s] = Body(f, g, s)
    BY <1>3
  <2> DEFINE h == [s \in SUBSET S |-> IF Cardinality(s) <= n THEN g[s] ELSE Body(f, g, s)]
  <2>2. ASSUME NEW s \in SUBSET S, s # {}
        PROVE  /\ Pick(s) \in S /\ s \ {Pick(s)} \in SUBSET S
               /\ Cardinality(s \ {Pick(s)}) = Cardinality(s) - 1
    BY <1>1, <2>2, PickMember, FS_RemoveElement
  <2>3. h \in [SUBSET S -> Int]
    BY <2>2 DEF Body
  <2>4. ASSUME NEW s \in SUBSET S, Cardinality(s) <= n + 1
        PROVE  h[s] = Body(f, h, s)
    <3>1. CASE s = {}
      BY <1>1, <2>1, <3>1 DEF Body
    <3>2. CASE s # {}
      <4>1. Cardinality(s \ {Pick(s)}) <= n /\ s \ {Pick(s)} \in SUBSET S
        BY <1>1, <2>2, <2>4, <3>2
      <4>2. h[s \ {Pick(s)}] = g[s \ {Pick(s)}]
        BY <4>1
      <4>3. h[s] = Body(f, g, s)
        BY <2>1
      <4> QED
        BY <3>2, <4>2, <4>3 DEF Body
    <3> QED
      BY <3>1, <3>2
  <2> HIDE DEF h
  <2> QED
    BY <2>3, <2>4
<1>4. \A n \in Nat : Upto(n)
  <2> HIDE DEF Upto
  <2>1. SUFFICES ASSUME Bad # {} PROVE FALSE
    OBVIOUS
  <2>2. PICK n \in Bad : \A m \in Bad : n <= m
    BY <2>1, LeastNumber
  <2>3. n # 0 /\ n - 1 \in Nat /\ n - 1 \notin Bad
    BY <1>2, <2>2
  <2>4. Upto(n - 1 + 1)
    BY <1>3, <2>3
  <2> QED
    BY <2>2, <2>4
<1>5. Cardinality(S) \in Nat /\ \A s \in SUBSET S : Cardinality(s) <= Cardinality(S)
  BY FS_Subset, FS_CardinalityType
<1>6. PICK g \in [SUBSET S -> Int] : \A s \in SUBSET S : g[s] = Body(f, g, s)
  BY <1>4, <1>5
<1>7. g = [s \in SUBSET S |-> Body(f, g, s)]
  BY <1>6
<1> QED
  BY <1>7 DEF Sums, Body

(* What the equation says of a nonempty set. *)
Step(f, g, S, s) ==
    /\ Pick(s) \in s /\ s \ {Pick(s)} \in SUBSET S
    /\ g[s] = f[Pick(s)] + g[s \ {Pick(s)}]
    /\ Cardinality(s) \in Nat /\ Cardinality(s \ {Pick(s)}) = Cardinality(s) - 1

(* A solution takes these steps. *)
LEMMA SumsStep ==
    ASSUME NEW S, IsFiniteSet(S), NEW f, NEW g, Sums(f, S, g)
    PROVE  \A s \in SUBSET S : s # {} => Step(f, g, S, s)
<1> SUFFICES ASSUME NEW s \in SUBSET S, s # {} PROVE Step(f, g, S, s)
  OBVIOUS
<1>1. IsFiniteSet(s) /\ Cardinality(s) \in Nat
  BY FS_Subset, FS_CardinalityType
<1>2. Pick(s) \in s
  BY PickMember
<1>3. Cardinality(s \ {Pick(s)}) = Cardinality(s) - 1
  BY <1>1, <1>2, FS_RemoveElement
<1>4. g[s] = f[Pick(s)] + g[s \ {Pick(s)}]
  BY DEF Sums
<1> QED
  BY <1>1, <1>2, <1>3, <1>4 DEF Step

(* The equation has one solution. *)
LEMMA SumsUnique ==
    ASSUME NEW S, IsFiniteSet(S), NEW f \in [S -> Int], NEW g, Sums(f, S, g), NEW h, Sums(f, S, h)
    PROVE  g = h
<1>0. \A s \in SUBSET S : s # {} => Step(f, g, S, s) /\ Step(f, h, S, s)
  BY SumsStep
<1> DEFINE Differ == {s \in SUBSET S : g[s] # h[s]}
<1>1. Differ = {}
  <2>1. SUFFICES ASSUME Differ # {} PROVE FALSE
    OBVIOUS
  <2>2. PICK s \in Differ : \A t \in Differ : Cardinality(s) <= Cardinality(t)
    <3>1. Differ \in SUBSET SUBSET S
      OBVIOUS
    <3> HIDE DEF Differ
    <3> QED
      BY <2>1, <3>1, SmallestSubset
  <2>3. s # {}
    BY <2>2 DEF Sums
  <2>4. /\ g[s] = f[Pick(s)] + g[s \ {Pick(s)}] /\ h[s] = f[Pick(s)] + h[s \ {Pick(s)}]
        /\ s \ {Pick(s)} \in SUBSET S
        /\ Cardinality(s) \in Nat /\ Cardinality(s \ {Pick(s)}) = Cardinality(s) - 1
    BY <1>0, <2>3 DEF Step
  <2>5. s \ {Pick(s)} \notin Differ
    BY <2>2, <2>4
  <2> QED
    BY <2>2, <2>4, <2>5
<1> QED
  BY <1>1 DEF Sums

(* The total is the solution's value for the whole domain. *)
LEMMA TotalIsSum ==
    ASSUME NEW S, IsFiniteSet(S), NEW f \in [S -> Int]
    PROVE  \E g \in [SUBSET S -> Int] : Sums(f, S, g) /\ Total(f) = g[S]
<1>1. PICK g \in [SUBSET S -> Int] : Sums(f, S, g)
  BY SumsExist
<1>2. Sums(f, S, CHOOSE h : Sums(f, S, h))
  BY <1>1, Zenon
<1>3. (CHOOSE h : Sums(f, S, h)) = g
  BY <1>1, <1>2, SumsUnique, Zenon
<1>4. Total(f) = g[S]
  BY <1>3, TotalDef
<1> QED
  BY <1>1, <1>4

(* Two functions that agree off x, and two sums that differ by what x      *)
(* contributes.                                                            *)
AgreeOff(f, h, x, S) == \A y \in S \ {x} : h[y] = f[y]

DifferBy(f, h, g, k, x, S) ==
    \A s \in SUBSET S : k[s] = g[s] + IF x \in s THEN h[x] - f[x] ELSE 0

(* Two functions that differ at most in x have sums that differ by what x  *)
(* contributes.                                                            *)
LEMMA SumsDiffer ==
    ASSUME NEW S, IsFiniteSet(S), NEW x \in S,
           NEW f \in [S -> Int], NEW g \in [SUBSET S -> Int], Sums(f, S, g),
           NEW h \in [S -> Int], NEW k \in [SUBSET S -> Int], Sums(h, S, k),
           AgreeOff(f, h, x, S)
    PROVE  DifferBy(f, h, g, k, x, S)
<1>0. \A s \in SUBSET S : s # {} => Step(f, g, S, s) /\ Step(h, k, S, s)
  BY SumsStep
<1> DEFINE Wrong == {s \in SUBSET S : k[s] # g[s] + IF x \in s THEN h[x] - f[x] ELSE 0}
<1>1. Wrong = {}
  <2>1. SUFFICES ASSUME Wrong # {} PROVE FALSE
    OBVIOUS
  <2>2. PICK s \in Wrong : \A t \in Wrong : Cardinality(s) <= Cardinality(t)
    <3>1. Wrong \in SUBSET SUBSET S
      OBVIOUS
    <3> HIDE DEF Wrong
    <3> QED
      BY <2>1, <3>1, SmallestSubset
  <2>3. s # {}
    BY <2>2 DEF Sums
  <2>4. /\ g[s] = f[Pick(s)] + g[s \ {Pick(s)}] /\ k[s] = h[Pick(s)] + k[s \ {Pick(s)}]
        /\ Pick(s) \in s /\ s \ {Pick(s)} \in SUBSET S
        /\ Cardinality(s) \in Nat /\ Cardinality(s \ {Pick(s)}) = Cardinality(s) - 1
    BY <1>0, <2>3 DEF Step
  <2> DEFINE t == s \ {Pick(s)}
  <2>5. k[t] = g[t] + IF x \in t THEN h[x] - f[x] ELSE 0
    BY <2>2, <2>4
  <2>. /\ f[Pick(s)] \in Int /\ h[Pick(s)] \in Int /\ f[x] \in Int /\ h[x] \in Int
       /\ g[t] \in Int /\ k[t] \in Int
    BY <2>4
  <2>6. CASE Pick(s) = x
    <3>1. x \in s /\ x \notin t
      BY <2>4, <2>6
    <3> QED
      BY <2>2, <2>4, <2>5, <2>6, <3>1
  <2>7. CASE Pick(s) # x
    <3>1. (x \in s <=> x \in t) /\ h[Pick(s)] = f[Pick(s)]
      BY <2>4, <2>7 DEF AgreeOff
    <3> QED
      BY <2>2, <2>4, <2>5, <3>1
  <2> QED
    BY <2>6, <2>7
<1> QED
  BY <1>1 DEF DifferBy

(* A change of one value changes the total by the difference. *)
THEOREM TotalChange ==
    ASSUME NEW S, IsFiniteSet(S), NEW f \in [S -> Int], NEW h \in [S -> Int],
           NEW x \in S, \A y \in S \ {x} : h[y] = f[y]
    PROVE  Total(f) \in Int /\ Total(h) = Total(f) - f[x] + h[x]
<1>1. PICK g \in [SUBSET S -> Int] : Sums(f, S, g) /\ Total(f) = g[S]
  BY TotalIsSum
<1>2. PICK k \in [SUBSET S -> Int] : Sums(h, S, k) /\ Total(h) = k[S]
  BY TotalIsSum
<1>3. AgreeOff(f, h, x, S)
  BY DEF AgreeOff
<1>4. DifferBy(f, h, g, k, x, S)
  BY <1>1, <1>2, <1>3, SumsDiffer
<1>5. k[S] = g[S] + (h[x] - f[x]) /\ g[S] \in Int /\ h[x] \in Int /\ f[x] \in Int
  BY <1>4 DEF DifferBy
<1> QED
  BY <1>1, <1>2, <1>5

(* The total of natural numbers is one, and no smaller than any of them. *)
THEOREM TotalNat ==
    ASSUME NEW S, IsFiniteSet(S), NEW f \in [S -> Nat]
    PROVE  Total(f) \in Nat /\ \A x \in S : f[x] <= Total(f)
<1>1. ASSUME NEW h \in [S -> Nat]
      PROVE  Total(h) \in Nat
  <2> h \in [S -> Int]
    OBVIOUS
  <2>1. PICK g \in [SUBSET S -> Int] : Sums(h, S, g) /\ Total(h) = g[S]
    BY TotalIsSum
  <2>0. \A s \in SUBSET S : s # {} => Step(h, g, S, s)
    BY <2>1, SumsStep
  <2> DEFINE Negative == {s \in SUBSET S : g[s] \notin Nat}
  <2>2. Negative = {}
    <3>1. SUFFICES ASSUME Negative # {} PROVE FALSE
      OBVIOUS
    <3>2. PICK s \in Negative : \A t \in Negative : Cardinality(s) <= Cardinality(t)
      <4>1. Negative \in SUBSET SUBSET S
        OBVIOUS
      <4> HIDE DEF Negative
      <4> QED
        BY <3>1, <4>1, SmallestSubset
    <3>3. s # {}
      BY <2>1, <3>2 DEF Sums
    <3>4. /\ g[s] = h[Pick(s)] + g[s \ {Pick(s)}]
          /\ Pick(s) \in s /\ s \ {Pick(s)} \in SUBSET S
          /\ Cardinality(s) \in Nat /\ Cardinality(s \ {Pick(s)}) = Cardinality(s) - 1
      BY <2>0, <3>3 DEF Step
    <3>5. g[s \ {Pick(s)}] \in Nat
      BY <3>2, <3>4
    <3>6. h[Pick(s)] \in Nat
      BY <3>4
    <3> QED
      BY <3>2, <3>4, <3>5, <3>6
  <2> QED
    BY <2>1, <2>2
<1>2. ASSUME NEW x \in S
      PROVE  f[x] <= Total(f)
  <2> DEFINE h == [f EXCEPT ![x] = 0]
  <2>1. h \in [S -> Nat] /\ h[x] = 0 /\ \A y \in S \ {x} : h[y] = f[y]
    OBVIOUS
  <2>2. f \in [S -> Int] /\ h \in [S -> Int]
    OBVIOUS
  <2> HIDE DEF h
  <2>3. Total(f) \in Int /\ Total(h) = Total(f) - f[x] + h[x]
    BY <2>1, <2>2, TotalChange
  <2>4. Total(h) \in Nat
    BY <1>1, <2>1
  <2> QED
    BY <2>1, <2>3, <2>4
<1> QED
  BY <1>1, <1>2

(* A total of zeros is zero. *)
THEOREM TotalZero ==
    ASSUME NEW S, IsFiniteSet(S), NEW f \in [S -> {0}]
    PROVE  Total(f) = 0
<1> f \in [S -> Int]
  OBVIOUS
<1>1. PICK g \in [SUBSET S -> Int] : Sums(f, S, g) /\ Total(f) = g[S]
  BY TotalIsSum
<1>0. \A s \in SUBSET S : s # {} => Step(f, g, S, s)
  BY <1>1, SumsStep
<1> DEFINE Wrong == {s \in SUBSET S : g[s] # 0}
<1>2. Wrong = {}
  <2>1. SUFFICES ASSUME Wrong # {} PROVE FALSE
    OBVIOUS
  <2>2. Wrong \in SUBSET SUBSET S
    OBVIOUS
  <2>3. PICK s \in Wrong : \A t \in Wrong : Cardinality(s) <= Cardinality(t)
    <3> HIDE DEF Wrong
    <3> QED
      BY <2>1, <2>2, SmallestSubset
  <2>4. s # {}
    BY <1>1, <2>3 DEF Sums
  <2>5. /\ g[s] = f[Pick(s)] + g[s \ {Pick(s)}]
        /\ Pick(s) \in s /\ s \ {Pick(s)} \in SUBSET S
        /\ Cardinality(s) \in Nat /\ Cardinality(s \ {Pick(s)}) = Cardinality(s) - 1
    BY <1>0, <2>4 DEF Step
  <2>6. g[s \ {Pick(s)}] = 0
    BY <2>3, <2>5
  <2>7. f[Pick(s)] = 0
    BY <2>5
  <2> QED
    BY <2>3, <2>5, <2>6, <2>7
<1> QED
  BY <1>1, <1>2

(* The sum over a set, from that over the set without x, for any x of it:  *)
(* the order in which the values are added does not matter.                *)
AnyOrder(f, g, S) == \A s \in SUBSET S : \A x \in s : g[s] = f[x] + g[s \ {x}]

(* The solution is independent of the order. *)
LEMMA SumsAnyOrder ==
    ASSUME NEW S, IsFiniteSet(S), NEW f \in [S -> Int], NEW g \in [SUBSET S -> Int], Sums(f, S, g)
    PROVE  AnyOrder(f, g, S)
<1>0. \A s \in SUBSET S : s # {} => Step(f, g, S, s)
  BY SumsStep
<1>a. \A s \in SUBSET S : \A x \in s : /\ Cardinality(s) \in Nat /\ s \ {x} \in SUBSET S
                                     /\ Cardinality(s \ {x}) = Cardinality(s) - 1
  BY FS_Subset, FS_CardinalityType, FS_RemoveElement
<1> DEFINE Wrong == {s \in SUBSET S : \E x \in s : g[s] # f[x] + g[s \ {x}]}
<1>1. Wrong = {}
  <2>1. SUFFICES ASSUME Wrong # {} PROVE FALSE
    OBVIOUS
  <2>2. PICK s \in Wrong : \A t \in Wrong : Cardinality(s) <= Cardinality(t)
    <3>1. Wrong \in SUBSET SUBSET S
      OBVIOUS
    <3> HIDE DEF Wrong
    <3> QED
      BY <2>1, <3>1, SmallestSubset
  <2>3. PICK x \in s : g[s] # f[x] + g[s \ {x}]
    BY <2>2
  <2>4. PICK y \in s : g[s] = f[y] + g[s \ {y}]
    BY <1>0, <2>3 DEF Step
  <2>5. x # y /\ x \in s \ {y} /\ y \in s \ {x} /\ s \in SUBSET S
    BY <2>3, <2>4
  <2>6. s \ {x} \notin Wrong /\ s \ {y} \notin Wrong
    <3>1. /\ Cardinality(s) \in Nat /\ Cardinality(s \ {x}) = Cardinality(s) - 1
          /\ Cardinality(s \ {y}) = Cardinality(s) - 1
      BY <1>a, <2>5
    <3> HIDE DEF Wrong
    <3> QED
      BY <2>2, <3>1
  <2>7. s \ {x} \in SUBSET S /\ s \ {y} \in SUBSET S
    BY <2>5
  <2>8. /\ g[s \ {x}] = f[y] + g[(s \ {x}) \ {y}]
        /\ g[s \ {y}] = f[x] + g[(s \ {y}) \ {x}]
    BY <2>5, <2>6, <2>7
  <2>9. (s \ {x}) \ {y} = (s \ {y}) \ {x} /\ (s \ {x}) \ {y} \in SUBSET S
    BY <2>5
  <2>10. f[x] \in Int /\ f[y] \in Int /\ g[(s \ {x}) \ {y}] \in Int
    BY <2>5, <2>9
  <2> DEFINE rest == g[(s \ {x}) \ {y}]
  <2>11. /\ rest \in Int /\ g[s \ {x}] = f[y] + rest /\ g[s \ {y}] = f[x] + rest
         /\ g[s] = f[y] + g[s \ {y}] /\ g[s] # f[x] + g[s \ {x}]
    BY <2>3, <2>4, <2>8, <2>9, <2>10
  <2> HIDE DEF rest, Wrong
  <2> QED
    BY <2>10, <2>11
<1> QED
  BY <1>1 DEF AnyOrder

(* f is h with one more value. *)
Extends(f, h, S, x) ==
    /\ x \notin S
    /\ h \in [S -> Int]
    /\ f \in [S \cup {x} -> Int]
    /\ \A y \in S : f[y] = h[y]

(* One more value adds to the total. *)
THEOREM TotalExtend ==
    ASSUME NEW S, IsFiniteSet(S), NEW x, NEW h, NEW f, Extends(f, h, S, x)
    PROVE  Total(h) \in Int /\ Total(f) = Total(h) + f[x]
<1> USE DEF Extends
<1>1. IsFiniteSet(S \cup {x})
  BY FS_AddElement
<1>2. PICK g \in [SUBSET (S \cup {x}) -> Int] : Sums(f, S \cup {x}, g) /\ Total(f) = g[S \cup {x}]
  BY <1>1, TotalIsSum
<1>3. PICK k \in [SUBSET S -> Int] : Sums(h, S, k) /\ Total(h) = k[S]
  BY TotalIsSum
<1>4. AnyOrder(f, g, S \cup {x})
  BY <1>1, <1>2, SumsAnyOrder
<1>5. g[S \cup {x}] = f[x] + g[S]
  <2>1. (S \cup {x}) \ {x} = S
    OBVIOUS
  <2> QED
    BY <1>4, <2>1 DEF AnyOrder
<1> DEFINE r == [s \in SUBSET S |-> g[s]]
<1>6. Sums(h, S, r)
  <2>1. ASSUME NEW s \in SUBSET S
        PROVE  r[s] = Body(h, r, s)
    <3>1. s \in SUBSET (S \cup {x}) /\ g[s] = Body(f, g, s)
      BY <1>2 DEF Sums, Body
    <3>2. CASE s = {}
      BY <3>1, <3>2 DEF Body
    <3>3. CASE s # {}
      <4>1. Pick(s) \in s
        BY <3>3, PickMember
      <4>2. f[Pick(s)] = h[Pick(s)] /\ s \ {Pick(s)} \in SUBSET S
        BY <4>1
      <4>3. r[s \ {Pick(s)}] = g[s \ {Pick(s)}] /\ r[s] = g[s]
        BY <4>2
      <4> QED
        BY <3>1, <3>3, <4>2, <4>3 DEF Body
    <3> QED
      BY <3>2, <3>3
  <2>2. r = [s \in SUBSET S |-> Body(h, r, s)]
    BY <2>1
  <2> QED
    BY <2>2 DEF Sums, Body
<1>7. r = k
  <2> HIDE DEF r
  <2> QED
    BY <1>3, <1>6, SumsUnique
<1>8. r[S] = g[S]
  OBVIOUS
<1>9. Total(h) = g[S] /\ g[S] \in Int /\ f[x] \in Int
  BY <1>3, <1>7, <1>8
<1> QED
  BY <1>2, <1>5, <1>9
============================================================================
