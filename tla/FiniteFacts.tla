---------------------------- MODULE FiniteFacts ----------------------------
(***************************************************************************)
(* Facts about finite sets, sums and permutations that the proofs of this  *)
(* project share: the smallest of some naturals, the sum of a weight over a*)
(* finite set (MapThenSumSet of FiniteSetsExt), and the cycles of a        *)
(* permutation with what an interrupted rewrite of one leaves behind       *)
(* (CycleOrder).                                                           *)
(*                                                                         *)
(* The theorems of the library that state induction take an operator, and  *)
(* are of no use to the provers.  The facts here that need induction are   *)
(* proved over a smallest counterexample, which NatLessThanWellFounded,    *)
(* FS_StrictSubsetOrderingWellFounded and WFMin provide without one.       *)
(***************************************************************************)
EXTENDS Integers, FiniteSets, FiniteSetsExt, FiniteSetTheorems, WellFoundedInduction, TLAPS

\* Of some natural numbers one is the smallest.
LEMMA SmallestNat ==
    ASSUME NEW S \in SUBSET Nat, S # {}
    PROVE  \E x \in S : \A y \in S : x <= y
<1> DEFINE R == OpToRel(<, Nat)
<1>1. IsWellFoundedOn(R, Nat)
  BY NatLessThanWellFounded
<1>2. \A x, y \in Nat : <<x, y>> \in R <=> x < y
  BY DEF OpToRel
<1> HIDE DEF R
<1>3. PICK x \in S : \A y \in S : ~ (<<y, x>> \in R)
  BY <1>1, WFMin
<1>4. ASSUME NEW y \in S PROVE x <= y
  <2>1. x \in Nat /\ y \in Nat /\ ~(y < x)
    BY <1>2, <1>3
  <2> QED BY <2>1
<1> QED BY <1>4

-----------------------------------------------------------------------------
(* Sums *)

\* The sum of the weights w over S.
SumOver(w, S) == MapThenSumSet(LAMBDA x : w[x], S)

\* Some element of a set.
Pick(s) == CHOOSE x \in s : TRUE

\* The recursion behind the sum.
IsSum(g, w, S) ==
    g = [s \in SUBSET S |-> IF s = {} THEN 0 ELSE w[Pick(s)] + g[s \ {Pick(s)}]]

\* The sum is a solution of the recursion.
LEMMA SumIs ==
    ASSUME NEW w, NEW S
    PROVE  SumOver(w, S) = (CHOOSE g : IsSum(g, w, S))[S]
BY DEF SumOver, MapThenSumSet, MapThenFoldSet, IsSum, Pick

\* What is picked from a set is one of its elements.
LEMMA PickIn == ASSUME NEW s, s # {} PROVE Pick(s) \in s
BY DEF Pick

\* Of some subsets of a finite set, one has no other in it.
LEMMA MinimalSubset ==
    ASSUME NEW S, IsFiniteSet(S), NEW T \in SUBSET SUBSET S, T # {}
    PROVE  \E x \in T : \A y \in T : y \subseteq x => y = x
<1>1. IsWellFoundedOn(StrictSubsetOrdering(S), FiniteSubsetsOf(S))
  BY FS_StrictSubsetOrderingWellFounded
<1>2. T \subseteq FiniteSubsetsOf(S)
  BY FS_Subset DEF FiniteSubsetsOf
<1>3. PICK x \in T : \A y \in T : ~ (<<y, x>> \in StrictSubsetOrdering(S))
  BY <1>1, <1>2, WFMin
<1> QED
  BY <1>3 DEF StrictSubsetOrdering

\* The recursion has one solution, whichever larger set it is solved on.
LEMMA SumUnique ==
    ASSUME NEW S, IsFiniteSet(S), NEW T \in SUBSET S, NEW w,
           NEW g, IsSum(g, w, S), NEW h, IsSum(h, w, T)
    PROVE  \A s \in SUBSET T : g[s] = h[s]
<1> DEFINE Bad == {s \in SUBSET T : g[s] # h[s]}
<1>1. SUFFICES ASSUME Bad # {} PROVE FALSE
  OBVIOUS
<1>2. PICK s \in Bad : \A r \in Bad : r \subseteq s => r = s
  <2>1. Bad \in SUBSET SUBSET S
    OBVIOUS
  <2> HIDE DEF Bad
  <2> QED BY <1>1, <2>1, MinimalSubset
<1>3. s \in SUBSET T /\ s \in SUBSET S /\ g[s] # h[s]
  BY <1>2
<1>4. CASE s = {}
  BY <1>3, <1>4 DEF IsSum
<1>5. CASE s # {}
  <2>1. Pick(s) \in s
    BY <1>5, PickIn
  <2>2. s \ {Pick(s)} \in SUBSET T /\ s \ {Pick(s)} # s
    BY <1>3, <2>1
  <2>3. g[s \ {Pick(s)}] = h[s \ {Pick(s)}]
    BY <1>2, <2>2
  <2>4. g[s] = w[Pick(s)] + g[s \ {Pick(s)}]
    BY <1>3, <1>5 DEF IsSum
  <2>5. h[s] = w[Pick(s)] + h[s \ {Pick(s)}]
    BY <1>3, <1>5 DEF IsSum
  <2> QED BY <1>3, <2>3, <2>4, <2>5
<1> QED BY <1>4, <1>5

\* The recursion has a solution.
LEMMA SumExists ==
    ASSUME NEW S, IsFiniteSet(S), NEW w
    PROVE  \E g : IsSum(g, w, S)
<1> DEFINE Bad == {s \in SUBSET S : ~ \E g : IsSum(g, w, s)}
<1>1. SUFFICES ASSUME Bad # {} PROVE FALSE
  OBVIOUS
<1>2. PICK s \in Bad : \A r \in Bad : r \subseteq s => r = s
  <2>1. Bad \in SUBSET SUBSET S
    OBVIOUS
  <2> HIDE DEF Bad
  <2> QED BY <1>1, <2>1, MinimalSubset
<1> DEFINE G(t) == CHOOSE g : IsSum(g, w, t)
           Top == IF s = {} THEN 0 ELSE w[Pick(s)] + G(s \ {Pick(s)})[s \ {Pick(s)}]
           val == [t \in SUBSET s |-> IF t = s THEN Top ELSE G(t)[t]]
<1>3. ASSUME NEW t \in SUBSET s, t # s PROVE IsSum(G(t), w, t) /\ IsFiniteSet(t)
  <2>1. t \in SUBSET S /\ t \notin Bad
    BY <1>2, <1>3
  <2>2. \E g : IsSum(g, w, t)
    BY <2>1
  <2>3. IsFiniteSet(t)
    BY <2>1, FS_Subset
  <2> QED BY <2>2, <2>3
<1> HIDE DEF G
<1>4. ASSUME NEW t \in SUBSET s
      PROVE  val[t] = IF t = {} THEN 0 ELSE w[Pick(t)] + val[t \ {Pick(t)}]
  <2>1. CASE t = s /\ s = {}
    BY <2>1
  <2>2. CASE t = s /\ s # {}
    <3>1. s \ {Pick(s)} \in SUBSET s /\ s \ {Pick(s)} # s
      BY <2>2, PickIn
    <3> QED BY <2>2, <3>1
  <2>3. CASE t # s /\ t = {}
    <3>1. G(t)[t] = 0
      BY <1>3, <2>3 DEF IsSum
    <3> QED BY <2>3, <3>1
  <2>4. CASE t # s /\ t # {}
    <3> DEFINE r == t \ {Pick(t)}
    <3>1. r \in SUBSET t /\ r \in SUBSET s /\ r # s
      BY <2>4
    <3>2. G(t)[t] = w[Pick(t)] + G(t)[r]
      BY <1>3, <2>4 DEF IsSum
    <3>3. G(t)[r] = G(r)[r]
      <4>1. IsSum(G(t), w, t) /\ IsFiniteSet(t)
        BY <1>3, <2>4
      <4>2. IsSum(G(r), w, r)
        BY <1>3, <3>1
      <4>3. r \in SUBSET r
        OBVIOUS
      <4> HIDE DEF r
      <4> QED BY <3>1, <4>1, <4>2, <4>3, SumUnique
    <3>4. val[t] = G(t)[t] /\ val[r] = G(r)[r]
      BY <2>4, <3>1
    <3> QED BY <2>4, <3>2, <3>3, <3>4
  <2> QED BY <2>1, <2>2, <2>3, <2>4
<1>5. val = [t \in SUBSET s |-> IF t = {} THEN 0 ELSE w[Pick(t)] + val[t \ {Pick(t)}]]
  <2>1. val = [t \in SUBSET s |-> val[t]]
    OBVIOUS
  <2> HIDE DEF val
  <2> QED BY <1>4, <2>1
<1>6. IsSum(val, w, s)
  <2> HIDE DEF val
  <2> QED BY <1>5 DEF IsSum
<1> QED BY <1>2, <1>6

\* The sum by its recursion.
LEMMA SumPick ==
    ASSUME NEW S, IsFiniteSet(S), NEW w
    PROVE  SumOver(w, S) = IF S = {} THEN 0 ELSE w[Pick(S)] + SumOver(w, S \ {Pick(S)})
<1> DEFINE G(T) == CHOOSE g : IsSum(g, w, T)
<1>1. \A T \in SUBSET S : IsFiniteSet(T) /\ IsSum(G(T), w, T)
  BY FS_Subset, SumExists
<1>2. \A T \in SUBSET S : SumOver(w, T) = G(T)[T]
  BY SumIs
<1> HIDE DEF G
<1>3. CASE S = {}
  BY <1>1, <1>2, <1>3 DEF IsSum
<1>4. CASE S # {}
  <2> DEFINE T == S \ {Pick(S)}
  <2>1. T \in SUBSET S
    OBVIOUS
  <2>2. G(S)[S] = w[Pick(S)] + G(S)[T]
    BY <1>1, <1>4 DEF IsSum
  <2>3. G(S)[T] = G(T)[T]
    <3>1. IsSum(G(S), w, S) /\ IsSum(G(T), w, T) /\ T \in SUBSET T
      BY <1>1, <2>1
    <3> HIDE DEF T
    <3> QED BY <2>1, <3>1, SumUnique
  <2> QED BY <1>2, <1>4, <2>1, <2>2, <2>3
<1> QED BY <1>3, <1>4

\* Nothing sums to zero.
LEMMA SumEmpty == ASSUME NEW w PROVE SumOver(w, {}) = 0
BY SumPick, FS_EmptySet

\* Naturals sum to a natural.
LEMMA SumNat ==
    ASSUME NEW S, IsFiniteSet(S), NEW w, \A x \in S : w[x] \in Nat
    PROVE  SumOver(w, S) \in Nat
<1> DEFINE Bad == {s \in SUBSET S : SumOver(w, s) \notin Nat}
<1>1. SUFFICES ASSUME Bad # {} PROVE FALSE
  OBVIOUS
<1>2. PICK s \in Bad : \A r \in Bad : r \subseteq s => r = s
  <2>1. Bad \in SUBSET SUBSET S
    OBVIOUS
  <2> HIDE DEF Bad
  <2> QED BY <1>1, <2>1, MinimalSubset
<1>3. s \in SUBSET S /\ SumOver(w, s) \notin Nat /\ IsFiniteSet(s)
  BY <1>2, FS_Subset
<1>4. s # {}
  BY <1>3, SumEmpty
<1>5. Pick(s) \in s /\ s \ {Pick(s)} \in SUBSET S /\ s \ {Pick(s)} # s
  BY <1>3, <1>4, PickIn
<1>6. SumOver(w, s \ {Pick(s)}) \in Nat
  BY <1>2, <1>5
<1>7. SumOver(w, s) = w[Pick(s)] + SumOver(w, s \ {Pick(s)})
  BY <1>3, <1>4, SumPick
<1> QED BY <1>3, <1>5, <1>6, <1>7

\* Any element can be taken out.
LEMMA SumRemove ==
    ASSUME NEW S, IsFiniteSet(S), NEW w, \A x \in S : w[x] \in Nat, NEW e \in S
    PROVE  SumOver(w, S) = w[e] + SumOver(w, S \ {e})
<1> DEFINE Bad == {s \in SUBSET S : \E x \in s : SumOver(w, s) # w[x] + SumOver(w, s \ {x})}
<1>1. SUFFICES ASSUME Bad # {} PROVE FALSE
  BY <1>1
<1>2. PICK s \in Bad : \A r \in Bad : r \subseteq s => r = s
  <2>1. Bad \in SUBSET SUBSET S
    OBVIOUS
  <2> HIDE DEF Bad
  <2> QED BY <1>1, <2>1, MinimalSubset
<1>3. s \in SUBSET S
  BY <1>2
<1>4. PICK x \in s : SumOver(w, s) # w[x] + SumOver(w, s \ {x})
  BY <1>2
<1>5. \A r \in SUBSET s : IsFiniteSet(r) /\ SumOver(w, r) \in Nat
  BY <1>3, FS_Subset, SumNat
<1> DEFINE p == Pick(s)
<1>6. p \in s
  BY <1>4, PickIn
<1>7. SumOver(w, s) = w[p] + SumOver(w, s \ {p})
  BY <1>4, <1>5, SumPick
<1> HIDE DEF p
<1>8. p # x
  BY <1>4, <1>7
<1>9. SumOver(w, s \ {p}) = w[x] + SumOver(w, (s \ {p}) \ {x})
  <2>1. s \ {p} \in SUBSET S /\ s \ {p} # s /\ s \ {p} \subseteq s /\ x \in s \ {p}
    BY <1>3, <1>6, <1>8
  <2>2. s \ {p} \notin Bad
    BY <1>2, <2>1
  <2> QED BY <2>1, <2>2
<1>10. SumOver(w, s \ {x}) = w[p] + SumOver(w, (s \ {x}) \ {p})
  <2>1. s \ {x} \in SUBSET S /\ s \ {x} # s /\ s \ {x} \subseteq s /\ p \in s \ {x}
    BY <1>3, <1>6, <1>8
  <2>2. s \ {x} \notin Bad
    BY <1>2, <2>1
  <2> QED BY <2>1, <2>2
<1>11. (s \ {p}) \ {x} = (s \ {x}) \ {p}
  OBVIOUS
<1>12. /\ w[p] \in Nat /\ w[x] \in Nat
       /\ SumOver(w, (s \ {x}) \ {p}) \in Nat
  <2>1. (s \ {x}) \ {p} \in SUBSET s
    OBVIOUS
  <2> QED BY <1>3, <1>5, <1>6, <2>1
<1>13. SumOver(w, s) = w[x] + SumOver(w, s \ {x})
  BY <1>7, <1>9, <1>10, <1>11, <1>12
<1> QED BY <1>4, <1>13

\* An element is added.
LEMMA SumAdd ==
    ASSUME NEW S, IsFiniteSet(S), NEW w, \A x \in S : w[x] \in Nat, NEW e, e \notin S, w[e] \in Nat
    PROVE  SumOver(w, S \cup {e}) = SumOver(w, S) + w[e]
<1>1. IsFiniteSet(S \cup {e})
  BY FS_AddElement
<1>2. (S \cup {e}) \ {e} = S
  OBVIOUS
<1>3. SumOver(w, S \cup {e}) = w[e] + SumOver(w, S)
  BY <1>1, <1>2, SumRemove
<1>4. SumOver(w, S) \in Nat
  BY SumNat
<1> QED BY <1>3, <1>4

\* A larger set has at least the sum, and a set that is larger by an element of weight more.
LEMMA SumMonotone ==
    ASSUME NEW S, IsFiniteSet(S), NEW w, \A x \in S : w[x] \in Nat, NEW T \in SUBSET S
    PROVE  SumOver(w, T) <= SumOver(w, S)
<1> DEFINE Bad == {s \in SUBSET S : T \subseteq s /\ ~(SumOver(w, T) <= SumOver(w, s))}
<1>1. SUFFICES ASSUME Bad # {} PROVE FALSE
  BY <1>1
<1>2. PICK s \in Bad : \A r \in Bad : r \subseteq s => r = s
  <2>1. Bad \in SUBSET SUBSET S
    OBVIOUS
  <2> HIDE DEF Bad
  <2> QED BY <1>1, <2>1, MinimalSubset
<1>3. s \in SUBSET S /\ T \subseteq s /\ ~(SumOver(w, T) <= SumOver(w, s))
  BY <1>2
<1>4. \A r \in SUBSET S : IsFiniteSet(r) /\ SumOver(w, r) \in Nat
  BY FS_Subset, SumNat
<1>5. PICK x \in s : x \notin T
  BY <1>3, <1>4
<1>6. s \ {x} \in SUBSET S /\ s \ {x} # s /\ s \ {x} \subseteq s /\ T \subseteq s \ {x}
  BY <1>3, <1>5
<1>7. SumOver(w, T) <= SumOver(w, s \ {x})
  BY <1>2, <1>6
<1>8. SumOver(w, s) = w[x] + SumOver(w, s \ {x})
  BY <1>3, <1>4, SumRemove
<1> QED BY <1>3, <1>4, <1>6, <1>7, <1>8

\* A sum depends on the weights of its elements only, and grows with them.
LEMMA SumCompare ==
    ASSUME NEW S, IsFiniteSet(S), NEW v, NEW w, \A x \in S : v[x] \in Nat /\ w[x] \in Nat /\ v[x] <= w[x]
    PROVE  SumOver(v, S) <= SumOver(w, S)
<1> DEFINE Bad == {s \in SUBSET S : ~(SumOver(v, s) <= SumOver(w, s))}
<1>1. SUFFICES ASSUME Bad # {} PROVE FALSE
  BY <1>1
<1>2. PICK s \in Bad : \A r \in Bad : r \subseteq s => r = s
  <2>1. Bad \in SUBSET SUBSET S
    OBVIOUS
  <2> HIDE DEF Bad
  <2> QED BY <1>1, <2>1, MinimalSubset
<1>3. s \in SUBSET S /\ ~(SumOver(v, s) <= SumOver(w, s))
  BY <1>2
<1>4. \A r \in SUBSET S : IsFiniteSet(r) /\ SumOver(v, r) \in Nat /\ SumOver(w, r) \in Nat
  BY FS_Subset, SumNat
<1>5. s # {}
  BY <1>3, SumEmpty
<1>6. PICK x \in s : TRUE
  BY <1>5
<1>7. s \ {x} \in SUBSET S /\ s \ {x} # s /\ s \ {x} \subseteq s
  BY <1>3, <1>6
<1>8. SumOver(v, s \ {x}) <= SumOver(w, s \ {x})
  BY <1>2, <1>7
<1>9. SumOver(v, s) = v[x] + SumOver(v, s \ {x}) /\ SumOver(w, s) = w[x] + SumOver(w, s \ {x})
  BY <1>3, <1>4, SumRemove
<1> QED BY <1>3, <1>4, <1>7, <1>8, <1>9

\* Where each weight is at most half of the other, so is the sum.
LEMMA SumHalves ==
    ASSUME NEW S, IsFiniteSet(S), NEW v, NEW w, \A x \in S : v[x] \in Nat /\ w[x] \in Nat /\ 2 * v[x] <= w[x]
    PROVE  2 * SumOver(v, S) <= SumOver(w, S)
<1> DEFINE Bad == {s \in SUBSET S : ~(2 * SumOver(v, s) <= SumOver(w, s))}
<1>1. SUFFICES ASSUME Bad # {} PROVE FALSE
  BY <1>1
<1>2. PICK s \in Bad : \A r \in Bad : r \subseteq s => r = s
  <2>1. Bad \in SUBSET SUBSET S
    OBVIOUS
  <2> HIDE DEF Bad
  <2> QED BY <1>1, <2>1, MinimalSubset
<1>3. s \in SUBSET S /\ ~(2 * SumOver(v, s) <= SumOver(w, s))
  BY <1>2
<1>4. \A r \in SUBSET S : IsFiniteSet(r) /\ SumOver(v, r) \in Nat /\ SumOver(w, r) \in Nat
  BY FS_Subset, SumNat
<1>5. s # {}
  <2>1. SumOver(v, {}) = 0 /\ SumOver(w, {}) = 0
    BY SumEmpty
  <2>2. 2 * 0 <= 0
    OBVIOUS
  <2> QED BY <1>3, <2>1, <2>2
<1>6. PICK x \in s : TRUE
  BY <1>5
<1>7. s \ {x} \in SUBSET S /\ s \ {x} # s /\ s \ {x} \subseteq s
  BY <1>3, <1>6
<1>8. 2 * SumOver(v, s \ {x}) <= SumOver(w, s \ {x})
  BY <1>2, <1>7
<1>9. SumOver(v, s) = v[x] + SumOver(v, s \ {x}) /\ SumOver(w, s) = w[x] + SumOver(w, s \ {x})
  BY <1>3, <1>4, SumRemove
<1> QED BY <1>3, <1>4, <1>7, <1>8, <1>9

\* Equal weights have equal sums.
LEMMA SumEqual ==
    ASSUME NEW S, IsFiniteSet(S), NEW v, NEW w, \A x \in S : v[x] = w[x] /\ v[x] \in Nat
    PROVE  SumOver(v, S) = SumOver(w, S)
<1>1. \A x \in S : w[x] \in Nat /\ v[x] \in Nat /\ v[x] <= w[x] /\ w[x] <= v[x]
  OBVIOUS
<1>2. SumOver(v, S) <= SumOver(w, S) /\ SumOver(w, S) <= SumOver(v, S)
  BY <1>1, SumCompare
<1> QED BY <1>1, <1>2, SumNat

\* The sum over two sets with nothing in common.
LEMMA SumUnion ==
    ASSUME NEW S, IsFiniteSet(S), NEW w, \A x \in S : w[x] \in Nat,
           NEW A \in SUBSET S, NEW B \in SUBSET S, A \cap B = {}
    PROVE  SumOver(w, A \cup B) = SumOver(w, A) + SumOver(w, B)
<1> DEFINE Bad == {s \in SUBSET S : A \cap s = {} /\ SumOver(w, A \cup s) # SumOver(w, A) + SumOver(w, s)}
<1>1. SUFFICES ASSUME Bad # {} PROVE FALSE
  <2>1. B \in Bad \/ SumOver(w, A \cup B) = SumOver(w, A) + SumOver(w, B)
    OBVIOUS
  <2> QED BY <2>1
<1>2. PICK s \in Bad : \A r \in Bad : r \subseteq s => r = s
  <2>1. Bad \in SUBSET SUBSET S
    OBVIOUS
  <2> HIDE DEF Bad
  <2> QED BY <1>1, <2>1, MinimalSubset
<1>3. s \in SUBSET S /\ A \cap s = {} /\ SumOver(w, A \cup s) # SumOver(w, A) + SumOver(w, s)
  BY <1>2
<1>4. \A r \in SUBSET S : IsFiniteSet(r) /\ SumOver(w, r) \in Nat
  BY FS_Subset, SumNat
<1>5. CASE s = {}
  <2>1. A \cup s = A /\ SumOver(w, s) = 0
    BY <1>5, SumEmpty
  <2>2. SumOver(w, A) \in Nat
    BY <1>4
  <2> QED BY <1>3, <2>1, <2>2
<1>6. CASE s # {}
  <2>1. PICK x \in s : TRUE
    BY <1>6
  <2>2. s \ {x} \in SUBSET S /\ s \ {x} # s /\ s \ {x} \subseteq s /\ A \cap (s \ {x}) = {}
    BY <1>3, <2>1
  <2>3. SumOver(w, A \cup (s \ {x})) = SumOver(w, A) + SumOver(w, s \ {x})
    BY <1>2, <2>2
  <2>4. SumOver(w, s) = w[x] + SumOver(w, s \ {x})
    BY <1>3, <1>4, SumRemove
  <2>5. A \cup s \in SUBSET S /\ x \in A \cup s /\ (A \cup s) \ {x} = A \cup (s \ {x})
    BY <1>3, <2>1
  <2>6. SumOver(w, A \cup s) = w[x] + SumOver(w, A \cup (s \ {x}))
    <3>1. PICK q \in SUBSET S : q = A \cup s
      BY <2>5
    <3>2. SumOver(w, q) = w[x] + SumOver(w, q \ {x})
      BY <1>4, <2>5, <3>1, SumRemove
    <3> QED BY <2>5, <3>1, <3>2
  <2>7. w[x] \in Nat /\ SumOver(w, A) \in Nat /\ SumOver(w, s \ {x}) \in Nat
    BY <1>3, <1>4, <2>1, <2>2
  <2> QED BY <1>3, <2>3, <2>4, <2>6, <2>7
<1> QED BY <1>5, <1>6

\* A function on S without repetitions under which the weights v become the weights w.
Carries(f, S, v, w) ==
    /\ \A x, y \in S : f[x] = f[y] => x = y
    /\ \A x \in S : v[x] \in Nat /\ w[f[x]] = v[x]

\* The sum over what such a function maps a set to.
LEMMA SumImage ==
    ASSUME NEW S, IsFiniteSet(S), NEW f, NEW v, NEW w, Carries(f, S, v, w)
    PROVE  SumOver(w, {f[x] : x \in S}) = SumOver(v, S)
<1> USE DEF Carries
<1> DEFINE Of(s) == {f[x] : x \in s}
           Bad == {s \in SUBSET S : SumOver(w, Of(s)) # SumOver(v, s)}
<1>1. SUFFICES ASSUME Bad # {} PROVE FALSE
  <2>1. S \in Bad \/ SumOver(w, Of(S)) = SumOver(v, S)
    OBVIOUS
  <2> QED BY <2>1
<1>2. PICK s \in Bad : \A r \in Bad : r \subseteq s => r = s
  <2>1. Bad \in SUBSET SUBSET S
    OBVIOUS
  <2> HIDE DEF Bad
  <2> QED BY <1>1, <2>1, MinimalSubset
<1>3. s \in SUBSET S /\ SumOver(w, Of(s)) # SumOver(v, s)
  BY <1>2
<1>4. IsFiniteSet(s)
  BY <1>3, FS_Subset
<1>5. s # {}
  <2>1. SUFFICES ASSUME s = {} PROVE FALSE
    OBVIOUS
  <2>2. Of(s) = {}
    BY <2>1
  <2> QED BY <1>3, <2>1, <2>2, SumEmpty
<1>6. PICK x \in s : TRUE
  BY <1>5
<1>7. s \ {x} \in SUBSET S /\ s \ {x} # s /\ s \ {x} \subseteq s
  BY <1>3, <1>6
<1>8. SumOver(w, Of(s \ {x})) = SumOver(v, s \ {x})
  BY <1>2, <1>7
<1>9. SumOver(v, s) = v[x] + SumOver(v, s \ {x})
  BY <1>3, <1>4, SumRemove
<1>10. /\ f[x] \in Of(s) /\ Of(s \ {x}) = Of(s) \ {f[x]} /\ w[f[x]] = v[x]
       /\ \A y \in Of(s) : w[y] \in Nat
  BY <1>3, <1>6
<1>11. IsFiniteSet(Of(s))
  <2>1. [y \in s |-> f[y]] \in Surjection(s, Of(s))
    BY DEF Surjection
  <2> QED BY <1>4, <2>1, FS_Surjection
<1>12. PICK q : q = Of(s)
  OBVIOUS
<1>13. SumOver(w, q) = w[f[x]] + SumOver(w, q \ {f[x]})
  BY <1>10, <1>11, <1>12, SumRemove
<1> QED BY <1>3, <1>8, <1>9, <1>10, <1>12, <1>13

\* The weight w is that of u and v together, or k times that of u.
IsPlus(w, u, v, S) == \A x \in S : u[x] \in Nat /\ v[x] \in Nat /\ w[x] = u[x] + v[x]
IsTimes(w, k, u, S) == \A x \in S : u[x] \in Nat /\ w[x] = k * u[x]

\* The sum of two weights.
LEMMA SumPlus ==
    ASSUME NEW S, IsFiniteSet(S), NEW u, NEW v, NEW w, IsPlus(w, u, v, S)
    PROVE  SumOver(w, S) = SumOver(u, S) + SumOver(v, S)
<1> USE DEF IsPlus
<1> DEFINE Bad == {s \in SUBSET S : SumOver(w, s) # SumOver(u, s) + SumOver(v, s)}
<1>1. SUFFICES ASSUME Bad # {} PROVE FALSE
  BY <1>1
<1>2. PICK s \in Bad : \A q \in Bad : q \subseteq s => q = s
  <2>1. Bad \in SUBSET SUBSET S
    OBVIOUS
  <2> HIDE DEF Bad
  <2> QED BY <1>1, <2>1, MinimalSubset
<1>3. s \in SUBSET S /\ SumOver(w, s) # SumOver(u, s) + SumOver(v, s)
  BY <1>2
<1>4. \A x \in S : w[x] \in Nat
  OBVIOUS
<1>5. \A q \in SUBSET S :
          IsFiniteSet(q) /\ SumOver(u, q) \in Nat /\ SumOver(v, q) \in Nat /\ SumOver(w, q) \in Nat
  BY <1>4, FS_Subset, SumNat
<1>6. s # {}
  <2>1. SumOver(u, {}) = 0 /\ SumOver(v, {}) = 0 /\ SumOver(w, {}) = 0
    BY SumEmpty
  <2>2. 0 = 0 + 0
    OBVIOUS
  <2> QED BY <1>3, <2>1, <2>2
<1>7. PICK x \in s : TRUE
  BY <1>6
<1>8. s \ {x} \in SUBSET S /\ s \ {x} # s /\ s \ {x} \subseteq s
  BY <1>3, <1>7
<1>9. SumOver(w, s \ {x}) = SumOver(u, s \ {x}) + SumOver(v, s \ {x})
  BY <1>2, <1>8
<1>10. /\ SumOver(u, s) = u[x] + SumOver(u, s \ {x}) /\ SumOver(v, s) = v[x] + SumOver(v, s \ {x})
       /\ SumOver(w, s) = w[x] + SumOver(w, s \ {x})
  BY <1>3, <1>4, <1>5, SumRemove
<1>11. PICK a1 \in Nat, b1 \in Nat, a2 \in Nat, b2 \in Nat :
           a1 = u[x] /\ b1 = v[x] /\ a2 = SumOver(u, s \ {x}) /\ b2 = SumOver(v, s \ {x}) /\ w[x] = a1 + b1
  BY <1>3, <1>5, <1>8
<1> QED BY <1>3, <1>9, <1>10, <1>11

\* The sum of a weight taken k times.
LEMMA SumTimes ==
    ASSUME NEW S, IsFiniteSet(S), NEW k \in Nat, NEW u, NEW w, IsTimes(w, k, u, S)
    PROVE  SumOver(w, S) = k * SumOver(u, S)
<1> USE DEF IsTimes
<1> DEFINE Bad == {s \in SUBSET S : SumOver(w, s) # k * SumOver(u, s)}
<1>1. SUFFICES ASSUME Bad # {} PROVE FALSE
  BY <1>1
<1>2. PICK s \in Bad : \A q \in Bad : q \subseteq s => q = s
  <2>1. Bad \in SUBSET SUBSET S
    OBVIOUS
  <2> HIDE DEF Bad
  <2> QED BY <1>1, <2>1, MinimalSubset
<1>3. s \in SUBSET S /\ SumOver(w, s) # k * SumOver(u, s)
  BY <1>2
<1>4. \A x \in S : w[x] \in Nat
  <2> TAKE x \in S
  <2>1. PICK m \in Nat : m = u[x]
    OBVIOUS
  <2>2. k * m \in Nat
    OBVIOUS
  <2> QED BY <2>1, <2>2
<1>5. \A q \in SUBSET S : IsFiniteSet(q) /\ SumOver(u, q) \in Nat /\ SumOver(w, q) \in Nat
  BY <1>4, FS_Subset, SumNat
<1>6. s # {}
  <2>1. SumOver(u, {}) = 0 /\ SumOver(w, {}) = 0
    BY SumEmpty
  <2>2. 0 = k * 0
    OBVIOUS
  <2> QED BY <1>3, <2>1, <2>2
<1>7. PICK x \in s : TRUE
  BY <1>6
<1>8. s \ {x} \in SUBSET S /\ s \ {x} # s /\ s \ {x} \subseteq s
  BY <1>3, <1>7
<1>9. SumOver(w, s \ {x}) = k * SumOver(u, s \ {x})
  BY <1>2, <1>8
<1>10. SumOver(u, s) = u[x] + SumOver(u, s \ {x}) /\ SumOver(w, s) = w[x] + SumOver(w, s \ {x})
  BY <1>3, <1>4, <1>5, SumRemove
<1>11. PICK m \in Nat, n \in Nat : m = u[x] /\ n = SumOver(u, s \ {x}) /\ w[x] = k * m
  BY <1>3, <1>5, <1>8
<1>12. k * (m + n) = k * m + k * n
  OBVIOUS
<1> QED BY <1>3, <1>9, <1>10, <1>11, <1>12

\* Ones and noughts add up to the number of ones.
LEMMA SumCount ==
    ASSUME NEW S, IsFiniteSet(S), NEW w, \A x \in S : w[x] \in {0, 1}
    PROVE  SumOver(w, S) = Cardinality({x \in S : w[x] = 1})
<1> DEFINE Ones(s) == {x \in s : w[x] = 1}
           Bad == {s \in SUBSET S : SumOver(w, s) # Cardinality(Ones(s))}
<1>1. SUFFICES ASSUME Bad # {} PROVE FALSE
  <2>1. S \in Bad \/ SumOver(w, S) = Cardinality(Ones(S))
    OBVIOUS
  <2> QED BY <1>1, <2>1
<1>2. PICK s \in Bad : \A q \in Bad : q \subseteq s => q = s
  <2>1. Bad \in SUBSET SUBSET S
    OBVIOUS
  <2> HIDE DEF Bad
  <2> QED BY <1>1, <2>1, MinimalSubset
<1>3. s \in SUBSET S /\ SumOver(w, s) # Cardinality(Ones(s))
  BY <1>2
<1>4. IsFiniteSet(s) /\ \A x \in s : w[x] \in Nat /\ w[x] \in {0, 1}
  BY <1>3, FS_Subset
<1>5. s # {}
  <2>1. SUFFICES ASSUME s = {} PROVE FALSE
    OBVIOUS
  <2>2. Ones(s) = {}
    BY <2>1
  <2> QED BY <1>3, <2>1, <2>2, SumEmpty, FS_EmptySet
<1>6. PICK x \in s : TRUE
  BY <1>5
<1>7. s \ {x} \in SUBSET S /\ s \ {x} # s /\ s \ {x} \subseteq s
  BY <1>3, <1>6
<1>8. SumOver(w, s \ {x}) = Cardinality(Ones(s \ {x}))
  BY <1>2, <1>7
<1>9. SumOver(w, s) = w[x] + SumOver(w, s \ {x})
  BY <1>4, SumRemove
<1>10. PICK O, T : O = Ones(s) /\ T = Ones(s \ {x})
  OBVIOUS
<1>11. IsFiniteSet(T) /\ x \notin T
  BY <1>4, <1>10, FS_Subset
<1>12. PICK n \in Nat : n = Cardinality(T)
  BY <1>11, FS_CardinalityType
<1>13. SumOver(w, s) # Cardinality(O)
  BY <1>3, <1>10
<1>14. SumOver(w, s) = w[x] + n
  BY <1>8, <1>9, <1>10, <1>12
<1>15. CASE w[x] = 1
  <2>1. O = T \cup {x}
    BY <1>6, <1>10, <1>15
  <2>2. Cardinality(T \cup {x}) = Cardinality(T) + 1
    BY ONLY <1>11, FS_AddElement
  <2> QED BY ONLY <1>12, <1>13, <1>14, <1>15, <2>1, <2>2, n \in Nat
<1>16. CASE w[x] = 0
  <2>1. O = T
    BY <1>6, <1>10, <1>16
  <2> QED BY ONLY <1>12, <1>13, <1>14, <1>16, <2>1, n \in Nat
<1> QED BY <1>4, <1>6, <1>15, <1>16

\* The weights w of pairs are products.
Multiplies(w, u, v, A, B) == \A x \in A, y \in B : u[x] \in Nat /\ v[y] \in Nat /\ w[<<x, y>>] = u[x] * v[y]

\* The sum over the pairs is the product of the sums.
LEMMA SumProduct ==
    ASSUME NEW A, IsFiniteSet(A), NEW B, IsFiniteSet(B), NEW u, NEW v, NEW w,
           \A x \in A : u[x] \in Nat, \A y \in B : v[y] \in Nat, Multiplies(w, u, v, A, B)
    PROVE  SumOver(w, A \X B) = SumOver(u, A) * SumOver(v, B)
<1>1. PICK t \in Nat : t = SumOver(v, B)
  BY SumNat
<1>2. IsFiniteSet(A \X B)
  BY FS_Product
<1>3. \A e \in A \X B : w[e] \in Nat
  <2> TAKE e \in A \X B
  <2>1. PICK x \in A, y \in B : e = <<x, y>>
    OBVIOUS
  <2>2. PICK m \in Nat, n \in Nat : m = u[x] /\ n = v[y] /\ w[e] = m * n
    BY <2>1 DEF Multiplies
  <2>3. m * n \in Nat
    OBVIOUS
  <2> QED BY <2>2, <2>3
<1> DEFINE Bad == {s \in SUBSET A : SumOver(w, s \X B) # SumOver(u, s) * t}
<1>4. SUFFICES ASSUME Bad # {} PROVE FALSE
  <2>1. A \in Bad \/ SumOver(w, A \X B) = SumOver(u, A) * t
    OBVIOUS
  <2> QED BY <1>1, <1>4, <2>1
<1>5. PICK s \in Bad : \A q \in Bad : q \subseteq s => q = s
  <2>1. Bad \in SUBSET SUBSET A
    OBVIOUS
  <2> HIDE DEF Bad
  <2> QED BY <1>4, <2>1, MinimalSubset
<1>6. s \in SUBSET A /\ SumOver(w, s \X B) # SumOver(u, s) * t
  BY <1>5
<1>7. \A q \in SUBSET A : IsFiniteSet(q) /\ SumOver(u, q) \in Nat
  BY FS_Subset, SumNat
<1>8. s # {}
  <2>1. SUFFICES ASSUME s = {} PROVE FALSE
    OBVIOUS
  <2>2. s \X B = {} /\ 0 * t = 0
    BY <2>1
  <2> QED BY <1>6, <2>1, <2>2, SumEmpty
<1>9. PICK x \in s : TRUE
  BY <1>8
<1>10. s \ {x} \in SUBSET A /\ s \ {x} # s /\ s \ {x} \subseteq s /\ x \in A
  BY <1>6, <1>9
<1>11. SumOver(w, (s \ {x}) \X B) = SumOver(u, s \ {x}) * t
  BY <1>5, <1>10
<1>12. SumOver(u, s) = u[x] + SumOver(u, s \ {x})
  BY <1>6, <1>7, SumRemove
<1>13. SumOver(w, {x} \X B) = u[x] * t
  <2>1. PICK k \in Nat : k = u[x]
    BY <1>10
  <2>2. PICK f, row : f = [y \in B |-> <<x, y>>] /\ row = [y \in B |-> k * v[y]]
    OBVIOUS
  <2>3. \A y \in B : v[y] \in Nat /\ row[y] = k * v[y] /\ row[y] \in Nat /\ w[f[y]] = row[y]
    <3> TAKE y \in B
    <3>1. PICK n \in Nat : n = v[y]
      OBVIOUS
    <3>2. k * n \in Nat
      OBVIOUS
    <3>3. w[<<x, y>>] = u[x] * v[y]
      BY <1>10 DEF Multiplies
    <3> QED BY <2>1, <2>2, <3>1, <3>2, <3>3
  <2>4. SumOver(row, B) = k * SumOver(v, B)
    <3>1. IsTimes(row, k, v, B)
      BY <2>3 DEF IsTimes
    <3> QED BY <3>1, SumTimes
  <2>5. Carries(f, B, row, w)
    BY <2>2, <2>3 DEF Carries
  <2>6. SumOver(w, {f[y] : y \in B}) = SumOver(row, B)
    BY <2>5, SumImage
  <2>7. {f[y] : y \in B} = {x} \X B
    BY <2>2
  <2> QED BY <1>1, <2>1, <2>4, <2>6, <2>7
<1>14. SumOver(w, s \X B) = SumOver(w, (s \ {x}) \X B) + SumOver(w, {x} \X B)
  <2>1. PICK P, Q : P = (s \ {x}) \X B /\ Q = {x} \X B
    OBVIOUS
  <2>2. P \in SUBSET (A \X B) /\ Q \in SUBSET (A \X B) /\ P \cap Q = {} /\ P \cup Q = s \X B
    BY <1>6, <1>9, <2>1
  <2>3. SumOver(w, P \cup Q) = SumOver(w, P) + SumOver(w, Q)
    BY <1>2, <1>3, <2>2, SumUnion
  <2> QED BY <2>1, <2>2, <2>3
<1>15. PICK m \in Nat, n \in Nat : m = u[x] /\ n = SumOver(u, s \ {x})
  BY <1>7, <1>10
<1>16. (m + n) * t = n * t + m * t
  OBVIOUS
<1> QED BY <1>6, <1>11, <1>12, <1>13, <1>14, <1>15, <1>16

-----------------------------------------------------------------------------
(* Ranks in an order *)

\* A strict total order L on D, as a set of pairs.
StrictOrder(L, D) ==
    /\ \A x, y \in D : x # y => <<x, y>> \in L \/ <<y, x>> \in L
    /\ \A x, y, z \in D : <<x, y>> \in L /\ <<y, z>> \in L => <<x, z>> \in L
    /\ \A x \in D : <<x, x>> \notin L

\* How many come before x.
PlaceOf(L, D, x) == Cardinality({y \in D : <<y, x>> \in L})

\* Who comes before another has the lower rank.
LEMMA PlaceGrows ==
    ASSUME NEW D, IsFiniteSet(D), NEW L, StrictOrder(L, D), NEW x \in D, NEW y \in D, <<x, y>> \in L
    PROVE  PlaceOf(L, D, x) < PlaceOf(L, D, y)
<1>1. PICK A \in SUBSET D, B \in SUBSET D : A = {z \in D : <<z, x>> \in L} /\ B = {z \in D : <<z, y>> \in L}
  OBVIOUS
<1>2. A \cup {x} \subseteq B /\ x \notin A
  BY <1>1 DEF StrictOrder
<1>3. IsFiniteSet(A) /\ IsFiniteSet(B) /\ Cardinality(A) \in Nat /\ Cardinality(B) \in Nat
  BY FS_Subset, FS_CardinalityType
<1>4. Cardinality(A \cup {x}) = Cardinality(A) + 1
  BY <1>2, <1>3, FS_AddElement
<1>5. Cardinality(A \cup {x}) <= Cardinality(B)
  BY <1>2, <1>3, FS_Subset
<1>6. Cardinality(A) < Cardinality(B)
  BY <1>3, <1>4, <1>5
<1> QED BY <1>1, <1>6 DEF PlaceOf

\* Each rank below the size of D is that of one element.
LEMMA PlacesAre ==
    ASSUME NEW D, IsFiniteSet(D), NEW L, StrictOrder(L, D)
    PROVE  /\ \A x \in D : PlaceOf(L, D, x) \in 0 .. Cardinality(D) - 1
           /\ \A x, y \in D : PlaceOf(L, D, x) = PlaceOf(L, D, y) => x = y
           /\ \A k \in 0 .. Cardinality(D) - 1 : \E x \in D : PlaceOf(L, D, x) = k
<1>1. PICK n \in Nat : n = Cardinality(D)
  BY FS_CardinalityType
<1>2. ASSUME NEW x \in D PROVE PlaceOf(L, D, x) \in 0 .. n - 1
  <2>1. PICK A \in SUBSET D : A = {z \in D : <<z, x>> \in L}
    OBVIOUS
  <2>2. A \subseteq D \ {x}
    BY <2>1 DEF StrictOrder
  <2>3. IsFiniteSet(D \ {x}) /\ Cardinality(D \ {x}) = n - 1
    BY <1>1, FS_RemoveElement
  <2>4. Cardinality(A) <= n - 1 /\ Cardinality(A) \in Nat
    BY <2>2, <2>3, FS_Subset, FS_CardinalityType
  <2>5. Cardinality(A) \in 0 .. n - 1
    BY <2>4
  <2> QED BY <2>1, <2>5 DEF PlaceOf
<1>3. ASSUME NEW x \in D, NEW y \in D, PlaceOf(L, D, x) = PlaceOf(L, D, y) PROVE x = y
  <2>1. SUFFICES ASSUME x # y PROVE FALSE
    OBVIOUS
  <2>2. <<x, y>> \in L \/ <<y, x>> \in L
    BY <2>1 DEF StrictOrder
  <2>3. PlaceOf(L, D, x) < PlaceOf(L, D, y) \/ PlaceOf(L, D, y) < PlaceOf(L, D, x)
    BY <2>2, PlaceGrows
  <2>4. PlaceOf(L, D, x) \in Int
    BY <1>2
  <2> QED BY <1>3, <2>3, <2>4
<1>4. ASSUME NEW k \in 0 .. n - 1 PROVE \E x \in D : PlaceOf(L, D, x) = k
  <2>1. PICK f : f = [x \in D |-> PlaceOf(L, D, x)]
    OBVIOUS
  <2>2. f \in Injection(D, 0 .. n - 1)
    BY <1>2, <1>3, <2>1 DEF Injection, IsInjective
  <2>3. IsFiniteSet(0 .. n - 1) /\ Cardinality(0 .. n - 1) = n
    BY FS_Interval
  <2>4. f \in Surjection(D, 0 .. n - 1)
    BY <1>1, <2>2, <2>3, FS_Injection
  <2> QED BY <2>1, <2>4 DEF Surjection
<1> QED BY <1>1, <1>2, <1>3, <1>4

\* There is a first of any finite number of things, though not of none.
LEMMA FirstInOrder ==
    ASSUME NEW D, IsFiniteSet(D), D # {}, NEW L, StrictOrder(L, D)
    PROVE  \E x \in D : \A y \in D \ {x} : <<x, y>> \in L
<1>1. Cardinality(D) \in Nat /\ Cardinality(D) # 0
  BY FS_CardinalityType, FS_EmptySet
<1>2. 0 \in 0 .. Cardinality(D) - 1
  BY <1>1
<1>3. PICK x \in D : PlaceOf(L, D, x) = 0
  BY <1>2, PlacesAre
<1>4. PICK A \in SUBSET D : A = {y \in D : <<y, x>> \in L}
  OBVIOUS
<1>5. Cardinality(A) = 0 /\ IsFiniteSet(A)
  BY <1>3, <1>4, FS_Subset DEF PlaceOf
<1>6. A = {}
  BY <1>5, FS_EmptySet
<1> QED BY <1>4, <1>6 DEF StrictOrder

\* Max is the greatest of finitely many numbers.
LEMMA MaxIs ==
    ASSUME NEW D \in SUBSET Int, IsFiniteSet(D), D # {}
    PROVE  Max(D) \in D /\ \A x \in D : x <= Max(D)
<1>1. PICK L : L = {e \in D \X D : e[1] > e[2]}
  OBVIOUS
<1>2. \A x, y \in D : <<x, y>> \in L <=> x > y
  BY <1>1
<1>3. StrictOrder(L, D)
  BY <1>2 DEF StrictOrder
<1>4. PICK x \in D : \A y \in D \ {x} : <<x, y>> \in L
  BY <1>3, FirstInOrder
<1>5. \E z \in D : \A y \in D : z >= y
  <2>1. ASSUME NEW y \in D PROVE x >= y
    <3>1. x \in Int /\ y \in Int /\ (x = y \/ x > y)
      BY <1>2, <1>4
    <3> QED BY <3>1
  <2> QED BY <2>1
<1>6. Max(D) \in D /\ \A y \in D : Max(D) >= y
  BY ONLY <1>5, Zenon DEF Max
<1> QED BY <1>6

-----------------------------------------------------------------------------
(* The cycles of a permutation. *)

Cy == INSTANCE CycleOrder

\* The recursion behind Iterate.
IsIterate(it, p, x, n) == it = [i \in 0 .. n |-> IF i = 0 THEN x ELSE p[it[i - 1]]]

\* The recursion has a solution: it could fail first at some number only.
LEMMA IterateExists == ASSUME NEW n \in Nat, NEW p, NEW x PROVE \E it : IsIterate(it, p, x, n)
<1> DEFINE Bad == {m \in Nat : ~ \E it : IsIterate(it, p, x, m)}
<1>1. SUFFICES ASSUME Bad # {} PROVE FALSE
  OBVIOUS
<1>2. PICK m \in Bad : \A r \in Bad : m <= r
  <2>1. Bad \in SUBSET Nat
    OBVIOUS
  <2> HIDE DEF Bad
  <2> QED BY <1>1, <2>1, SmallestNat
<1>3. m \in Nat /\ ~ \E it : IsIterate(it, p, x, m)
  BY <1>2
<1>4. CASE m = 0
  <2> DEFINE g == [i \in 0 .. 0 |-> x]
  <2>1. g = [i \in 0 .. 0 |-> IF i = 0 THEN x ELSE p[g[i - 1]]]
    OBVIOUS
  <2> HIDE DEF g
  <2>2. IsIterate(g, p, x, 0)
    BY <2>1 DEF IsIterate
  <2> QED BY <1>3, <1>4, <2>2
<1>5. CASE m # 0
  <2>1. m - 1 \in Nat /\ m - 1 \notin Bad
    BY <1>2, <1>5
  <2>2. PICK h : IsIterate(h, p, x, m - 1)
    BY <2>1
  <2>3. /\ h[0] = x
        /\ \A i \in 1 .. m - 1 : h[i] = p[h[i - 1]]
    BY <2>1, <2>2 DEF IsIterate
  <2> DEFINE g == [i \in 0 .. m |-> IF i = m THEN p[h[m - 1]] ELSE h[i]]
  <2>4. ASSUME NEW i \in 0 .. m PROVE g[i] = IF i = 0 THEN x ELSE p[g[i - 1]]
    <3>1. CASE i = 0
      BY <1>5, <2>3, <3>1
    <3>2. CASE i = m
      BY <1>3, <1>5, <3>2
    <3>3. CASE i # 0 /\ i # m
      <4>1. i \in 1 .. m - 1 /\ i - 1 \in 0 .. m /\ i - 1 # m
        BY <1>3, <3>3
      <4> QED BY <2>3, <3>3, <4>1
    <3> QED BY <3>1, <3>2, <3>3
  <2>5. g = [i \in 0 .. m |-> g[i]]
    OBVIOUS
  <2> HIDE DEF g
  <2>6. IsIterate(g, p, x, m)
    BY <2>4, <2>5 DEF IsIterate
  <2> QED BY <1>3, <2>6
<1> QED BY <1>4, <1>5

\* A permutation of a finite set, and where it takes x step by step.
Permutes(p, D) == IsFiniteSet(D) /\ p \in [D -> D] /\ \A y, z \in D : p[y] = p[z] => y = z

Orbit(it, p, D, x) ==
    /\ it \in [0 .. Cardinality(D) -> D] /\ it[0] = x
    /\ \A i \in 0 .. Cardinality(D) - 1 : it[i + 1] = p[it[i]]

\* Iterate of CycleOrder follows the orbit of a permutation.
LEMMA IterateIs ==
    ASSUME NEW D, NEW p, Permutes(p, D), NEW x \in D
    PROVE  Orbit(Cy!Iterate(p, x), p, D, x) /\ Cardinality(D) \in Nat /\ DOMAIN p = D
<1> DEFINE n == Cardinality(D)
<1>1. n \in Nat /\ DOMAIN p = D
  BY FS_CardinalityType DEF Permutes
<1>2. Cy!Iterate(p, x) = CHOOSE it : IsIterate(it, p, x, n)
  <2>1. Cy!Iterate(p, x) = CHOOSE it : it = [i \in 0 .. Cardinality(DOMAIN p) |-> IF i = 0 THEN x ELSE p[it[i - 1]]]
    BY DEF Cy!Iterate, Cy!Cardinality, Cardinality
  <2>2. Cy!Iterate(p, x) = CHOOSE it : it = [i \in 0 .. n |-> IF i = 0 THEN x ELSE p[it[i - 1]]]
    BY <1>1, <2>1
  <2> QED BY <2>2 DEF IsIterate
<1> HIDE DEF n
<1>3. IsIterate(Cy!Iterate(p, x), p, x, n)
  <2>1. \E it : IsIterate(it, p, x, n)
    BY <1>1, IterateExists
  <2> QED BY <1>2, <2>1
<1>4. PICK it : it = Cy!Iterate(p, x)
  OBVIOUS
<1>5. it = [i \in 0 .. n |-> IF i = 0 THEN x ELSE p[it[i - 1]]]
  BY <1>3, <1>4 DEF IsIterate
<1>6. it[0] = x
  BY <1>1, <1>5
<1>7. ASSUME NEW i \in 0 .. n - 1 PROVE it[i + 1] = p[it[i]]
  <2>1. i + 1 \in 0 .. n /\ i + 1 # 0 /\ (i + 1) - 1 = i
    BY <1>1
  <2> QED BY <1>5, <2>1
<1>8. \A i \in 0 .. n : it[i] \in D
  <2> DEFINE Bad == {i \in 0 .. n : it[i] \notin D}
  <2>1. SUFFICES ASSUME Bad # {} PROVE FALSE
    OBVIOUS
  <2>2. PICK i \in Bad : \A r \in Bad : i <= r
    <3>1. Bad \in SUBSET Nat
      BY <1>1
    <3> HIDE DEF Bad
    <3> QED BY <2>1, <3>1, SmallestNat
  <2>3. i \in 0 .. n /\ it[i] \notin D
    BY <2>2
  <2>4. i # 0
    BY <1>6, <2>3
  <2>5. i - 1 \in 0 .. n - 1 /\ i - 1 \in 0 .. n /\ ~(i <= i - 1) /\ (i - 1) + 1 = i
    BY <1>1, <2>3, <2>4
  <2>6. it[i - 1] \in D
    BY <2>2, <2>5
  <2>7. it[i] = p[it[i - 1]]
    BY <1>7, <2>5
  <2> QED BY <2>3, <2>6, <2>7 DEF Permutes
<1>9. it \in [0 .. n -> D]
  <2>1. it = [i \in 0 .. n |-> it[i]]
    BY <1>5
  <2> QED BY <1>8, <2>1
<1> QED BY <1>1, <1>4, <1>6, <1>7, <1>9 DEF Orbit, n

\* What an orbit visits twice it visits again from its start.
LEMMA OrbitReturns ==
    ASSUME NEW D, NEW p, Permutes(p, D), NEW x \in D, NEW it, Orbit(it, p, D, x),
           NEW n \in Nat, n = Cardinality(D), NEW i \in 0 .. n, NEW j \in 0 .. n, i < j, it[i] = it[j]
    PROVE  it[j - i] = x
<1> DEFINE Twice == {a \in 0 .. i : it[a] = it[a + (j - i)]}
<1>0. \A a \in 0 .. n : it[a] \in D
  BY DEF Orbit
<1>1. PICK a \in Twice : \A b \in Twice : a <= b
  <2>1. Twice \in SUBSET Nat
    OBVIOUS
  <2>2. i \in 0 .. i /\ i + (j - i) = j
    OBVIOUS
  <2>3. i \in Twice
    BY <2>2
  <2> HIDE DEF Twice
  <2> QED BY <2>1, <2>3, SmallestNat
<1>2. a \in 0 .. i /\ it[a] = it[a + (j - i)]
  BY <1>1
<1>3. CASE a = 0
  <2>1. it[0] = it[j - i]
    BY <1>2, <1>3
  <2> QED BY <2>1 DEF Orbit
<1>4. CASE a # 0
  <2> DEFINE b == a - 1
             c == b + (j - i)
  <2>1. b \in 0 .. i /\ b \in 0 .. n - 1 /\ c \in 0 .. n - 1 /\ b + 1 = a /\ c + 1 = a + (j - i) /\ ~(a <= b)
    BY <1>2, <1>4
  <2>2. b \in 0 .. n /\ c \in 0 .. n
    BY <2>1
  <2>3. it[b] # it[c]
    BY <1>1, <2>1
  <2> HIDE DEF b, c
  <2>4. it[a] = p[it[b]] /\ it[a + (j - i)] = p[it[c]]
    <3>1. it[b + 1] = p[it[b]] /\ it[c + 1] = p[it[c]]
      BY <2>1 DEF Orbit
    <3> QED BY <2>1, <3>1
  <2> QED BY <1>0, <1>2, <2>2, <2>3, <2>4 DEF Permutes
<1> QED BY <1>3, <1>4

\* The first m places are all.
Repeats(it, m, n) == \A i \in 0 .. n : \E b \in 0 .. m - 1 : it[i] = it[b]

\* An orbit that is back at its start after m steps repeats its first m places.
LEMMA OrbitRepeats ==
    ASSUME NEW D, NEW p, NEW x \in D, NEW it, Orbit(it, p, D, x),
           NEW n \in Nat, n = Cardinality(D), NEW m \in 1 .. n, it[m] = x
    PROVE  Repeats(it, m, n)
<1> USE DEF Repeats
<1>1. \A a \in m .. n : it[a] = it[a - m]
  <2> DEFINE Bad == {a \in m .. n : it[a] # it[a - m]}
  <2>1. SUFFICES ASSUME Bad # {} PROVE FALSE
    OBVIOUS
  <2>2. PICK a \in Bad : \A b \in Bad : a <= b
    <3>1. Bad \in SUBSET Nat
      OBVIOUS
    <3> HIDE DEF Bad
    <3> QED BY <2>1, <3>1, SmallestNat
  <2>3. a \in m .. n /\ it[a] # it[a - m]
    BY <2>2
  <2>4. a # m
    BY <2>3 DEF Orbit
  <2> DEFINE b == a - 1
             c == b - m
  <2>5. b \in m .. n /\ b \in 0 .. n - 1 /\ c \in 0 .. n - 1 /\ b + 1 = a /\ c + 1 = a - m /\ ~(a <= b)
    BY <2>3, <2>4
  <2>6. it[b] = it[c]
    BY <2>2, <2>5
  <2> HIDE DEF b, c
  <2>7. it[b + 1] = p[it[b]] /\ it[c + 1] = p[it[c]]
    BY <2>5 DEF Orbit
  <2> QED BY <2>3, <2>5, <2>6, <2>7
<1> DEFINE Bad == {i \in 0 .. n : \A b \in 0 .. m - 1 : it[i] # it[b]}
<1>2. SUFFICES ASSUME Bad # {} PROVE FALSE
  OBVIOUS
<1>3. PICK i \in Bad : \A b \in Bad : i <= b
  <2>1. Bad \in SUBSET Nat
    OBVIOUS
  <2> HIDE DEF Bad
  <2> QED BY <1>2, <2>1, SmallestNat
<1>4. i \in 0 .. n /\ \A b \in 0 .. m - 1 : it[i] # it[b]
  BY <1>3
<1>5. i \in m .. n
  <2>1. i \notin 0 .. m - 1
    BY <1>4
  <2> QED BY <1>4, <2>1
<1>6. i - m \in 0 .. n /\ ~(i <= i - m)
  BY <1>5
<1>7. i - m \notin Bad
  BY <1>3, <1>6
<1>8. PICK b \in 0 .. m - 1 : it[i - m] = it[b]
  BY <1>6, <1>7
<1> QED BY <1>1, <1>4, <1>5, <1>8

\* Some step brings an orbit back to its start.
LEMMA OrbitCloses ==
    ASSUME NEW D, NEW p, Permutes(p, D), NEW x \in D, NEW it, Orbit(it, p, D, x),
           NEW n \in Nat, n = Cardinality(D)
    PROVE  \E m \in 1 .. n : it[m] = x
<1>1. IsFiniteSet(0 .. n) /\ Cardinality(0 .. n) = n + 1
  BY FS_Interval
<1>2. PICK i, j \in 0 .. n : i # j /\ it[i] = it[j]
  <2>1. it \in [0 .. n -> D] /\ IsFiniteSet(D) /\ Cardinality(D) < Cardinality(0 .. n)
    BY <1>1 DEF Orbit, Permutes
  <2> QED BY <1>1, <2>1, FS_PigeonHole
<1>3. CASE i < j
  <2>1. j - i \in 1 .. n /\ it[j - i] = x
    BY <1>2, <1>3, OrbitReturns
  <2> QED BY <2>1
<1>4. CASE j < i
  <2>1. i - j \in 1 .. n /\ it[i - j] = x
    BY <1>2, <1>4, OrbitReturns
  <2> QED BY <2>1
<1> QED BY <1>2, <1>3, <1>4

\* Neither p nor its inverse leaves the places W.
Closed(W, p, D) ==
    /\ W \subseteq D
    /\ \A y \in W : p[y] \in W
    /\ \A y \in D : p[y] \in W => y \in W

\* A cycle is one.
LEMMA CycleClosed ==
    ASSUME NEW D, NEW p, Permutes(p, D), NEW x \in D
    PROVE  Closed(Cy!Cycle(p, x), p, D) /\ x \in Cy!Cycle(p, x)
<1>1. PICK it, n : it = Cy!Iterate(p, x) /\ n = Cardinality(D)
  OBVIOUS
<1>2. Orbit(it, p, D, x) /\ n \in Nat /\ DOMAIN p = D
  BY <1>1, IterateIs
<1> DEFINE W == {it[i] : i \in 0 .. n - 1}
<1>3. Cy!Cycle(p, x) = W
  <2>1. Cy!Cycle(p, x) = {it[i] : i \in 0 .. Cardinality(DOMAIN p) - 1}
    BY <1>1 DEF Cy!Cycle, Cy!Path, Cy!Cardinality, Cardinality
  <2> QED BY <1>1, <1>2, <2>1
<1>4. PICK m \in 1 .. n : it[m] = x
  BY <1>1, <1>2, OrbitCloses
<1>5. it[0] = x /\ \A i \in 0 .. n : it[i] \in D
  BY <1>1, <1>2 DEF Orbit
<1>6. \A i \in 0 .. n - 1 : it[i + 1] = p[it[i]] /\ i \in 0 .. n /\ i + 1 \in 0 .. n
  BY <1>1, <1>2 DEF Orbit
<1>7. \A i \in 0 .. n : \E b \in 0 .. m - 1 : it[i] = it[b]
  <2>1. Repeats(it, m, n)
    BY <1>1, <1>2, <1>4, OrbitRepeats
  <2> QED BY <2>1 DEF Repeats
<1>8. \A b \in 0 .. m - 1 : b \in 0 .. n - 1
  BY <1>2
<1>9. \A i \in 0 .. n : it[i] \in W
  BY <1>7, <1>8
<1>10. \A y \in W : p[y] \in W
  BY <1>6, <1>9
<1>11. ASSUME NEW y \in D, p[y] \in W PROVE y \in W
  <2>1. PICK i \in 0 .. n - 1 : p[y] = it[i]
    BY <1>11
  <2>2. PICK c \in 0 .. n - 1 : p[y] = p[it[c]]
    <3>1. CASE i = 0
      <4>1. m - 1 \in 0 .. n - 1 /\ (m - 1) + 1 = m
        BY <1>2
      <4>2. it[m] = p[it[m - 1]]
        BY <1>6, <4>1
      <4> QED BY <1>4, <1>5, <2>1, <3>1, <4>1, <4>2
    <3>2. CASE i # 0
      <4>1. i - 1 \in 0 .. n - 1 /\ (i - 1) + 1 = i
        BY <1>2, <3>2
      <4>2. it[i] = p[it[i - 1]]
        BY <1>6, <4>1
      <4> QED BY <2>1, <4>1, <4>2
    <3> QED BY <3>1, <3>2
  <2>3. it[c] \in D
    BY <1>5, <1>6
  <2>4. y = it[c]
    BY <2>2, <2>3 DEF Permutes
  <2> QED BY <2>4
<1>12. x \in W /\ W \subseteq D
  BY <1>5, <1>6, <1>8, <1>9, <1>2
<1> QED BY <1>3, <1>10, <1>11, <1>12 DEF Closed

\* An orbit is in a closed set from its start on or nowhere.
LEMMA OrbitInside ==
    ASSUME NEW D, NEW p, NEW x \in D, NEW it, Orbit(it, p, D, x), NEW W, Closed(W, p, D),
           NEW n \in Nat, n = Cardinality(D), NEW i \in 0 .. n
    PROVE  it[i] \in W <=> x \in W
<1> DEFINE Bad == {a \in 0 .. n : ~(it[a] \in W <=> x \in W)}
<1>1. SUFFICES ASSUME Bad # {} PROVE FALSE
  OBVIOUS
<1>2. PICK a \in Bad : \A b \in Bad : a <= b
  <2>1. Bad \in SUBSET Nat
    OBVIOUS
  <2> HIDE DEF Bad
  <2> QED BY <1>1, <2>1, SmallestNat
<1>3. a \in 0 .. n /\ ~(it[a] \in W <=> x \in W)
  BY <1>2
<1>4. a # 0
  BY <1>3 DEF Orbit
<1> DEFINE b == a - 1
<1>5. b \in 0 .. n - 1 /\ b \in 0 .. n /\ b + 1 = a /\ ~(a <= b)
  BY <1>3, <1>4
<1>6. it[b] \in W <=> x \in W
  BY <1>2, <1>5
<1> HIDE DEF b
<1>7. it[b + 1] = p[it[b]] /\ it[b] \in D
  BY <1>5 DEF Orbit
<1> QED BY <1>3, <1>5, <1>6, <1>7 DEF Closed

\* Within its cycle an orbit comes to places it has not been.
LEMMA PathNew ==
    ASSUME NEW D, NEW p, Permutes(p, D), NEW x \in D, NEW it, it = Cy!Iterate(p, x),
           NEW n, n = Cardinality(D), NEW k \in 0 .. Cardinality(Cy!Cycle(p, x)) - 1
    PROVE  n \in Nat /\ k \in 0 .. n - 1 /\ \A i \in 0 .. k - 1 : it[i] # it[k]
<1>1. Orbit(it, p, D, x) /\ n \in Nat /\ DOMAIN p = D
  BY IterateIs
<1> DEFINE W == Cy!Cycle(p, x)
<1>2. W = {it[i] : i \in 0 .. n - 1}
  <2>1. Cy!Cycle(p, x) = {it[i] : i \in 0 .. Cardinality(DOMAIN p) - 1}
    BY DEF Cy!Cycle, Cy!Path, Cy!Cardinality, Cardinality
  <2> QED BY <1>1, <2>1
<1>3. W \subseteq D
  BY CycleClosed DEF Closed
<1> HIDE DEF W
<1>4. IsFiniteSet(W) /\ Cardinality(W) \in Nat /\ Cardinality(W) <= n
  <2>1. IsFiniteSet(D)
    BY DEF Permutes
  <2> QED BY <1>3, <2>1, FS_Subset, FS_CardinalityType
<1>5. k \in 0 .. n - 1 /\ k < Cardinality(W)
  BY <1>1, <1>4 DEF W
<1>6. ASSUME NEW i \in 0 .. k - 1, it[i] = it[k] PROVE FALSE
  <2>0. PICK m : m = k - i
    OBVIOUS
  <2>1. i \in 0 .. n /\ k \in 0 .. n /\ i < k /\ m \in 1 .. n /\ m <= k
    BY <1>1, <1>5, <2>0
  <2>2. it[m] = x
    <3>1. it[k - i] = x
      BY <1>1, <1>6, <2>1, OrbitReturns
    <3> QED BY <2>0, <3>1
  <2>3. Repeats(it, m, n)
    <3>1. n \in Nat /\ n = Cardinality(D) /\ m \in 1 .. n /\ Orbit(it, p, D, x) /\ it[m] = x /\ x \in D
      BY <1>1, <2>1, <2>2
    <3> QED BY ONLY <3>1, OrbitRepeats
  <2>4. \A y \in W : \E b \in 0 .. m - 1 : y = it[b]
    <3>1. \A j \in 0 .. n - 1 : j \in 0 .. n
      BY <1>1
    <3> QED BY <1>2, <2>3, <3>1 DEF Repeats
  <2> DEFINE g == [b \in 1 .. m |-> it[b - 1]]
  <2>5. \A b \in 1 .. m : b - 1 \in 0 .. n - 1
    BY <1>1, <2>1
  <2>6. g \in [1 .. m -> W]
    BY <1>2, <2>5
  <2>7. \A y \in W : \E b \in 1 .. m : g[b] = y
    <3> SUFFICES ASSUME NEW y \in W PROVE \E b \in 1 .. m : g[b] = y
      OBVIOUS
    <3>1. PICK b \in 0 .. m - 1 : y = it[b]
      BY <2>4
    <3>2. b + 1 \in 1 .. m /\ (b + 1) - 1 = b
      BY <2>1
    <3> QED BY <3>1, <3>2
  <2> HIDE DEF g
  <2>8. ExistsSurjection(1 .. m, W)
    BY <2>6, <2>7 DEF ExistsSurjection, Surjection
  <2>9. Cardinality(W) <= m
    BY <2>1, <2>8, FS_SurjCardinalityBound
  <2> QED BY <1>4, <1>5, <2>1, <2>9
<1> QED BY <1>1, <1>5, <1>6

\* A cycle is the places an orbit visits before it is back.
LEMMA CycleIs ==
    ASSUME NEW D, NEW p, Permutes(p, D), NEW x \in D, NEW it, it = Cy!Iterate(p, x),
           NEW n, n = Cardinality(D), NEW m, m \in 1 .. n, it[m] = x
    PROVE  Cy!Cycle(p, x) = Cy!Path(p, x, m)
<1>1. Orbit(it, p, D, x) /\ n \in Nat /\ DOMAIN p = D
  BY IterateIs
<1>2. Cy!Cycle(p, x) = {it[i] : i \in 0 .. n - 1}
  <2>1. Cy!Cycle(p, x) = {it[i] : i \in 0 .. Cardinality(DOMAIN p) - 1}
    BY DEF Cy!Cycle, Cy!Path, Cy!Cardinality, Cardinality
  <2> QED BY <1>1, <2>1
<1>3. Cy!Path(p, x, m) = {it[i] : i \in 0 .. m - 1}
  BY DEF Cy!Path
<1>4. Repeats(it, m, n)
  <2>1. n \in Nat /\ Cardinality(D) = n /\ m \in 1 .. n /\ Orbit(it, p, D, x) /\ it[m] = x /\ x \in D
    BY <1>1
  <2> QED BY ONLY <2>1, OrbitRepeats
<1>5. (\A i \in 0 .. n - 1 : i \in 0 .. n) /\ \A b \in 0 .. m - 1 : b \in 0 .. n - 1
  BY <1>1
<1> QED BY <1>2, <1>3, <1>4, <1>5 DEF Repeats

\* It has as many places as the orbit takes steps.
LEMMA CycleLength ==
    ASSUME NEW D, NEW p, Permutes(p, D), NEW x \in D, NEW it, it = Cy!Iterate(p, x),
           NEW n, n = Cardinality(D), NEW c, c = Cardinality(Cy!Cycle(p, x))
    PROVE  c \in 1 .. n /\ it[c] = x
<1>1. Orbit(it, p, D, x) /\ n \in Nat /\ DOMAIN p = D
  BY IterateIs
<1>2. PICK W : W = Cy!Cycle(p, x)
  OBVIOUS
<1>3. W = {it[i] : i \in 0 .. n - 1}
  <2>1. Cy!Cycle(p, x) = {it[i] : i \in 0 .. Cardinality(DOMAIN p) - 1}
    BY DEF Cy!Cycle, Cy!Path, Cy!Cardinality, Cardinality
  <2> QED BY <1>1, <1>2, <2>1
<1>4. W \subseteq D /\ x \in W /\ Closed(W, p, D)
  BY <1>2, CycleClosed DEF Closed
<1>5. IsFiniteSet(W) /\ c = Cardinality(W) /\ c \in 1 .. n
  <2>1. IsFiniteSet(D)
    BY DEF Permutes
  <2>2. IsFiniteSet(W) /\ Cardinality(W) \in Nat /\ Cardinality(W) <= n
    BY <1>4, <2>1, FS_Subset, FS_CardinalityType
  <2>3. Cardinality(W) # 0
    BY <1>4, <2>2, FS_EmptySet
  <2> QED BY <1>1, <1>2, <2>2, <2>3
<1>6. IsFiniteSet(0 .. c) /\ Cardinality(0 .. c) = c + 1
  <2>1. c \in Nat
    BY <1>1, <1>5
  <2> QED BY <2>1, FS_Interval
<1>7. \A i \in 0 .. n : it[i] \in W
  <2> SUFFICES ASSUME NEW i \in 0 .. n PROVE it[i] \in W
    OBVIOUS
  <2>1. it[i] \in W <=> x \in W
    <3>1. x \in D /\ Orbit(it, p, D, x) /\ Closed(W, p, D) /\ n \in Nat /\ n = Cardinality(D) /\ i \in 0 .. n
      BY <1>1, <1>4
    <3> QED BY ONLY <3>1, OrbitInside
  <2> QED BY <1>4, <2>1
<1>8. PICK i, j \in 0 .. c : i # j /\ it[i] = it[j]
  <2> DEFINE g == [i \in 0 .. c |-> it[i]]
  <2>1. \A i \in 0 .. c : i \in 0 .. n
    BY <1>1, <1>5
  <2>2. g \in [0 .. c -> W]
    BY <1>7, <2>1
  <2>3. \A i \in 0 .. c : g[i] = it[i]
    OBVIOUS
  <2> HIDE DEF g
  <2>4. Cardinality(W) < Cardinality(0 .. c)
    BY <1>5, <1>6
  <2>5. \E i, j \in 0 .. c : i # j /\ g[i] = g[j]
    BY <1>5, <1>6, <2>2, <2>4, FS_PigeonHole
  <2> QED BY <2>3, <2>5
<1>9. PICK m \in 1 .. c : it[m] = x
  <2>0. i \in 0 .. n /\ j \in 0 .. n
    BY <1>1, <1>5
  <2>1. CASE i < j
    <3>1. j - i \in 1 .. c /\ it[j - i] = x
      BY <1>1, <1>5, <1>8, <2>0, <2>1, OrbitReturns
    <3> QED BY <3>1
  <2>2. CASE j < i
    <3>1. i - j \in 1 .. c /\ it[i - j] = x
      BY <1>1, <1>5, <1>8, <2>0, <2>2, OrbitReturns
    <3> QED BY <3>1
  <2> QED BY <1>5, <1>8, <2>1, <2>2
<1>10. W = {it[b] : b \in 0 .. m - 1}
  <2>1. m \in 1 .. n
    BY <1>1, <1>5
  <2>2. Cy!Cycle(p, x) = Cy!Path(p, x, m)
    BY <1>1, <1>9, <2>1, CycleIs
  <2> QED BY <1>2, <2>2 DEF Cy!Path
<1>11. c <= m
  <2> DEFINE g == [b \in 1 .. m |-> it[b - 1]]
  <2>1. \A b \in 1 .. m : b - 1 \in 0 .. m - 1
    BY <1>5
  <2>2. g \in [1 .. m -> W]
    BY <1>10, <2>1
  <2>3. \A y \in W : \E b \in 1 .. m : g[b] = y
    <3> SUFFICES ASSUME NEW y \in W PROVE \E b \in 1 .. m : g[b] = y
      OBVIOUS
    <3>1. PICK b \in 0 .. m - 1 : y = it[b]
      BY <1>10
    <3>2. b + 1 \in 1 .. m /\ (b + 1) - 1 = b
      BY <1>5
    <3> QED BY <3>1, <3>2
  <2> HIDE DEF g
  <2>4. ExistsSurjection(1 .. m, W)
    BY <2>2, <2>3 DEF ExistsSurjection, Surjection
  <2>5. m \in Nat
    BY <1>5
  <2> QED BY <1>5, <2>4, <2>5, FS_SurjCardinalityBound
<1> QED BY <1>5, <1>9, <1>11

\* A closed set holds all of a cycle or none of it.
LEMMA CycleInside ==
    ASSUME NEW D, NEW p, Permutes(p, D), NEW x \in D, NEW y \in Cy!Cycle(p, x), NEW W, Closed(W, p, D)
    PROVE  y \in D /\ (y \in W <=> x \in W)
<1>1. PICK it, n : it = Cy!Iterate(p, x) /\ n = Cardinality(D)
  OBVIOUS
<1>2. Orbit(it, p, D, x) /\ n \in Nat /\ DOMAIN p = D
  BY <1>1, IterateIs
<1>3. PICK i \in 0 .. n - 1 : y = it[i]
  <2>1. Cy!Cycle(p, x) = {it[i] : i \in 0 .. Cardinality(DOMAIN p) - 1}
    BY <1>1 DEF Cy!Cycle, Cy!Path, Cy!Cardinality, Cardinality
  <2> QED BY <1>1, <1>2, <2>1
<1>4. i \in 0 .. n
  BY <1>2
<1>5. it[i] \in W <=> x \in W
  <2>1. x \in D /\ Orbit(it, p, D, x) /\ Closed(W, p, D) /\ n \in Nat /\ n = Cardinality(D) /\ i \in 0 .. n
    BY <1>1, <1>2, <1>4
  <2> QED BY ONLY <2>1, OrbitInside
<1>6. y \in D
  BY <1>1, <1>2, <1>3, <1>4 DEF Orbit
<1> QED BY <1>3, <1>5, <1>6

\* The smallest place of a cycle leads it.
LEMMA LeaderExists ==
    ASSUME NEW D, D \in SUBSET Nat, NEW p, Permutes(p, D), NEW x, x \in D, p[x] # x
    PROVE  \E y \in Cy!Leaders(p) : x \in Cy!Cycle(p, y)
<1>1. DOMAIN p = D /\ \A y, z \in D : p[y] = p[z] => y = z
  BY DEF Permutes
<1>2. Closed(Cy!Cycle(p, x), p, D) /\ x \in Cy!Cycle(p, x)
  BY CycleClosed
<1>3. PICK y \in Cy!Cycle(p, x) : \A z \in Cy!Cycle(p, x) : y <= z
  <2>1. Cy!Cycle(p, x) \in SUBSET Nat /\ Cy!Cycle(p, x) # {}
    BY <1>2 DEF Closed
  <2> QED BY <2>1, SmallestNat
<1>4. y \in D
  BY <1>2 DEF Closed
<1>5. Closed(Cy!Cycle(p, y), p, D) /\ y \in Cy!Cycle(p, y)
  BY <1>4, CycleClosed
<1>6. x \in Cy!Cycle(p, y)
  BY <1>5, CycleInside
<1>7. \A z \in Cy!Cycle(p, y) : y <= z
  <2> SUFFICES ASSUME NEW z \in Cy!Cycle(p, y) PROVE y <= z
    OBVIOUS
  <2>1. z \in Cy!Cycle(p, x)
    BY <1>2, <1>4, CycleInside
  <2> QED BY <1>3, <2>1
<1>8. p[y] # y
  <2> SUFFICES ASSUME p[y] = y PROVE FALSE
    OBVIOUS
  <2>1. Closed({y}, p, D)
    BY <1>1, <1>4 DEF Closed
  <2>2. y \in {y} <=> x \in {y}
    BY <2>1, CycleInside
  <2> QED BY <2>2
<1>9. y \in Cy!Leaders(p)
  BY <1>1, <1>4, <1>7, <1>8 DEF Cy!Leaders, Cy!Moving
<1> QED BY <1>6, <1>9

\* The cycles rewritten before are closed, and the one at hand is not among them.
LEMMA BeforeClosed ==
    ASSUME NEW D \in SUBSET Int, NEW p, Permutes(p, D), NEW x \in Cy!Leaders(p)
    PROVE  x \in D /\ p[x] # x /\ Closed(Cy!Before(p, x), p, D) /\ x \notin Cy!Before(p, x)
<1>1. DOMAIN p = D
  BY DEF Permutes
<1>2. \A y \in Cy!Leaders(p) : y \in D /\ p[y] # y /\ \A z \in Cy!Cycle(p, y) : y <= z
  BY <1>1 DEF Cy!Leaders, Cy!Moving
<1>3. \A y \in Cy!Leaders(p) : Closed(Cy!Cycle(p, y), p, D) /\ y \in Cy!Cycle(p, y)
  BY <1>2, CycleClosed
<1> DEFINE B == Cy!Before(p, x)
<1>4. \A z : z \in B <=> \E y \in Cy!Leaders(p) : y < x /\ z \in Cy!Cycle(p, y)
  BY DEF Cy!Before
<1> HIDE DEF B
<1>5. Closed(B, p, D)
  BY <1>3, <1>4 DEF Closed
<1>6. x \notin B
  <2> SUFFICES ASSUME NEW y \in Cy!Leaders(p), y < x, x \in Cy!Cycle(p, y) PROVE FALSE
    BY <1>4
  <2> DEFINE it == Cy!Iterate(p, y)
             n == Cardinality(D)
  <2>1. Orbit(it, p, D, y) /\ n \in Nat
    BY <1>2, IterateIs
  <2>2. PICK i \in 0 .. n - 1 : x = it[i]
    <3>1. Cy!Cycle(p, y) = {it[i] : i \in 0 .. Cardinality(DOMAIN p) - 1}
      BY DEF Cy!Cycle, Cy!Path, Cy!Cardinality, Cardinality
    <3> QED BY <1>1, <3>1
  <2>3. i \in 0 .. n
    BY <2>1
  <2> DEFINE W == Cy!Cycle(p, x)
  <2>4. Closed(W, p, D) /\ x \in W
    BY <1>3
  <2> HIDE DEF it, n, W
  <2>5. it[i] \in W <=> y \in W
    BY <1>2, <2>1, <2>3, <2>4, OrbitInside DEF n
  <2>6. y \in W
    BY <2>2, <2>4, <2>5
  <2>7. x <= y
    BY <1>2, <2>6 DEF W
  <2>8. x \in Int /\ y \in Int
    BY <1>2
  <2> QED BY <2>7, <2>8
<1> QED BY <1>2, <1>5, <1>6 DEF B

\* Stopped in the cycle of x, a rewrite has lost the block slot x held and no other: the others
\* are where they were or where they go.
LEMMA StoppedLosesOne ==
    ASSUME NEW D \in SUBSET Int, NEW p, Permutes(p, D), NEW f, NEW torn, NEW x \in Cy!Leaders(p),
           NEW k \in 0 .. Cardinality(Cy!Cycle(p, x)) - 1, NEW img \in Cy!Stopped(p, f, x, k, torn)
    PROVE  /\ img = [y \in D |-> img[y]]
           /\ \A y \in D : img[y] = torn \/ \E z \in D : img[y] = f[z]
           /\ \A y \in D \ {x} : \E z \in D : img[z] = f[y]
<1>1. PICK it, n, W, q : /\ it = Cy!Iterate(p, x) /\ n = Cardinality(D)
                         /\ W = Cy!Before(p, x) \cup Cy!Path(p, x, k) /\ q = it[k]
  OBVIOUS
<1>2. x \in D /\ p[x] # x /\ Closed(Cy!Before(p, x), p, D) /\ x \notin Cy!Before(p, x)
  BY BeforeClosed
<1>3. Orbit(it, p, D, x) /\ DOMAIN p = D
  BY <1>1, <1>2, IterateIs
<1>4. n \in Nat /\ k \in 0 .. n - 1 /\ \A i \in 0 .. k - 1 : it[i] # q
  BY <1>1, <1>2, PathNew
<1>5. /\ it[0] = x /\ \A i \in 0 .. n : it[i] \in D
      /\ \A i \in 0 .. n - 1 : it[i + 1] = p[it[i]]
  BY <1>1, <1>3 DEF Orbit
<1>6. \A y : y \in W <=> y \in Cy!Before(p, x) \/ \E i \in 0 .. k - 1 : y = it[i]
  BY <1>1 DEF Cy!Path
<1>7. q \in D /\ q \notin Cy!Before(p, x)
  <2>1. k \in 0 .. n
    BY <1>4
  <2>2. it[k] \in Cy!Before(p, x) <=> x \in Cy!Before(p, x)
    BY <1>1, <1>2, <1>3, <1>4, <2>1, OrbitInside
  <2> QED BY <1>1, <1>2, <1>5, <2>1, <2>2
<1>8. q \notin W
  BY <1>4, <1>6, <1>7
<1> DEFINE R == [y \in D |-> IF y \in W THEN f[p[y]] ELSE f[y]]
<1>9. img = R \/ img = [R EXCEPT ![q] = torn]
  BY <1>1, <1>3 DEF Cy!Stopped, Cy!Rewritten
<1>10. img = [y \in D |-> img[y]]
  BY <1>9
<1>11. \A y \in D : y # q => img[y] = IF y \in W THEN f[p[y]] ELSE f[y]
  BY <1>7, <1>9
<1>12. img[q] = torn \/ img[q] = f[q]
  BY <1>7, <1>8, <1>9
<1> HIDE DEF R
<1>13. \A y \in D : img[y] = torn \/ \E z \in D : img[y] = f[z]
  <2>1. \A y \in D : p[y] \in D
    BY DEF Permutes
  <2> QED BY <1>7, <1>11, <1>12, <2>1
<1>14. ASSUME NEW y \in D, y # x PROVE \E z \in D : img[z] = f[y]
  <2>1. ASSUME NEW z \in W, p[z] = y PROVE \E u \in D : img[u] = f[y]
    <3>1. z \in D /\ z # q
      <4>1. \A i \in 0 .. k - 1 : it[i] \in D
        BY <1>4, <1>5
      <4> QED BY <1>2, <1>6, <1>8, <2>1, <4>1 DEF Closed
    <3> QED BY <1>11, <2>1, <3>1
  <2>2. CASE y \in Cy!Before(p, x)
    <3>1. PICK z \in Cy!Before(p, x) : p[z] = y
      <4> DEFINE B == Cy!Before(p, x)
                 g == [b \in B |-> p[b]]
      <4>1. B \subseteq D /\ IsFiniteSet(B)
        BY <1>2, FS_Subset DEF Closed, Permutes
      <4>2. g \in [B -> B] /\ \A b, c \in B : g[b] = g[c] => b = c
        BY <1>2, <4>1 DEF Closed, Permutes
      <4> HIDE DEF B, g
      <4>3. g \in Injection(B, B)
        BY <4>2 DEF Injection, IsInjective
      <4>4. g \in Surjection(B, B)
        BY <4>1, <4>3, FS_Injection
      <4>5. \E b \in B : g[b] = y
        BY <2>2, <4>4 DEF Surjection, B
      <4> QED BY <4>5 DEF B, g
    <3> QED BY <1>6, <2>1, <3>1
  <2>3. CASE \E i \in 0 .. k : y = it[i]
    <3>1. PICK i \in 0 .. k : y = it[i]
      BY <2>3
    <3>2. i # 0
      BY <1>5, <1>14, <3>1
    <3>3. i - 1 \in 0 .. k - 1 /\ i - 1 \in 0 .. n - 1 /\ (i - 1) + 1 = i
      BY <1>4, <3>2
    <3>4. it[i] = p[it[i - 1]]
      BY <1>5, <3>3
    <3>5. it[i - 1] \in W
      BY <1>6, <3>3
    <3> QED BY <2>1, <3>1, <3>4, <3>5
  <2>4. CASE y \notin Cy!Before(p, x) /\ ~ \E i \in 0 .. k : y = it[i]
    <3>1. y \notin W /\ y # q
      <4>1. k \in 0 .. k /\ \A i \in 0 .. k - 1 : i \in 0 .. k
        BY <1>4
      <4> QED BY <1>1, <1>6, <2>4, <4>1
    <3> QED BY <1>11, <3>1
  <2> QED BY <2>2, <2>3, <2>4
<1> QED BY <1>10, <1>13, <1>14

\* A permutation of a finite set takes every value.
LEMMA PermutesOnto ==
    ASSUME NEW D, NEW p, Permutes(p, D)
    PROVE  \A y \in D : p[y] \in D /\ \E z \in D : p[z] = y
<1>1. p \in Injection(D, D) /\ IsFiniteSet(D)
  BY DEF Injection, IsInjective, Permutes
<1>2. p \in Surjection(D, D)
  BY <1>1, FS_Injection
<1> QED BY <1>2 DEF Surjection

\* A whole rewrite moves every block, so it loses none.
LEMMA RewriteMoves ==
    ASSUME NEW D, NEW p, p \in [D -> D], NEW f
    PROVE  Cy!Permute(p, f) = [y \in D |-> f[p[y]]]
BY DEF Cy!Permute, Cy!Rewritten

\* The image img holds what f held, or torn, and what f held in all places but one.
LosesOne(img, f, D, torn) ==
    /\ img = f \/ img = [y \in D |-> img[y]]
    /\ \A y \in D : img[y] = torn \/ \E z \in D : img[y] = f[z]
    /\ \E x : \A y \in D \ {x} : \E z \in D : img[z] = f[y]

\* What a rewrite that stops anywhere leaves behind has lost one block at most.
LEMMA ImageLosesOne ==
    ASSUME NEW D, D \in SUBSET Int, NEW p, Permutes(p, D), NEW f, NEW torn,
           NEW img, img \in Cy!CrashImages(p, f, torn)
    PROVE  LosesOne(img, f, D, torn)
<1> USE DEF LosesOne
<1>1. CASE img = f
  BY <1>1
<1>2. CASE img = Cy!Permute(p, f)
  <2>1. p \in [D -> D]
    BY DEF Permutes
  <2>2. img = [y \in D |-> f[p[y]]]
    <3>1. Cy!Permute(p, f) = [y \in D |-> f[p[y]]]
      BY ONLY <2>1, RewriteMoves
    <3> QED BY <1>2, <3>1
  <2>3. \A y \in D : p[y] \in D /\ \E z \in D : p[z] = y
    BY ONLY Permutes(p, D), PermutesOnto
  <2> QED BY <2>2, <2>3
<1>3. ASSUME NEW x \in Cy!Leaders(p), NEW k \in 0 .. Cardinality(Cy!Cycle(p, x)) - 1,
             img \in Cy!Stopped(p, f, x, k, torn)
      PROVE  /\ img = [y \in D |-> img[y]]
             /\ \A y \in D : img[y] = torn \/ \E z \in D : img[y] = f[z]
             /\ \E u : \A y \in D \ {u} : \E z \in D : img[z] = f[y]
  BY <1>3, StoppedLosesOne
<1>4. \/ img \in {f, Cy!Permute(p, f)}
      \/ \E x \in Cy!Leaders(p) : \E k \in 0 .. Cardinality(Cy!Cycle(p, x)) - 1 :
            img \in Cy!Stopped(p, f, x, k, torn)
  <2>1. \A W : Cy!Cardinality(W) = Cardinality(W)
    BY DEF Cy!Cardinality, Cardinality
  <2>2. \/ img \in {f, Cy!Permute(p, f)}
        \/ \E x \in Cy!Leaders(p) : \E k \in 0 .. Cy!Cardinality(Cy!Cycle(p, x)) - 1 :
              img \in Cy!Stopped(p, f, x, k, torn)
    BY DEF Cy!CrashImages
  <2> QED BY <2>1, <2>2
<1> QED BY <1>1, <1>2, <1>3, <1>4

\* img holds what f held in all places of D but one.
AllButOne(img, f, D) == \E x : \A y \in D \ {x} : \E z \in D : img[z] = f[y]

\* The same, of a file whose blocks come from a set.
LEMMA CrashLosesOne ==
    ASSUME NEW D, D \in SUBSET Int, NEW p, Permutes(p, D), NEW S, NEW f, f \in [D -> S], NEW torn,
           NEW img, img \in Cy!CrashImages(p, f, torn)
    PROVE  img \in [D -> S \cup {torn}] /\ AllButOne(img, f, D)
<1>1. LosesOne(img, f, D, torn)
  BY ONLY D \in SUBSET Int, Permutes(p, D), img \in Cy!CrashImages(p, f, torn), ImageLosesOne
<1>2. \A y \in D : f[y] \in S
  OBVIOUS
<1>3. img \in [D -> S \cup {torn}]
  BY <1>1, <1>2 DEF LosesOne
<1>4. AllButOne(img, f, D)
  BY <1>1 DEF LosesOne, AllButOne
<1> QED BY <1>3, <1>4

=============================================================================
