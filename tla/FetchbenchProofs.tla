-------------------------- MODULE FetchbenchProofs --------------------------
(***************************************************************************)
(* What fetchbench measures with.  ExpertCache keeps its budget, serves    *)
(* the requests that fit and does not displace the hottest slab, for every *)
(* model, trace and command line.  Then ReadAll: for every number of       *)
(* threads, every plan and every size of the file, the buffer and the      *)
(* alignment, nothing is read twice and only errors leave a range out.     *)
(***************************************************************************)
EXTENDS ExpertCache, ReadAll, FiniteFacts, SequenceTheorems

\* The sizes as a function of the slab, for the lemmas on sums.
Sizes == [x \in Slabs |-> Size(x)]

\* The parameters of a setup are in their ranges.
LEMMA Parameters ==
    ASSUME setup \in DOMAIN Setups
    PROVE  /\ NLayers \in Nat \ {0} /\ NSlots \in Nat \ {0} /\ TopK \in Nat \ {0} /\ Tokens \in Nat \ {0}
           /\ Cap \in Nat /\ Setups[setup].pin \in Nat /\ Halflife \in Nat
           /\ Setups[setup].reps \in Nat \ {0} /\ Setups[setup].dropDen \in Nat \ {0}
           /\ NRequests \in Nat \ {0}
           /\ \A x \in Slabs : Size(x) \in Nat \ {0}
           /\ Setups[setup].policies \subseteq {"lru", "static", "random", "hybrid", "decayed"}
<1> DEFINE s == Setups[setup]
<1>1. /\ s.bytes \in Seq(Nat \ {0}) /\ s.bytes # <<>>
      /\ {s.cap, s.pin, s.halflife} \subseteq Nat
      /\ {s.slots, s.topK, s.tokens, s.reps, s.dropDen} \subseteq Nat \ {0}
      /\ s.policies \subseteq {"lru", "static", "random", "hybrid", "decayed"}
  BY SetupsAssumption
<1>2. NLayers \in Nat \ {0}
  BY <1>1 DEF NLayers
<1>3. Tokens \in Nat \ {0} /\ NRequests \in Nat \ {0}
  <2>1. Tokens \in Nat \ {0}
    BY <1>1 DEF Tokens
  <2>2. \A a, b \in Nat \ {0} : a * b \in Nat \ {0}
    OBVIOUS
  <2> QED BY <1>2, <2>1, <2>2 DEF NRequests
<1>4. ASSUME NEW x \in Slabs PROVE Size(x) \in Nat \ {0}
  <2>1. x[1] + 1 \in 1 .. Len(s.bytes)
    BY <1>1, <1>2 DEF Slabs, Layers, NLayers
  <2> QED BY <1>1, <2>1 DEF Size
<1> QED BY <1>1, <1>2, <1>3, <1>4 DEF NSlots, TopK, Cap, Halflife

\* There are finitely many slabs.
LEMMA SlabsFinite ==
    ASSUME setup \in DOMAIN Setups
    PROVE  IsFiniteSet(Slabs)
<1>1. NLayers - 1 \in Int /\ NSlots - 1 \in Int
  BY Parameters
<1>2. IsFiniteSet(0 .. NLayers - 1) /\ IsFiniteSet(0 .. NSlots - 1)
  BY <1>1, FS_Interval
<1> QED BY <1>2, FS_Product DEF Slabs, Layers

\* A slot of a request is a slab of the model.
LEMMA SlabIn ==
    ASSUME setup \in DOMAIN Setups, NEW m \in Nat \ {0}, NEW slot \in 0 .. NSlots - 1
    PROVE  Slab(m, slot) \in Slabs /\ Slab(m, slot)[2] = slot
<1>1. (m - 1) % NLayers \in 0 .. NLayers - 1
  BY Parameters
<1> QED BY <1>1 DEF Slab, LayerAt, Slabs, Layers

\* SizeOf is the sum that FiniteFacts is about.
LEMMA SizeOfIs ==
    ASSUME setup \in DOMAIN Setups, NEW S \in SUBSET Slabs
    PROVE  SizeOf(S) = SumOver(Sizes, S)
<1> DEFINE Sum(g) == g = [s \in SUBSET S |-> IF s = {} THEN 0 ELSE Size(CHOOSE x \in s : TRUE) + g[s \ {CHOOSE x \in s : TRUE}]]
<1>1. SizeOf(S) = (CHOOSE g : Sum(g))[S]
  BY DEF SizeOf, MapThenSumSet, MapThenFoldSet
<1>2. ASSUME NEW s \in SUBSET S, s # {} PROVE Size(CHOOSE x \in s : TRUE) = Sizes[Pick(s)]
  BY <1>2, PickIn DEF Sizes, Pick
<1>3. ASSUME NEW g PROVE Sum(g) <=> IsSum(g, Sizes, S)
  <2>1. [s \in SUBSET S |-> IF s = {} THEN 0 ELSE Size(CHOOSE x \in s : TRUE) + g[s \ {CHOOSE x \in s : TRUE}]]
        = [s \in SUBSET S |-> IF s = {} THEN 0 ELSE Sizes[Pick(s)] + g[s \ {Pick(s)}]]
    BY <1>2 DEF Pick
  <2> QED BY <2>1 DEF IsSum
<1>4. IsFiniteSet(S)
  BY SlabsFinite, FS_Subset
<1>5. \E g : IsSum(g, Sizes, S)
  BY <1>4, SumExists
<1>6. \E g : Sum(g)
  <2> HIDE DEF Sum
  <2> QED BY <1>3, <1>5
<1>7. Sum(CHOOSE g : Sum(g)) /\ IsSum(CHOOSE g : IsSum(g, Sizes, S), Sizes, S)
  <2> HIDE DEF Sum
  <2> QED BY <1>5, <1>6
<1>8. (CHOOSE g : Sum(g))[S] = (CHOOSE g : IsSum(g, Sizes, S))[S]
  <2>1. IsSum(CHOOSE g : Sum(g), Sizes, S)
    <3> HIDE DEF Sum
    <3> QED BY <1>3, <1>7
  <2>2. S \in SUBSET S
    OBVIOUS
  <2> HIDE DEF Sum
  <2> QED BY <1>4, <1>7, <2>1, <2>2, SumUnique
<1> QED BY <1>1, <1>8, SumIs

\* Sums of sizes of slabs.
LEMMA SizesSum ==
    ASSUME setup \in DOMAIN Setups
    PROVE  /\ SumOver(Sizes, {}) = 0
           /\ \A S \in SUBSET Slabs : IsFiniteSet(S) /\ SumOver(Sizes, S) \in Nat
           /\ \A S \in SUBSET Slabs : \A x \in S : SumOver(Sizes, S) = Size(x) + SumOver(Sizes, S \ {x})
           /\ \A S \in SUBSET Slabs : \A x \in Slabs \ S : SumOver(Sizes, S \cup {x}) = SumOver(Sizes, S) + Size(x)
           /\ \A S \in SUBSET Slabs : \A T \in SUBSET S : SumOver(Sizes, T) <= SumOver(Sizes, S)
<1>1. \A x \in Slabs : Sizes[x] = Size(x) /\ Sizes[x] \in Nat
  BY Parameters DEF Sizes
<1>2. \A S \in SUBSET Slabs : IsFiniteSet(S)
  BY SlabsFinite, FS_Subset
<1>3. ASSUME NEW S \in SUBSET Slabs PROVE SumOver(Sizes, S) \in Nat
  BY <1>1, <1>2, SumNat
<1>4. ASSUME NEW S \in SUBSET Slabs, NEW x \in S
      PROVE  SumOver(Sizes, S) = Size(x) + SumOver(Sizes, S \ {x})
  <2>1. SumOver(Sizes, S) = Sizes[x] + SumOver(Sizes, S \ {x})
    BY <1>1, <1>2, SumRemove
  <2> QED BY <1>1, <2>1
<1>5. ASSUME NEW S \in SUBSET Slabs, NEW x \in Slabs \ S
      PROVE  SumOver(Sizes, S \cup {x}) = SumOver(Sizes, S) + Size(x)
  <2>1. SumOver(Sizes, S \cup {x}) = SumOver(Sizes, S) + Sizes[x]
    BY <1>1, <1>2, SumAdd
  <2> QED BY <1>1, <2>1
<1>6. ASSUME NEW S \in SUBSET Slabs, NEW T \in SUBSET S
      PROVE  SumOver(Sizes, T) <= SumOver(Sizes, S)
  BY <1>1, <1>2, SumMonotone
<1> QED BY <1>2, <1>3, <1>4, <1>5, <1>6, SumEmpty

-----------------------------------------------------------------------------
\* Of what precedes what in a finite set, where that is an order, something is preceded by nothing.
LEMMA FirstExists ==
    ASSUME NEW S, IsFiniteSet(S), S # {}, NEW R \in SUBSET (S \X S),
           \A x \in S : <<x, x>> \notin R,
           \A x, y, z \in S : <<x, y>> \in R /\ <<y, z>> \in R => <<x, z>> \in R
    PROVE  \E z \in S : \A y \in S : <<y, z>> \notin R
<1> DEFINE below(x) == {y \in S : <<y, x>> \in R}
           T == {below(x) : x \in S}
<1>1. T \in SUBSET SUBSET S /\ T # {}
  <2>1. \A x \in S : below(x) \in SUBSET S /\ below(x) \in T
    OBVIOUS
  <2>2. \A t \in T : \E x \in S : t = below(x)
    OBVIOUS
  <2> HIDE DEF below, T
  <2> QED BY <2>1, <2>2
<1>2. PICK t \in T : \A u \in T : u \subseteq t => u = t
  <2> HIDE DEF T
  <2> QED BY <1>1, MinimalSubset
<1>3. PICK z \in S : t = below(z)
  BY <1>2
<1>4. ASSUME NEW y \in S, <<y, z>> \in R PROVE FALSE
  <2>1. below(y) \subseteq below(z)
    BY <1>4
  <2>2. y \in below(z) /\ y \notin below(y)
    BY <1>4
  <2>3. below(y) \in T
    OBVIOUS
  <2> HIDE DEF below, T
  <2> QED BY <1>2, <1>3, <2>1, <2>2, <2>3
<1> QED BY <1>4

\* How many of a set are smaller than one of it: the k-th smallest is of rank k - 1.
Rank(S, x) == Cardinality({y \in S : y < x})

\* The rank in a finite set of numbers numbers its elements from 0.
LEMMA RankExists ==
    ASSUME NEW S \in SUBSET Int, IsFiniteSet(S)
    PROVE  /\ Cardinality(S) \in Nat
           /\ \A x \in S : Rank(S, x) \in 0 .. Cardinality(S) - 1
           /\ \A x, y \in S : Rank(S, x) = Rank(S, y) => x = y
           /\ \A k \in 0 .. Cardinality(S) - 1 : \E x \in S : Rank(S, x) = k
<1> DEFINE low(x) == {y \in S : y < x}
           rank(x) == Cardinality(low(x))
           N == Cardinality(S)
<1>1. N \in Nat
  BY FS_CardinalityType
<1>2. \A x \in S : IsFiniteSet(low(x)) /\ rank(x) \in Nat
  BY FS_Subset, FS_CardinalityType
<1>3. ASSUME NEW x \in S PROVE rank(x) \in 0 .. N - 1
  <2>1. low(x) \in SUBSET S /\ low(x) # S
    OBVIOUS
  <2>2. rank(x) <= N /\ rank(x) # N
    <3> HIDE DEF low
    <3> QED BY <2>1, FS_Subset
  <2> QED BY <1>1, <1>2, <2>2
<1>4. ASSUME NEW x \in S, NEW y \in S, x < y PROVE rank(x) < rank(y)
  <2>1. low(x) \in SUBSET low(y) /\ low(x) # low(y)
    <3>1. x \in Int /\ y \in Int /\ S \subseteq Int
      OBVIOUS
    <3>2. ASSUME NEW z \in S, z < x PROVE z < y
      <4>1. z \in Int
        BY <3>1
      <4> QED BY <1>4, <3>1, <3>2, <4>1
    <3>3. x \in low(y) /\ x \notin low(x)
      BY <1>4, <3>1
    <3> QED BY <3>2, <3>3
  <2>2. IsFiniteSet(low(y)) /\ rank(x) \in Nat /\ rank(y) \in Nat
    BY <1>2
  <2>3. rank(x) <= rank(y) /\ rank(x) # rank(y)
    <3> HIDE DEF low
    <3> QED BY <2>1, <2>2, FS_Subset
  <2> QED BY <2>2, <2>3
<1>5. ASSUME NEW x \in S, NEW y \in S, rank(x) = rank(y) PROVE x = y
  <2>1. x \in Int /\ y \in Int /\ rank(x) \in Nat /\ rank(y) \in Nat
    BY <1>2
  <2>2. x < y \/ y < x \/ x = y
    BY <2>1
  <2> HIDE DEF rank
  <2> QED BY <1>4, <1>5, <2>1, <2>2
<1>6. ASSUME NEW k \in 0 .. N - 1 PROVE \E x \in S : rank(x) = k
  <2> HIDE DEF rank, N
  <2> DEFINE r == [x \in S |-> rank(x)]
             T == 0 .. N - 1
  <2>1. r \in [S -> T] /\ \A x, y \in S : r[x] = r[y] => x = y
    <3> HIDE DEF rank, N
    <3> QED BY <1>3, <1>5
  <2>2. r \in Injection(S, T)
    <3> HIDE DEF r, T
    <3> QED BY <2>1 DEF Injection, IsInjective
  <2>3. IsFiniteSet(T) /\ Cardinality(T) = N
    <3> HIDE DEF N
    <3> QED BY <1>1, FS_Interval
  <2>4. r \in Surjection(S, T)
    <3> HIDE DEF r, T
    <3>1. Cardinality(S) = Cardinality(T)
      BY <2>3 DEF N
    <3> QED BY <2>2, <2>3, <3>1, FS_Injection
  <2>5. PICK x \in S : r[x] = k
    <3> HIDE DEF r
    <3> QED BY <2>4 DEF Surjection
  <2> QED BY <2>5
<1>7. \A x \in S : Rank(S, x) = rank(x)
  BY DEF Rank
<1> HIDE DEF low, rank, N
<1>8. /\ N \in Nat
      /\ \A x \in S : Rank(S, x) \in 0 .. N - 1
      /\ \A x, y \in S : Rank(S, x) = Rank(S, y) => x = y
      /\ \A k \in 0 .. N - 1 : \E x \in S : Rank(S, x) = k
  BY <1>1, <1>3, <1>5, <1>6, <1>7
<1> QED BY <1>8 DEF N

\* One entry is taken out of a sequence.
LEMMA RemoveAtIs ==
    ASSUME NEW S, NEW s \in Seq(S), NEW k \in 1 .. Len(s)
    PROVE  /\ RemoveAt(s, k) \in Seq(S)
           /\ Len(RemoveAt(s, k)) = Len(s) - 1
           /\ \A i \in 1 .. Len(s) - 1 : RemoveAt(s, k)[i] = IF i < k THEN s[i] ELSE s[i + 1]
<1> DEFINE a == SubSeq(s, 1, k - 1)
           b == SubSeq(s, k + 1, Len(s))
<1>1. a \in Seq(S) /\ Len(a) = k - 1 /\ \A i \in 1 .. k - 1 : a[i] = s[i]
  OBVIOUS
<1>2. b \in Seq(S) /\ Len(b) = Len(s) - k /\ \A i \in 1 .. Len(s) - k : b[i] = s[k + i]
  OBVIOUS
<1>3. RemoveAt(s, k) = a \o b
  BY DEF RemoveAt
<1> HIDE DEF a, b
<1>4. Len(s) \in Nat /\ k \in Int /\ 1 <= k /\ k <= Len(s)
  OBVIOUS
<1>5. /\ a \o b \in Seq(S)
      /\ Len(a \o b) = Len(a) + Len(b)
      /\ \A i \in 1 .. Len(a) + Len(b) : (a \o b)[i] = IF i <= Len(a) THEN a[i] ELSE b[i - Len(a)]
  BY <1>1, <1>2, ConcatProperties
<1> DEFINE c == a \o b
<1> HIDE DEF c
<1>6. Len(c) = Len(s) - 1
  BY <1>1, <1>2, <1>4, <1>5 DEF c
<1>7. ASSUME NEW i \in 1 .. Len(s) - 1
      PROVE  c[i] = IF i < k THEN s[i] ELSE s[i + 1]
  <2>1. c[i] = IF i <= k - 1 THEN a[i] ELSE b[i - (k - 1)]
    BY <1>1, <1>2, <1>4, <1>5 DEF c
  <2>2. CASE i < k
    BY <1>1, <1>4, <2>1, <2>2
  <2>3. CASE i >= k
    <3>1. i - (k - 1) \in 1 .. Len(s) - k /\ k + (i - (k - 1)) = i + 1
      BY <1>4, <2>3
    <3>2. b[i - (k - 1)] = s[k + (i - (k - 1))]
      BY <1>2, <3>1
    <3> QED BY <1>4, <2>1, <2>3, <3>1, <3>2
  <2> QED BY <1>4, <2>2, <2>3
<1> QED BY <1>3, <1>5, <1>6, <1>7 DEF c

\* A finite set in some order.
LEMMA SetToSeqIs ==
    ASSUME NEW S, IsFiniteSet(S)
    PROVE  /\ SetToSeq(S) \in Seq(S) /\ ToSet(SetToSeq(S)) = S
           /\ \A i, k \in 1 .. Len(SetToSeq(S)) : SetToSeq(S)[i] = SetToSeq(S)[k] => i = k
<1> DEFINE N == Cardinality(S)
           f == SetToSeq(S)
<1>1. N \in Nat /\ IsFiniteSet(1 .. N) /\ Cardinality(1 .. N) = N
  BY FS_CardinalityType, FS_Interval
<1>2. \E g \in [1 .. N -> S] : IsInjective(g)
  BY FS_CardinalityType DEF ExistsBijection, Bijection, Injection
<1>3. f \in [1 .. N -> S] /\ IsInjective(f)
  BY <1>2 DEF SetToSeq
<1> HIDE DEF f, N
<1>4. f \in Injection(1 .. N, S)
  BY <1>3 DEF Injection
<1>5. f \in Surjection(1 .. N, S)
  BY <1>1, <1>4, FS_Injection DEF N
<1>6. \A i, k \in 1 .. N : f[i] = f[k] => i = k
  BY <1>3 DEF IsInjective
<1>7. \A x \in S : \E i \in 1 .. N : f[i] = x
  BY <1>5 DEF Surjection
<1>8. f \in Seq(S) /\ Len(f) = N /\ DOMAIN f = 1 .. N
  BY <1>1, <1>3
<1>9. ToSet(f) = S
  BY <1>3, <1>7, <1>8 DEF ToSet
<1> QED BY <1>6, <1>8, <1>9 DEF f

-----------------------------------------------------------------------------
\* Entries by tick: no slab twice, and those of a set after all others.
Distinct(s) == \A i, k \in 1 .. Len(s) : s[i] = s[k] => i = k
NewestLast(s, P) == \A i, k \in 1 .. Len(s) : s[i] \in P /\ s[k] \notin P => k < i

\* The set of a sequence's elements, by index.
LEMMA ToSetIs == ASSUME NEW S, NEW s \in Seq(S) PROVE ToSet(s) = {s[i] : i \in 1 .. Len(s)}
BY DEF ToSet

\* An entry is taken out.
LEMMA TakenOut ==
    ASSUME NEW S, NEW s \in Seq(S), Distinct(s), NEW k \in 1 .. Len(s)
    PROVE  /\ RemoveAt(s, k) \in Seq(S) /\ Distinct(RemoveAt(s, k))
           /\ ToSet(RemoveAt(s, k)) = ToSet(s) \ {s[k]}
           /\ \A P : NewestLast(s, P) => NewestLast(RemoveAt(s, k), P)
<1> DEFINE t == RemoveAt(s, k)
           at(i) == IF i < k THEN i ELSE i + 1
<1>1. /\ t \in Seq(S) /\ Len(t) = Len(s) - 1 /\ Len(s) \in Nat
      /\ \A i \in 1 .. Len(s) - 1 : t[i] = IF i < k THEN s[i] ELSE s[i + 1]
  <2>1. t \in Seq(S) /\ Len(t) = Len(s) - 1
    BY RemoveAtIs
  <2>2. \A i \in 1 .. Len(s) - 1 : t[i] = IF i < k THEN s[i] ELSE s[i + 1]
    BY RemoveAtIs
  <2> QED
    BY <2>1, <2>2
<1> HIDE DEF t
<1>2. ASSUME NEW i \in 1 .. Len(t) PROVE at(i) \in 1 .. Len(s) /\ at(i) # k /\ t[i] = s[at(i)]
  BY <1>1
<1>3. ASSUME NEW i \in 1 .. Len(t), NEW m \in 1 .. Len(t) PROVE i < m <=> at(i) < at(m)
  <2>1. i \in Int /\ m \in Int /\ k \in Int
    BY <1>1
  <2> QED BY <2>1
<1> HIDE DEF at
<1>4. Distinct(t)
  <2>1. ASSUME NEW i \in 1 .. Len(t), NEW m \in 1 .. Len(t), t[i] = t[m] PROVE i = m
    <3>1. at(i) = at(m)
      BY <1>2, <2>1 DEF Distinct
    <3>2. ~(i < m) /\ ~(m < i)
      BY <1>2, <1>3, <3>1
    <3> QED BY <1>1, <3>2
  <2> QED BY <2>1 DEF Distinct
<1>5. ToSet(t) = ToSet(s) \ {s[k]}
  <2>1. ASSUME NEW i \in 1 .. Len(t) PROVE t[i] \in ToSet(s) \ {s[k]}
    BY <1>2, ToSetIs DEF Distinct
  <2>2. ASSUME NEW m \in 1 .. Len(s), s[m] # s[k] PROVE \E i \in 1 .. Len(t) : t[i] = s[m]
    <3>1. m # k
      BY <2>2
    <3> DEFINE i == IF m < k THEN m ELSE m - 1
    <3>2. i \in 1 .. Len(t) /\ at(i) = m
      BY <1>1, <3>1 DEF at
    <3> QED BY <1>2, <3>2
  <2>3. ToSet(t) = {t[i] : i \in 1 .. Len(t)} /\ ToSet(s) = {s[i] : i \in 1 .. Len(s)}
    BY <1>1, ToSetIs
  <2> QED BY <2>1, <2>2, <2>3
<1>6. ASSUME NEW P, NewestLast(s, P) PROVE NewestLast(t, P)
  BY <1>2, <1>3, <1>6 DEF NewestLast
<1> QED BY <1>1, <1>4, <1>5, <1>6 DEF t

\* A new entry is put at the end.
LEMMA PutLast ==
    ASSUME NEW S, NEW s \in Seq(S), Distinct(s), NEW x \in S, x \notin ToSet(s)
    PROVE  /\ Append(s, x) \in Seq(S) /\ Distinct(Append(s, x))
           /\ ToSet(Append(s, x)) = ToSet(s) \cup {x}
           /\ \A P : NewestLast(s, P) /\ x \in P => NewestLast(Append(s, x), P)
<1> DEFINE t == Append(s, x)
<1>1. /\ t \in Seq(S) /\ Len(t) = Len(s) + 1 /\ Len(s) \in Nat /\ t[Len(t)] = x
      /\ \A i \in 1 .. Len(s) : t[i] = s[i] /\ t[i] # x
  BY AppendProperties, ToSetIs
<1> HIDE DEF t
<1>2. \A i \in 1 .. Len(t) : i = Len(t) \/ i \in 1 .. Len(s)
  BY <1>1
<1>3. Distinct(t)
  BY <1>1, <1>2 DEF Distinct
<1>4. ToSet(t) = ToSet(s) \cup {x}
  <2>1. ToSet(t) = {t[i] : i \in 1 .. Len(t)} /\ ToSet(s) = {s[i] : i \in 1 .. Len(s)}
    BY <1>1, ToSetIs
  <2>2. Len(t) \in 1 .. Len(t) /\ \A i \in 1 .. Len(s) : i \in 1 .. Len(t)
    BY <1>1
  <2> QED BY <1>1, <1>2, <2>1, <2>2
<1>5. ASSUME NEW P, NewestLast(s, P), x \in P PROVE NewestLast(t, P)
  BY <1>1, <1>2, <1>5 DEF NewestLast
<1> QED BY <1>1, <1>3, <1>4, <1>5 DEF t

\* As many slabs as entries.
LEMMA DistinctCard ==
    ASSUME NEW S, NEW s \in Seq(S), Distinct(s)
    PROVE  Cardinality(ToSet(s)) = Len(s)
<1>1. Len(s) \in Nat /\ ToSet(s) = {s[i] : i \in 1 .. Len(s)} /\ s \in [1 .. Len(s) -> S]
  BY ToSetIs, LenProperties
<1>2. s \in [1 .. Len(s) -> ToSet(s)]
  BY <1>1
<1>3. s \in Injection(1 .. Len(s), ToSet(s))
  BY <1>2 DEF Injection, IsInjective, Distinct
<1>4. s \in Surjection(1 .. Len(s), ToSet(s))
  BY <1>1, <1>2 DEF Surjection
<1>5. IsFiniteSet(1 .. Len(s)) /\ Cardinality(1 .. Len(s)) = Len(s)
  BY <1>1, FS_Interval
<1>6. IsFiniteSet(ToSet(s))
  BY <1>4, <1>5, FS_Surjection
<1> QED BY <1>3, <1>4, <1>5, <1>6, FS_Injection

-----------------------------------------------------------------------------
(* The inductive invariant *)

TypedArgs ==
    /\ setup \in DOMAIN Setups
    /\ trace \in [1 .. NRequests -> Requests]
    /\ policy \in Setups[setup].policies

TypedCache ==
    /\ recency \in Seq(Slabs) /\ pinned \in SUBSET Slabs /\ used \in Nat
    /\ score \in [DOMAIN score -> Nat \ {0}] /\ DOMAIN score \in SUBSET Slabs /\ since \in Nat

TypedReplay ==
    /\ hits \in Nat /\ misses \in Nat /\ evictions \in Nat /\ fetched \in Nat /\ skipped \in Nat
    /\ n \in 1 .. NRequests + 1 /\ j \in 1 .. TopK + 1
    /\ want \in SUBSET (0 .. NSlots - 1) /\ queue \in Seq(want)
    /\ rep \in 1 .. Setups[setup].reps + 1
    /\ reports \in Seq([hits : Nat, misses : Nat, fetched : Nat]) /\ Len(reports) = rep - 1
    /\ pc \in {"preload", "touch", "admit", "report", "done", "failed"}

Typed == TypedArgs /\ TypedCache /\ TypedReplay

\* What the program counter says of the rest; the slots wanted are those of requests touched.
Phases ==
    /\ pc \in {"touch", "admit"} => n <= NRequests
    /\ pc = "admit" => j = TopK + 1
    /\ pc # "admit" => queue = <<>>
    /\ pc \in {"preload", "report", "done"} => want = {}
    /\ pc # "done" => rep <= Setups[setup].reps
    /\ policy = "static" => queue = <<>>
    /\ \A slot \in want : \E k \in 1 .. j - 1 : slot = trace[n].ids[k]

\* The budget, with the sum over the resident slabs as FiniteFacts has it.  That the pinned slabs
\* fit by themselves is what brings `used` back below the cap once the one slab beside them goes.
Budget ==
    /\ Distinct(recency)
    /\ used = SumOver(Sizes, Resident)
    /\ SumOver(Sizes, pinned) <= Cap
    /\ pinned \in SUBSET Resident
    /\ policy = "static" => Resident = pinned
    /\ used > Cap => pinned # {} /\ \E x \in Resident : Evictable = {x}

\* The scores are at most those of a halflife of accesses, and of the accesses since.
Scored ==
    /\ Halflife = 0 => since = 0
    /\ Halflife > 0 => since < Halflife /\ SumOver(score, DOMAIN score) <= (Halflife + since) * Scale

Touched == {Slab(n, trace[n].ids[k]) : k \in 1 .. j - 1}

\* The slabs of this request that are resident are the newest; each is resident, skipped or
\* wanted, and one that is wanted stays in the queue until it is resident.
Served ==
    /\ pc \in {"touch", "admit"} => NewestLast(recency, Touched)
    /\ pc = "touch" =>
        \A k \in 1 .. j - 1 : LET slot == trace[n].ids[k]
                              IN  Slab(n, slot) \in Resident \/ slot \in want \/ Skips(slot)
    /\ pc = "admit" /\ policy \in {"lru", "hybrid"} /\ SumOver(Sizes, Asked \cup pinned) <= Cap =>
        \A k \in 1 .. TopK : LET slot == trace[n].ids[k]
                             IN  Slab(n, slot) \in Resident \/ slot \in ToSet(queue) \/ Skips(slot)

IInv == Typed /\ Phases /\ Budget /\ Scored /\ Served /\ Accounted

-----------------------------------------------------------------------------
(* What the parts of the invariant give the steps *)

\* No step changes the command line, the model or the trace.
LEMMA ArgsStay == ASSUME [Next]_vars PROVE UNCHANGED args
BY DEF Next, vars, args, cache, Preload, Hit, Miss, StartAdmit, Pass, Evict, Refuse, Insert, Read,
       ReadFails, Report

\* With the arguments everything computed from them is unchanged.
LEMMA Same ==
    ASSUME UNCHANGED args
    PROVE  /\ setup' = setup /\ trace' = trace /\ policy' = policy
           /\ NLayers' = NLayers /\ NSlots' = NSlots /\ TopK' = TopK /\ NRequests' = NRequests
           /\ Cap' = Cap /\ Halflife' = Halflife /\ Scale' = Scale /\ Slabs' = Slabs /\ Sizes' = Sizes
           /\ \A m, slot : Slab(m, slot)' = Slab(m, slot)
<1>1. setup' = setup /\ trace' = trace /\ policy' = policy
  BY DEF args
<1>2. /\ NLayers' = NLayers /\ NSlots' = NSlots /\ TopK' = TopK /\ Tokens' = Tokens
      /\ Cap' = Cap /\ Halflife' = Halflife
  BY <1>1 DEF NLayers, NSlots, TopK, Tokens, Cap, Halflife
<1>3. NRequests' = NRequests
  BY <1>2 DEF NRequests
<1>4. Scale' = Scale
  BY <1>2, <1>3 DEF Scale
<1>5. Slabs' = Slabs
  BY <1>2 DEF Slabs, Layers
<1>6. Sizes' = Sizes
  BY <1>1, <1>5 DEF Sizes, Size
<1>7. ASSUME NEW m, NEW slot PROVE Slab(m, slot)' = Slab(m, slot)
  BY <1>2 DEF Slab, LayerAt
<1> QED BY <1>1, <1>2, <1>3, <1>4, <1>5, <1>6, <1>7

\* A resident slab has one place, and is taken out alone.
LEMMA PlaceIs ==
    ASSUME Typed, Distinct(recency), NEW x \in Resident
    PROVE  /\ Place(x) \in 1 .. Len(recency) /\ recency[Place(x)] = x
           /\ \A k \in 1 .. Len(recency) : recency[k] = x => k = Place(x)
           /\ x \in Slabs
<1>1. recency \in Seq(Slabs)
  BY DEF Typed, TypedArgs, TypedCache, TypedReplay
<1>2. \E k \in 1 .. Len(recency) : recency[k] = x
  BY <1>1, ToSetIs DEF Resident
<1>3. Place(x) \in 1 .. Len(recency) /\ recency[Place(x)] = x
  BY <1>2 DEF Place
<1> QED BY <1>1, <1>3 DEF Distinct

\* Removing a slab from the recency list leaves the others in their order.
LEMMA WithoutIs ==
    ASSUME Typed, Distinct(recency), NEW x \in Resident
    PROVE  /\ Without(x) \in Seq(Slabs) /\ Distinct(Without(x)) /\ ToSet(Without(x)) = Resident \ {x}
           /\ \A P : NewestLast(recency, P) => NewestLast(Without(x), P)
<1>1. recency \in Seq(Slabs)
  BY DEF Typed, TypedArgs, TypedCache, TypedReplay
<1>2. Place(x) \in 1 .. Len(recency) /\ recency[Place(x)] = x
  BY PlaceIs
<1> QED BY <1>1, <1>2, TakenOut DEF Without, Resident

\* The request at hand names TopK slots of the layer, each once.
LEMMA RequestIs ==
    ASSUME Typed, n <= NRequests
    PROVE  /\ \A k \in 1 .. TopK : /\ trace[n].ids[k] \in 0 .. NSlots - 1
                                   /\ Slab(n, trace[n].ids[k]) \in Slabs
           /\ \A i, k \in 1 .. TopK : trace[n].ids[i] = trace[n].ids[k] => i = k
           /\ \A k \in 1 .. TopK : \A slot : Slab(n, slot) = Slab(n, trace[n].ids[k]) => slot = trace[n].ids[k]
<1>1. setup \in DOMAIN Setups /\ NRequests \in Nat \ {0} /\ TopK \in Nat \ {0}
  BY Parameters DEF Typed, TypedArgs, TypedCache, TypedReplay
<1>2. n \in Nat \ {0} /\ trace[n] \in Requests
  BY <1>1 DEF Typed, TypedArgs, TypedCache, TypedReplay
<1>3. \A k \in 1 .. TopK : trace[n].ids[k] \in 0 .. NSlots - 1
  BY <1>2 DEF Requests
<1>4. \A i, k \in 1 .. TopK : trace[n].ids[i] = trace[n].ids[k] => i = k
  BY <1>2 DEF Requests
<1>5. \A k \in 1 .. TopK : Slab(n, trace[n].ids[k]) \in Slabs
  BY <1>1, <1>2, <1>3, SlabIn
<1>6. \A a, b : Slab(n, a) = Slab(n, b) => a = b
  BY DEF Slab
<1> QED BY <1>3, <1>4, <1>5, <1>6

\* What was asked for so far are slabs of the model.
LEMMA AskedSlabs == ASSUME Typed, n <= NRequests PROVE Asked \in SUBSET Slabs
BY RequestIs DEF Asked

\* A slab of a set is no larger than the set.
LEMMA SizeInSum ==
    ASSUME setup \in DOMAIN Setups, NEW S \in SUBSET Slabs, NEW x \in S
    PROVE  Size(x) <= SumOver(Sizes, S)
<1>1. SumOver(Sizes, S) = Size(x) + SumOver(Sizes, S \ {x})
  BY SizesSum
<1>2. S \ {x} \in SUBSET Slabs /\ x \in Slabs
  OBVIOUS
<1>3. SumOver(Sizes, S \ {x}) \in Nat /\ Size(x) \in Nat
  BY <1>2, SizesSum, Parameters
<1> QED BY <1>1, <1>3

\* A sequence holds its head and what its tail holds.
LEMMA HeadFirst ==
    ASSUME NEW S, NEW s \in Seq(S), s # <<>>
    PROVE  ToSet(s) = ToSet(Tail(s)) \cup {Head(s)}
<1> DEFINE t == Tail(s)
<1>1. /\ Len(t) = Len(s) - 1 /\ Len(s) \in Nat \ {0} /\ t \in Seq(S)
      /\ \A i \in 1 .. Len(t) : t[i] = s[i + 1]
      /\ Head(s) = s[1]
  BY HeadTailProperties
<1> HIDE DEF t
<1>2. /\ ToSet(s) = {s[i] : i \in 1 .. Len(s)}
      /\ ToSet(t) = {t[i] : i \in 1 .. Len(t)}
  BY <1>1, ToSetIs
<1>3. ASSUME NEW i \in 1 .. Len(s) PROVE s[i] \in ToSet(t) \cup {Head(s)}
  <2>1. CASE i = 1
    BY <1>1, <2>1
  <2>2. CASE i # 1
    <3>1. i - 1 \in 1 .. Len(t) /\ (i - 1) + 1 = i
      BY <1>1, <2>2
    <3> QED BY <1>1, <1>2, <3>1
  <2> QED BY <2>1, <2>2
<1>4. ASSUME NEW i \in 1 .. Len(t) PROVE t[i] \in ToSet(s)
  <2>1. i + 1 \in 1 .. Len(s)
    BY <1>1
  <2> QED BY <1>1, <1>2, <2>1
<1>5. Head(s) \in ToSet(s)
  BY <1>1, <1>2
<1> QED BY <1>2, <1>3, <1>4, <1>5 DEF t

\* The next slot to admit is one the request wants, so one of its slots.
LEMMA NewcomerIs ==
    ASSUME Typed, Phases, pc = "admit", queue # <<>>
    PROVE  /\ n <= NRequests /\ policy # "static"
           /\ Head(queue) \in want /\ Tail(queue) \in Seq(want)
           /\ ToSet(queue) = ToSet(Tail(queue)) \cup {Head(queue)}
           /\ Newcomer \in Slabs /\ Newcomer \in Asked /\ Asked = Touched
<1>1. Head(queue) \in want /\ Tail(queue) \in Seq(want) /\ queue \in Seq(want)
  BY HeadTailProperties DEF Typed, TypedArgs, TypedCache, TypedReplay
<1>2. n <= NRequests /\ j = TopK + 1 /\ policy # "static"
  BY DEF Phases
<1>3. PICK k \in 1 .. TopK : Head(queue) = trace[n].ids[k]
  <2>1. TopK \in Nat
    BY Parameters DEF Typed, TypedArgs, TypedCache, TypedReplay
  <2>2. \E k \in 1 .. j - 1 : Head(queue) = trace[n].ids[k]
    BY <1>1 DEF Phases
  <2> QED BY <1>2, <2>1, <2>2
<1>4. Newcomer \in Slabs /\ Newcomer \in Asked
  BY <1>2, <1>3, RequestIs DEF Newcomer, Asked
<1>5. ToSet(queue) = ToSet(Tail(queue)) \cup {Head(queue)}
  BY <1>1, HeadFirst
<1>6. Asked = Touched
  <2>1. TopK \in Nat
    BY Parameters DEF Typed, TypedArgs, TypedCache, TypedReplay
  <2>2. 1 .. TopK = 1 .. j - 1
    BY <1>2, <2>1
  <2> QED BY <2>2 DEF Asked, Touched
<1> QED BY <1>1, <1>2, <1>4, <1>5, <1>6

-----------------------------------------------------------------------------
(* What is pinned fits, and where something may be evicted the policy finds a victim *)

\* A slab is used a natural number of times in the first half of the trace.
LEMMA CountNat == ASSUME Typed, NEW x \in Slabs PROVE Count(x) \in Nat
<1>1. Half * NLayers \in Int /\ TopK \in Int
  <2>1. Tokens \in Nat \ {0} /\ NLayers \in Nat \ {0} /\ TopK \in Nat \ {0}
    BY Parameters DEF Typed, TypedArgs, TypedCache, TypedReplay
  <2>2. {1, Tokens \div 2} \in SUBSET Int
    BY <2>1
  <2>3. Half \in {1, Tokens \div 2}
    <3> DEFINE d == Tokens \div 2
    <3>1. d \in Int
      BY <2>1
    <3> HIDE DEF d
    <3>2. \E m \in {1, d} : \A y \in {1, d} : m >= y
      BY <3>1
    <3>3. Half = Max({1, d})
      BY DEF Half, d
    <3>4. Max({1, d}) \in {1, d}
      BY <3>2 DEF Max
    <3> QED BY <3>3, <3>4 DEF d
  <2> QED BY <2>1, <2>2, <2>3
<1>2. IsFiniteSet((1 .. Half * NLayers) \X (1 .. TopK))
  <2>1. IsFiniteSet(1 .. Half * NLayers) /\ IsFiniteSet(1 .. TopK)
    BY <1>1, FS_Interval
  <2> QED BY <2>1, FS_Product
<1> DEFINE at == {p \in (1 .. Half * NLayers) \X (1 .. TopK) : Slab(p[1], trace[p[1]].ids[p[2]]) = x}
<1>3. IsFiniteSet(at)
  BY <1>2, FS_Subset
<1>4. Count(x) = Cardinality(at)
  BY DEF Count
<1> HIDE DEF at
<1> QED BY <1>3, <1>4, FS_CardinalityType

\* Hotter orders the slabs.
LEMMA HotterOrders ==
    ASSUME Typed
    PROVE  /\ \A x \in Slabs : ~ Hotter(x, x)
           /\ \A x, y \in Slabs : x = y \/ Hotter(x, y) \/ Hotter(y, x)
           /\ \A x, y, z \in Slabs : Hotter(x, y) /\ Hotter(y, z) => Hotter(x, z)
<1>1. \A x \in Slabs : Count(x) \in Nat
  BY CountNat
<1>2. NLayers \in Nat /\ NSlots \in Nat
  BY Parameters DEF Typed, TypedArgs, TypedCache, TypedReplay
<1>3. \A x \in Slabs : x = <<x[1], x[2]>> /\ x[1] \in Int /\ x[2] \in Int
  BY <1>2 DEF Slabs, Layers
<1>4. /\ \A x \in Slabs : ~ Before(x, x)
      /\ \A x, y \in Slabs : x = y \/ Before(x, y) \/ Before(y, x)
      /\ \A x, y, z \in Slabs : Before(x, y) /\ Before(y, z) => Before(x, z)
  BY <1>3 DEF Before
<1> QED BY <1>1, <1>4 DEF Hotter

\* The pinned slabs fit in the budget: the coldest of them has all of them up to it.
LEMMA PinsFit ==
    ASSUME Typed
    PROVE  /\ Pins \in SUBSET Slabs /\ SumOver(Sizes, Pins) <= Cap
           /\ policy \notin {"static", "hybrid"} => Pins = {}
<1> DEFINE seen == {x \in Slabs : Count(x) > 0}
           upTo(x) == {y \in seen : y = x \/ Hotter(y, x)}
           budget == IF policy = "hybrid" THEN Min({Setups[setup].pin, Cap}) ELSE Cap
           R == {p \in Pins \X Pins : Hotter(p[2], p[1])}
<1>1. setup \in DOMAIN Setups /\ Cap \in Nat /\ Setups[setup].pin \in Nat
  BY Parameters DEF Typed, TypedArgs, TypedCache, TypedReplay
<1>2. budget \in Int /\ budget <= Cap
  <2> DEFINE p == Setups[setup].pin
  <2> HIDE DEF p
  <2>1. p \in Nat
    BY <1>1 DEF p
  <2>2. \E x \in {p, Cap} : \A y \in {p, Cap} : x <= y
    BY <1>1, <2>1
  <2>3. Min({p, Cap}) \in {p, Cap} /\ Min({p, Cap}) <= Cap
    BY <2>2 DEF Min
  <2>4. Min({p, Cap}) \in Int
    BY <1>1, <2>1, <2>3
  <2> QED BY <1>1, <2>3, <2>4 DEF p
<1>3. Pins \in SUBSET seen /\ seen \in SUBSET Slabs
  BY DEF Pins
<1>4. ASSUME NEW z \in Pins PROVE SumOver(Sizes, upTo(z)) <= Cap
  <2>1. z \in seen /\ z \in upTo(z) /\ upTo(z) \in SUBSET Slabs
    BY <1>3
  <2>2. SizeOf(upTo(z)) <= budget
    BY <2>1 DEF Pins
  <2>3. SizeOf(upTo(z)) = SumOver(Sizes, upTo(z)) /\ SumOver(Sizes, upTo(z)) \in Nat
    BY <1>1, <2>1, SizeOfIs, SizesSum
  <2> HIDE DEF upTo, budget
  <2> QED BY <1>1, <1>2, <2>2, <2>3
<1>5. CASE Pins = {}
  BY <1>1, <1>5, SumEmpty
<1>6. CASE Pins # {}
  <2>1. IsFiniteSet(Pins)
    BY <1>1, <1>3, SizesSum
  <2>2. PICK z \in Pins : \A y \in Pins : <<y, z>> \notin R
    <3>1. R \in SUBSET (Pins \X Pins)
      OBVIOUS
    <3>2. \A x, y \in Pins : <<x, y>> \in R <=> Hotter(y, x)
      OBVIOUS
    <3>3. Pins \in SUBSET Slabs
      BY <1>3
    <3> HIDE DEF R
    <3>4. /\ \A x \in Pins : <<x, x>> \notin R
          /\ \A x, y, w \in Pins : <<x, y>> \in R /\ <<y, w>> \in R => <<x, w>> \in R
      BY <3>2, <3>3, HotterOrders
    <3> QED BY <1>6, <2>1, <3>1, <3>4, FirstExists
  <2>3. \A y \in Pins : ~ Hotter(z, y)
    BY <2>2
  <2>4. Pins \in SUBSET upTo(z)
    BY <1>3, <2>3, HotterOrders
  <2>5. upTo(z) \in SUBSET Slabs
    BY <1>3
  <2>6. SumOver(Sizes, Pins) <= SumOver(Sizes, upTo(z)) /\ SumOver(Sizes, upTo(z)) \in Nat /\ SumOver(Sizes, Pins) \in Nat
    <3> HIDE DEF upTo
    <3>1. Pins \in SUBSET Slabs
      BY <1>3
    <3> QED BY <1>1, <2>4, <2>5, <3>1, SizesSum
  <2>7. SumOver(Sizes, upTo(z)) <= Cap
    BY <1>4
  <2> HIDE DEF upTo
  <2> QED BY <1>1, <1>3, <2>6, <2>7 DEF Pins
<1> QED BY <1>3, <1>5, <1>6 DEF Pins

\* Something is the smallest by any measure.
LEMMA SmallestExists ==
    ASSUME NEW S, IsFiniteSet(S), S # {}, NEW f, \A x \in S : f[x] \in Int
    PROVE  \E z \in S : \A y \in S : f[z] <= f[y]
<1> DEFINE R == {p \in S \X S : f[p[1]] < f[p[2]]}
<1>1. R \in SUBSET (S \X S)
  OBVIOUS
<1>2. \A x, y \in S : <<x, y>> \in R <=> f[x] < f[y]
  OBVIOUS
<1> HIDE DEF R
<1>3. PICK z \in S : \A y \in S : <<y, z>> \notin R
  <2>1. /\ \A x \in S : <<x, x>> \notin R
        /\ \A x, y, w \in S : <<x, y>> \in R /\ <<y, w>> \in R => <<x, w>> \in R
    BY <1>2
  <2> QED BY <1>1, <2>1, FirstExists
<1>4. ASSUME NEW y \in S PROVE f[z] <= f[y]
  <2>1. ~ (f[y] < f[z]) /\ f[y] \in Int /\ f[z] \in Int
    BY <1>2, <1>3
  <2> QED BY <2>1
<1> QED BY <1>4

\* The loop gives up only where every resident slab is pinned.
LEMMA VictimExists ==
    ASSUME Typed, Distinct(recency), Victims = {}
    PROVE  Evictable = {}
<1>1. SUFFICES ASSUME Evictable # {} PROVE FALSE
  OBVIOUS
<1>2. Evictable \in SUBSET Slabs /\ IsFiniteSet(Evictable)
  <2>1. Evictable \in SUBSET Slabs
    BY PlaceIs DEF Evictable
  <2> QED BY <2>1, SizesSum DEF Typed, TypedArgs, TypedCache, TypedReplay
<1>3. Coldest # {}
  <2> DEFINE f == [x \in Evictable |-> ScoreOf(score, x)]
  <2>1. \A x \in Evictable : f[x] \in Int /\ f[x] = ScoreOf(score, x)
    BY DEF ScoreOf, Typed, TypedArgs, TypedCache, TypedReplay
  <2> HIDE DEF f
  <2>2. \E z \in Evictable : \A y \in Evictable : f[z] <= f[y]
    BY <1>1, <1>2, <2>1, SmallestExists
  <2> QED BY <2>1, <2>2 DEF Coldest
<1>4. Oldest # {}
  <2> DEFINE f == [x \in Evictable |-> Place(x)]
  <2>1. \A x \in Evictable : f[x] \in Int /\ f[x] = Place(x)
    BY PlaceIs DEF Evictable
  <2> HIDE DEF f
  <2>2. \E z \in Evictable : \A y \in Evictable : f[z] <= f[y]
    BY <1>1, <1>2, <2>1, SmallestExists
  <2> QED BY <2>1, <2>2 DEF Oldest
<1> QED BY <1>1, <1>3, <1>4 DEF Victims

\* A victim is resident and not pinned.
LEMMA VictimIs == ASSUME NEW x \in Victims PROVE x \in Resident \ pinned
BY DEF Victims, Coldest, Oldest, Evictable

-----------------------------------------------------------------------------
(* Ageing *)

\* A power of two is positive: it counts the subsets of a finite set.
LEMMA ScalePositive == ASSUME Typed PROVE Scale \in Nat \ {0}
<1> DEFINE m == IF Halflife = 0 THEN 0 ELSE (NRequests * TopK) \div Halflife
<1>1. m \in Nat
  <2>1. Halflife \in Nat /\ NRequests \in Nat /\ TopK \in Nat
    BY Parameters DEF Typed, TypedArgs, TypedCache, TypedReplay
  <2>2. NRequests * TopK \in Nat
    BY <2>1
  <2> QED BY <2>1, <2>2
<1> HIDE DEF m
<1>2. IsFiniteSet(1 .. m) /\ Cardinality(1 .. m) = m
  BY <1>1, FS_Interval
<1>3. IsFiniteSet(SUBSET (1 .. m)) /\ Cardinality(SUBSET (1 .. m)) = 2 ^ m
  BY <1>2, FS_SUBSET
<1>4. Cardinality(SUBSET (1 .. m)) \in Nat /\ Cardinality(SUBSET (1 .. m)) # 0
  BY <1>3, FS_CardinalityType, FS_EmptySet
<1> QED BY <1>3, <1>4 DEF Scale, m

\* An access adds one to the sum of the scores.
LEMMA SumBump ==
    ASSUME NEW D, IsFiniteSet(D), NEW f \in [D -> Nat], NEW e, NEW c \in Nat, NEW g,
           g = [x \in D \cup {e} |-> (IF x \in D THEN f[x] ELSE 0) + (IF x = e THEN c ELSE 0)]
    PROVE  SumOver(g, D \cup {e}) = SumOver(f, D) + c
<1> DEFINE rest == D \ {e}
<1>1. IsFiniteSet(rest) /\ IsFiniteSet(D \cup {e})
  BY FS_Subset, FS_AddElement
<1>2. \A x \in D \cup {e} : g[x] \in Nat
  OBVIOUS
<1>3. SumOver(g, D \cup {e}) = g[e] + SumOver(g, rest)
  <2>1. (D \cup {e}) \ {e} = rest
    OBVIOUS
  <2> HIDE DEF rest
  <2> QED BY <1>1, <1>2, <2>1, SumRemove
<1>4. SumOver(g, rest) = SumOver(f, rest) /\ SumOver(f, rest) \in Nat
  <2>1. \A x \in rest : g[x] = f[x] /\ g[x] \in Nat /\ f[x] \in Nat
    OBVIOUS
  <2> HIDE DEF rest
  <2> QED BY <1>1, <2>1, SumEqual, SumNat
<1>5. CASE e \in D
  <2>1. SumOver(f, D) = f[e] + SumOver(f, rest)
    BY <1>5, SumRemove
  <2>2. g[e] = f[e] + c /\ f[e] \in Nat
    BY <1>5
  <2> HIDE DEF rest
  <2> QED BY <1>3, <1>4, <2>1, <2>2
<1>6. CASE e \notin D
  <2>1. rest = D /\ g[e] = c
    BY <1>6
  <2> QED BY <1>3, <1>4, <2>1
<1> QED BY <1>5, <1>6

\* Ageing halves the scores, at least.
LEMMA AgedIs ==
    ASSUME Typed, NEW D, IsFiniteSet(D), NEW f \in [D -> Nat]
    PROVE  /\ DOMAIN Aged(f) \in SUBSET D /\ Aged(f) \in [DOMAIN Aged(f) -> Nat \ {0}]
           /\ SumOver(f, D) \in Nat /\ SumOver(Aged(f), DOMAIN Aged(f)) \in Nat
           /\ 2 * SumOver(Aged(f), DOMAIN Aged(f)) <= SumOver(f, D)
<1> DEFINE halved == [x \in D |-> f[x] \div 2]
           kept == {x \in D : halved[x] * Setups[setup].dropDen > Scale}
           aged == [x \in kept |-> halved[x]]
<1>1. Aged(f) = aged
  BY DEF Aged
<1>2. \A x \in D : f[x] \in Nat /\ halved[x] \in Nat /\ 2 * halved[x] <= f[x]
  OBVIOUS
<1>3. Scale \in Nat \ {0} /\ Setups[setup].dropDen \in Nat
  BY Parameters, ScalePositive DEF Typed, TypedArgs, TypedCache, TypedReplay
<1>4. kept \in SUBSET D /\ DOMAIN aged = kept /\ IsFiniteSet(kept)
  BY FS_Subset
<1>5. \A x \in kept : halved[x] # 0 /\ halved[x] \in Nat
  BY <1>2, <1>3
<1>6. aged \in [kept -> Nat \ {0}] /\ \A x \in kept : aged[x] = halved[x]
  BY <1>5
<1> HIDE DEF halved, kept, aged
<1>7. SumOver(aged, kept) = SumOver(halved, kept)
  BY <1>4, <1>5, <1>6, SumEqual
<1>8. SumOver(halved, kept) <= SumOver(halved, D) /\ SumOver(halved, kept) \in Nat /\ SumOver(halved, D) \in Nat
  BY <1>2, <1>4, <1>5, SumMonotone, SumNat
<1>9. 2 * SumOver(halved, D) <= SumOver(f, D) /\ SumOver(f, D) \in Nat
  BY <1>2, SumHalves, SumNat
<1> QED BY <1>1, <1>4, <1>6, <1>7, <1>8, <1>9

\* An access keeps the bound on the scores.
LEMMA ObserveKeeps ==
    ASSUME Typed, Scored, NEW slab \in Slabs, Observe(slab), UNCHANGED args
    PROVE  /\ score' \in [DOMAIN score' -> Nat \ {0}] /\ DOMAIN score' \in SUBSET Slabs /\ since' \in Nat
           /\ Scored'
<1> DEFINE D == DOMAIN score
           seen == [x \in D \cup {slab} |-> ScoreOf(score, x) + (IF x = slab THEN Scale ELSE 0)]
           ages == Halflife > 0 /\ since + 1 >= Halflife
<1>1. /\ setup \in DOMAIN Setups /\ Scale \in Nat \ {0} /\ Halflife \in Nat /\ since \in Nat
      /\ D \in SUBSET Slabs /\ score \in [D -> Nat \ {0}] /\ IsFiniteSet(D)
  <2>1. setup \in DOMAIN Setups /\ since \in Nat /\ D \in SUBSET Slabs /\ score \in [D -> Nat \ {0}]
    BY DEF Typed, TypedArgs, TypedCache, TypedReplay
  <2> HIDE DEF D
  <2> QED BY <2>1, ScalePositive, Parameters, SizesSum
<1>2. Halflife' = Halflife /\ Scale' = Scale
  BY Same
<1>3. CASE policy # "decayed"
  <2>1. score' = score /\ since' = since
    BY <1>3 DEF Observe
  <2> QED BY <1>1, <1>2, <2>1 DEF Scored
<1>4. CASE policy = "decayed"
  <2>1. /\ score' = IF ages THEN Aged(seen) ELSE seen
        /\ since' = IF Halflife = 0 \/ ages THEN 0 ELSE since + 1
    BY <1>4 DEF Observe
  <2>2. /\ seen \in [D \cup {slab} -> Nat \ {0}] /\ D \cup {slab} \in SUBSET Slabs
        /\ IsFiniteSet(D \cup {slab})
    <3>1. \A x \in D \cup {slab} : ScoreOf(score, x) + (IF x = slab THEN Scale ELSE 0) \in Nat \ {0}
      BY <1>1 DEF ScoreOf
    <3>2. IsFiniteSet(D \cup {slab})
      BY <1>1, FS_AddElement
    <3> HIDE DEF D
    <3> QED BY <1>1, <3>1, <3>2
  <2>3. SumOver(seen, D \cup {slab}) = SumOver(score, D) + Scale /\ SumOver(score, D) \in Nat
    <3>1. seen = [x \in D \cup {slab} |-> (IF x \in D THEN score[x] ELSE 0) + (IF x = slab THEN Scale ELSE 0)]
      BY DEF ScoreOf
    <3>2. score \in [D -> Nat] /\ \A x \in D : score[x] \in Nat
      BY <1>1
    <3> HIDE DEF seen, D
    <3>3. SumOver(score, D) \in Nat
      BY <1>1, <3>2, SumNat
    <3>4. Scale \in Nat
      BY <1>1
    <3> QED BY <1>1, <3>1, <3>2, <3>3, <3>4, SumBump
  <2>4. DOMAIN seen = D \cup {slab}
    OBVIOUS
  <2> HIDE DEF seen
  <2>5. CASE ages
    <3>1. since + 1 = Halflife => SumOver(seen, D \cup {slab}) <= 2 * Halflife * Scale
      <4>1. since + 1 = Halflife => (Halflife + since) * Scale + Scale = 2 * Halflife * Scale
        BY <1>1
      <4>2. Halflife > 0 => SumOver(score, D) <= (Halflife + since) * Scale
        BY DEF Scored
      <4>3. (Halflife + since) * Scale \in Nat /\ 2 * Halflife * Scale \in Nat
        BY <1>1
      <4> HIDE DEF D
      <4> QED BY <1>1, <2>3, <2>5, <4>1, <4>2, <4>3
    <3>2. since + 1 = Halflife /\ since' = 0
      BY <1>1, <2>1, <2>5 DEF Scored
    <3>3. score' = Aged(seen)
      BY <2>1, <2>5
    <3>4. seen \in [D \cup {slab} -> Nat]
      BY <2>2
    <3>5. /\ DOMAIN score' \in SUBSET (D \cup {slab}) /\ score' \in [DOMAIN score' -> Nat \ {0}]
          /\ SumOver(score', DOMAIN score') \in Nat
          /\ 2 * SumOver(score', DOMAIN score') <= SumOver(seen, D \cup {slab})
      <4> HIDE DEF D
      <4> QED BY <2>2, <3>3, <3>4, AgedIs
    <3>6. SumOver(seen, D \cup {slab}) \in Nat
      <4> HIDE DEF D
      <4> QED BY <1>1, <2>3
    <3>7. SumOver(score', DOMAIN score') <= Halflife * Scale
      <4>1. Halflife * Scale \in Nat /\ 2 * Halflife * Scale = 2 * (Halflife * Scale)
        BY <1>1
      <4> HIDE DEF D
      <4> QED BY <3>1, <3>2, <3>5, <3>6, <4>1
    <3>8. Halflife + 0 = Halflife /\ Halflife # 0 /\ 0 < Halflife
      BY <1>1, <2>5
    <3> QED BY <1>2, <2>2, <3>2, <3>5, <3>7, <3>8 DEF Scored
  <2>6. CASE ~ages
    <3>1. score' = seen /\ DOMAIN score' = D \cup {slab}
      BY <2>1, <2>4, <2>6
    <3>2. CASE Halflife = 0
      BY <1>2, <2>1, <2>2, <3>1, <3>2 DEF Scored
    <3>3. CASE Halflife # 0
      <4>1. Halflife > 0 /\ since' = since + 1 /\ since + 1 < Halflife
        BY <1>1, <2>1, <2>6, <3>3
      <4>2. SumOver(score, D) <= (Halflife + since) * Scale
        BY <4>1 DEF Scored
      <4>3. (Halflife + (since + 1)) * Scale = (Halflife + since) * Scale + Scale
            /\ (Halflife + since) * Scale \in Nat
        BY <1>1
      <4>4. SumOver(seen, D \cup {slab}) <= (Halflife + (since + 1)) * Scale
        <5> HIDE DEF D
        <5> QED BY <1>1, <2>3, <4>2, <4>3
      <4> HIDE DEF D
      <4> QED BY <1>1, <1>2, <2>2, <3>1, <3>3, <4>1, <4>4 DEF Scored
    <3> QED BY <3>2, <3>3
  <2> QED BY <2>5, <2>6
<1> QED BY <1>3, <1>4

\* The bound that TypeOK states.
LEMMA ScoresBoundedFrom == ASSUME Typed, Scored PROVE ScoresBounded
<1>1. SUFFICES ASSUME Halflife > 0 PROVE SumOver(score, DOMAIN score) < 2 * Halflife * Scale
  BY <1>1 DEF ScoresBounded, SumOver
<1>2. Scale \in Nat \ {0} /\ Halflife \in Nat /\ since \in Nat
  BY ScalePositive, Parameters DEF Typed, TypedArgs, TypedCache, TypedReplay
<1>3. SumOver(score, DOMAIN score) <= (Halflife + since) * Scale /\ since < Halflife
  BY <1>1 DEF Scored
<1>4. SumOver(score, DOMAIN score) \in Nat
  BY SizesSum, SumNat DEF Typed, TypedArgs, TypedCache, TypedReplay
<1>5. (Halflife + since) * Scale < 2 * Halflife * Scale
  <2>1. \A a, b \in Nat : \A c \in Nat \ {0} : a < b => a * c < b * c
    OBVIOUS
  <2>2. Halflife + since < 2 * Halflife /\ Halflife + since \in Nat /\ 2 * Halflife \in Nat
    BY <1>2, <1>3
  <2> QED BY <1>2, <2>1, <2>2
<1>6. (Halflife + since) * Scale \in Nat /\ 2 * Halflife * Scale \in Nat
  BY <1>2
<1> QED BY <1>3, <1>4, <1>5, <1>6

-----------------------------------------------------------------------------
(* Every step keeps the invariant *)

LEMMA ArgsTyped == ASSUME TypedArgs, UNCHANGED args PROVE TypedArgs'
<1>1. /\ setup' = setup /\ trace' = trace /\ policy' = policy /\ NRequests' = NRequests
      /\ NSlots' = NSlots /\ TopK' = TopK
  BY Same
<1>2. Requests' = Requests
  BY <1>1 DEF Requests
<1> QED BY <1>1, <1>2 DEF TypedArgs

LEMMA CacheStays == ASSUME IInv, UNCHANGED <<args, cache>> PROVE Budget' /\ Scored'
<1>1. UNCHANGED <<recency, pinned, used, score, since>> /\ UNCHANGED args
  BY DEF cache
<1>2. policy' = policy /\ Cap' = Cap /\ Sizes' = Sizes /\ Halflife' = Halflife /\ Scale' = Scale
  BY <1>1, Same
<1>3. Resident' = Resident /\ Evictable' = Evictable
  BY <1>1 DEF Resident, Evictable
<1>4. Budget'
  BY <1>1, <1>2, <1>3 DEF IInv, Budget
<1>5. Scored'
  BY <1>1, <1>2 DEF IInv, Scored
<1> QED BY <1>4, <1>5

\* The first state is accounted for.
LEMMA IInvInit == ASSUME Init PROVE IInv
<1>1. setup \in DOMAIN Setups
  BY DEF Init
<1>2. /\ NRequests \in Nat \ {0} /\ TopK \in Nat \ {0} /\ Cap \in Nat /\ Halflife \in Nat
      /\ Setups[setup].reps \in Nat \ {0}
  BY <1>1, Parameters
<1>3. Resident = {} /\ Len(recency) = 0
  BY DEF Init, Resident, ToSet
<1>4. score = [x \in {} |-> 0] /\ DOMAIN score = {} /\ score \in [{} -> Nat \ {0}]
  BY DEF Init
<1>5. Typed
  BY <1>1, <1>2, <1>4 DEF Init, Typed, TypedArgs, TypedCache, TypedReplay
<1>6. Phases
  BY <1>2 DEF Init, Phases
<1>7. Budget
  <2>1. SumOver(Sizes, {}) = 0
    BY SumEmpty
  <2> QED BY <1>2, <1>3, <2>1 DEF Init, Budget, Distinct
<1>8. Scored
  <2>1. SumOver(score, DOMAIN score) = 0
    BY <1>4, SumEmpty
  <2>2. (Halflife + 0) * Scale \in Nat
    BY <1>2, <1>5, ScalePositive
  <2> QED BY <1>2, <2>1, <2>2 DEF Init, Scored
<1>9. Served
  BY DEF Init, Served
<1>10. Accounted
  BY DEF Init, Accounted
<1> QED BY <1>5, <1>6, <1>7, <1>8, <1>9, <1>10 DEF IInv

\* The new cache holds what is pinned.
LEMMA PreloadKeeps == ASSUME IInv, Preload PROVE IInv'
<1>1. UNCHANGED args /\ Typed /\ Phases
  BY DEF IInv, Preload
<1>2. /\ setup' = setup /\ trace' = trace /\ policy' = policy /\ NSlots' = NSlots /\ TopK' = TopK
      /\ NRequests' = NRequests /\ Cap' = Cap /\ Halflife' = Halflife /\ Scale' = Scale
      /\ Slabs' = Slabs /\ Sizes' = Sizes
  BY <1>1, Same
<1>3. setup \in DOMAIN Setups /\ NRequests \in Nat \ {0} /\ TopK \in Nat \ {0} /\ Cap \in Nat /\ Halflife \in Nat
  BY <1>1, Parameters DEF Typed, TypedArgs, TypedCache, TypedReplay
<1>4. /\ Pins \in SUBSET Slabs /\ IsFiniteSet(Pins) /\ SumOver(Sizes, Pins) <= Cap /\ SumOver(Sizes, Pins) \in Nat
      /\ SizeOf(Pins) = SumOver(Sizes, Pins)
  BY <1>1, <1>3, PinsFit, SizesSum, SizeOfIs
<1>5. /\ SetToSeq(Pins) \in Seq(Pins) /\ ToSet(SetToSeq(Pins)) = Pins /\ Distinct(SetToSeq(Pins))
  BY <1>4, SetToSeqIs DEF Distinct
<1>6. SetToSeq(Pins) \in Seq(Slabs)
  <2> DEFINE P == Pins  f == SetToSeq(Pins)
  <2> HIDE DEF P, f
  <2>1. P \in SUBSET Slabs /\ f \in Seq(P)
    BY <1>4, <1>5 DEF P, f
  <2>2. f \in Seq(Slabs)
    BY <2>1
  <2> QED BY <2>2 DEF f
<1>7. /\ pinned' = Pins /\ recency' = SetToSeq(Pins) /\ used' = SumOver(Sizes, Pins)
      /\ score' = [x \in {} |-> 0] /\ since' = 0 /\ n' = 1 /\ j' = 1 /\ want' = {} /\ queue' = <<>>
      /\ hits' = 0 /\ misses' = 0 /\ evictions' = 0 /\ fetched' = 0 /\ skipped' = 0
      /\ pc' = "touch" /\ rep' = rep /\ reports' = reports /\ pc = "preload"
  BY <1>4 DEF Preload
<1>8. Resident' = Pins /\ Evictable' = {}
  BY <1>5, <1>7 DEF Resident, Evictable
<1>9. DOMAIN score' = {} /\ score' \in [{} -> Nat \ {0}]
  BY <1>7
<1>10. Typed'
  <2>1. TypedCache'
    BY <1>2, <1>4, <1>6, <1>7, <1>9 DEF TypedCache
  <2>2. TypedReplay'
    BY <1>1, <1>2, <1>3, <1>7 DEF Typed, TypedReplay
  <2> QED BY <1>1, <2>1, <2>2, ArgsTyped DEF Typed
<1>11. Phases'
  BY <1>1, <1>2, <1>3, <1>7 DEF Phases
<1>12. Budget'
  BY <1>2, <1>3, <1>4, <1>5, <1>7, <1>8 DEF Budget
<1>13. Scored'
  <2>1. SumOver(score', DOMAIN score') = 0
    BY <1>9, SumEmpty
  <2>2. (Halflife + 0) * Scale \in Nat
    BY <1>1, <1>3, ScalePositive
  <2> QED BY <1>2, <1>3, <1>7, <2>1, <2>2 DEF Scored
<1>14. Served'
  <2>1. Touched' = {}
    BY <1>7 DEF Touched
  <2> QED BY <1>7, <2>1 DEF Served, NewestLast
<1>15. Accounted'
  <2>1. Cardinality({}) = 0
    BY FS_EmptySet
  <2> QED BY <1>2, <1>3, <1>7, <2>1 DEF Accounted
<1> QED BY <1>10, <1>11, <1>12, <1>13, <1>14, <1>15 DEF IInv

\* A step within a request: what does not change, and what the parts say.
LEMMA RequestStep ==
    ASSUME IInv, UNCHANGED args, n' = n
    PROVE  /\ setup' = setup /\ trace' = trace /\ policy' = policy /\ NSlots' = NSlots /\ TopK' = TopK
           /\ NRequests' = NRequests /\ Cap' = Cap /\ Halflife' = Halflife /\ Scale' = Scale
           /\ Slabs' = Slabs /\ Sizes' = Sizes /\ Asked' = Asked
           /\ \A k : Slab(n, trace[n].ids[k])' = Slab(n, trace[n].ids[k])
           /\ \A slot : Slab(n, slot)' = Slab(n, slot)
           /\ \A slot : Skips(slot)' = Skips(slot)
           /\ TypedArgs'
           /\ setup \in DOMAIN Setups /\ NRequests \in Nat \ {0} /\ TopK \in Nat \ {0}
           /\ Cap \in Nat /\ Halflife \in Nat
<1>1. Typed
  BY DEF IInv
<1>2. /\ setup' = setup /\ trace' = trace /\ policy' = policy /\ NSlots' = NSlots /\ TopK' = TopK
      /\ NRequests' = NRequests /\ Cap' = Cap /\ Halflife' = Halflife /\ Scale' = Scale
      /\ Slabs' = Slabs /\ Sizes' = Sizes
      /\ \A m, slot : Slab(m, slot)' = Slab(m, slot)
  BY Same
<1>3. \A slot : Slab(n, slot)' = Slab(n, slot)
  BY <1>2 DEF Slab
<1>4. \A k : Slab(n, trace[n].ids[k])' = Slab(n, trace[n].ids[k])
  BY <1>2 DEF Slab
<1>5. Asked' = Asked
  BY <1>2, <1>4 DEF Asked
<1>6. \A slot : Skips(slot)' = Skips(slot)
  BY <1>2 DEF Skips
<1>7. TypedArgs' /\ setup \in DOMAIN Setups
  BY <1>1, ArgsTyped DEF Typed, TypedArgs
<1> QED BY <1>1, <1>2, <1>3, <1>4, <1>5, <1>6, <1>7, Parameters

\* The expert touched joins those touched before.
LEMMA TouchedGrows ==
    ASSUME IInv, UNCHANGED args, n' = n, j' = j + 1, j <= TopK
    PROVE  Touched' = Touched \cup {Slab(n, trace[n].ids[j])}
<1>1. TopK \in Nat /\ j \in 1 .. TopK
  BY RequestStep DEF IInv, Typed, TypedReplay
<1>2. j' - 1 = j /\ 1 .. j = (1 .. j - 1) \cup {j}
  BY <1>1
<1>3. Touched' = {Slab(n, trace[n].ids[k]) : k \in 1 .. j' - 1}
  BY RequestStep DEF Touched
<1> QED BY <1>2, <1>3 DEF Touched

LEMMA HitKeeps == ASSUME IInv, Hit PROVE IInv'
<1> DEFINE slot == trace[n].ids[j]
           slab == Slab(n, slot)
<1>1. Typed /\ Phases /\ Budget /\ Scored /\ Served /\ Accounted
  BY DEF IInv
<1>2. /\ pc = "touch" /\ j <= TopK /\ slab \in Resident
      /\ recency' = Append(Without(slab), slab) /\ Observe(slab)
      /\ hits' = hits + 1 /\ j' = j + 1
      /\ UNCHANGED args /\ pinned' = pinned /\ used' = used /\ misses' = misses
      /\ evictions' = evictions /\ fetched' = fetched /\ skipped' = skipped
      /\ n' = n /\ want' = want /\ queue' = queue /\ rep' = rep /\ reports' = reports /\ pc' = pc
  BY DEF Hit
<1>3. /\ setup' = setup /\ trace' = trace /\ policy' = policy /\ NSlots' = NSlots /\ TopK' = TopK
      /\ NRequests' = NRequests /\ Cap' = Cap /\ Halflife' = Halflife /\ Scale' = Scale
      /\ Slabs' = Slabs /\ Sizes' = Sizes /\ TypedArgs'
      /\ TopK \in Nat \ {0} /\ NRequests \in Nat \ {0}
  BY <1>2, RequestStep
<1>4. n <= NRequests /\ j \in 1 .. TopK /\ j \in Nat /\ n \in Nat
  BY <1>1, <1>2, <1>3 DEF Phases, Typed, TypedReplay
<1>5. slab \in Slabs
  BY <1>1, <1>4, RequestIs
<1> HIDE DEF slab, slot
<1>6. /\ Without(slab) \in Seq(Slabs) /\ Distinct(Without(slab)) /\ ToSet(Without(slab)) = Resident \ {slab}
      /\ \A P : NewestLast(recency, P) => NewestLast(Without(slab), P)
  BY <1>1, <1>2, WithoutIs DEF Budget
<1>7. /\ recency' \in Seq(Slabs) /\ Distinct(recency') /\ Resident' = Resident
      /\ \A P : NewestLast(Without(slab), P) /\ slab \in P => NewestLast(recency', P)
  <2> DEFINE w == Without(slab)
  <2> HIDE DEF w
  <2>1. w \in Seq(Slabs) /\ Distinct(w) /\ slab \notin ToSet(w) /\ ToSet(w) = Resident \ {slab}
    BY <1>6 DEF w
  <2>2. /\ Append(w, slab) \in Seq(Slabs) /\ Distinct(Append(w, slab))
        /\ ToSet(Append(w, slab)) = ToSet(w) \cup {slab}
        /\ \A P : NewestLast(w, P) /\ slab \in P => NewestLast(Append(w, slab), P)
    BY <1>5, <2>1, PutLast
  <2>3. recency' = Append(w, slab) /\ Resident' = ToSet(Append(w, slab))
    BY <1>2 DEF w, Resident
  <2>4. ToSet(w) \cup {slab} = Resident
    BY <1>2, <2>1
  <2> QED BY <2>2, <2>3, <2>4 DEF w
<1>8. Evictable' = Evictable
  BY <1>2, <1>7 DEF Evictable
<1>9. /\ score' \in [DOMAIN score' -> Nat \ {0}] /\ DOMAIN score' \in SUBSET Slabs /\ since' \in Nat
      /\ Scored'
  BY <1>1, <1>2, <1>5, ObserveKeeps
<1>10. Typed'
  <2>1. TypedCache'
    BY <1>1, <1>2, <1>3, <1>7, <1>9 DEF Typed, TypedCache
  <2>2. TypedReplay'
    BY <1>1, <1>2, <1>3, <1>4 DEF Typed, TypedReplay
  <2> QED BY <1>3, <2>1, <2>2 DEF Typed
<1>11. Phases'
  <2>1. \A s \in want : \E k \in 1 .. j' - 1 : s = trace[n].ids[k]
    BY <1>1, <1>2, <1>4 DEF Phases
  <2> QED BY <1>1, <1>2, <1>3, <2>1 DEF Phases
<1>12. Budget'
  BY <1>1, <1>2, <1>3, <1>7, <1>8 DEF Budget
<1>13. Served'
  <2>1. Touched' = Touched \cup {slab}
    BY <1>2, TouchedGrows DEF slab, slot
  <2>2. NewestLast(recency', Touched')
    <3>1. NewestLast(Without(slab), Touched)
      BY <1>1, <1>2, <1>6 DEF Served
    <3>2. \A i \in 1 .. Len(Without(slab)) : Without(slab)[i] # slab
      BY <1>6, ToSetIs
    <3>3. NewestLast(Without(slab), Touched')
      BY <2>1, <3>1, <3>2 DEF NewestLast
    <3> QED BY <1>7, <2>1, <3>3
  <2>3. ASSUME NEW k \in 1 .. j' - 1
        PROVE  \/ Slab(n, trace[n].ids[k]) \in Resident
               \/ trace[n].ids[k] \in want
               \/ Skips(trace[n].ids[k])
    <3>1. CASE k = j
      BY <1>2, <3>1 DEF slab, slot
    <3>2. CASE k # j
      <4>1. k \in 1 .. j - 1
        BY <1>2, <1>4, <3>2
      <4> QED BY <1>1, <1>2, <4>1 DEF Served
    <3> QED BY <3>1, <3>2
  <2>4. /\ \A k : Slab(n, trace[n].ids[k])' = Slab(n, trace[n].ids[k])
        /\ \A s : Skips(s)' = Skips(s)
    BY <1>2, RequestStep
  <2> QED BY <1>2, <1>3, <1>7, <2>2, <2>3, <2>4 DEF Served
<1>14. Accounted'
  <2>1. hits \in Nat /\ misses \in Nat
    BY <1>1 DEF Typed, TypedReplay
  <2>2. (n - 1) * TopK \in Int
    BY <1>3, <1>4
  <2> QED BY <1>1, <1>2, <1>3, <1>4, <2>1, <2>2 DEF Accounted
<1> QED BY <1>9, <1>10, <1>11, <1>12, <1>13, <1>14 DEF IInv

LEMMA MissKeeps == ASSUME IInv, Miss PROVE IInv'
<1> DEFINE slot == trace[n].ids[j]
           slab == Slab(n, slot)
<1>1. Typed /\ Phases /\ Budget /\ Scored /\ Served /\ Accounted
  BY DEF IInv
<1>2. /\ pc = "touch" /\ j <= TopK /\ slab \notin Resident /\ Observe(slab)
      /\ IF Skips(slot) THEN skipped' = skipped + 1 /\ want' = want
                        ELSE want' = want \cup {slot} /\ skipped' = skipped
      /\ misses' = misses + 1 /\ j' = j + 1
      /\ UNCHANGED args /\ recency' = recency /\ pinned' = pinned /\ used' = used /\ hits' = hits
      /\ evictions' = evictions /\ fetched' = fetched
      /\ n' = n /\ queue' = queue /\ rep' = rep /\ reports' = reports /\ pc' = pc
  BY DEF Miss
<1>3. /\ setup' = setup /\ trace' = trace /\ policy' = policy /\ NSlots' = NSlots /\ TopK' = TopK
      /\ NRequests' = NRequests /\ Cap' = Cap /\ Halflife' = Halflife /\ Scale' = Scale
      /\ Slabs' = Slabs /\ Sizes' = Sizes /\ TypedArgs'
      /\ TopK \in Nat \ {0} /\ NRequests \in Nat \ {0}
  BY <1>2, RequestStep
<1>4. n <= NRequests /\ j \in 1 .. TopK /\ j \in Nat /\ n \in Nat
  BY <1>1, <1>2, <1>3 DEF Phases, Typed, TypedReplay
<1>5. /\ slab \in Slabs /\ slot \in 0 .. NSlots - 1
      /\ \A k \in 1 .. j - 1 : trace[n].ids[k] # slot
  <2>1. \A k \in 1 .. j - 1 : k \in 1 .. TopK /\ k # j
    BY <1>3, <1>4
  <2> QED BY <1>1, <1>4, <2>1, RequestIs
<1>6. Resident' = Resident /\ Evictable' = Evictable
  BY <1>2 DEF Evictable, Resident
<1>7. /\ score' \in [DOMAIN score' -> Nat \ {0}] /\ DOMAIN score' \in SUBSET Slabs /\ since' \in Nat
      /\ Scored'
  <2> HIDE DEF slab
  <2> QED BY <1>1, <1>2, <1>5, ObserveKeeps
<1>8. want \in SUBSET (0 .. NSlots - 1) /\ queue = <<>>
  BY <1>1, <1>2 DEF Typed, TypedReplay, Phases
<1>9. slot \notin want
  <2>1. \A s \in want : \E k \in 1 .. j - 1 : s = trace[n].ids[k]
    BY <1>1 DEF Phases
  <2> HIDE DEF slot
  <2> QED BY <1>5, <2>1
<1>10. Typed'
  <2>1. TypedCache'
    BY <1>1, <1>2, <1>3, <1>7 DEF Typed, TypedCache
  <2>2. want' \in SUBSET (0 .. NSlots - 1) /\ queue' \in Seq(want') /\ skipped' \in Nat
    <3>1. want' \in SUBSET (want \cup {slot}) /\ queue' = <<>> /\ (skipped' = skipped \/ skipped' = skipped + 1)
      BY <1>2, <1>8
    <3>2. skipped \in Nat
      BY <1>1 DEF Typed, TypedReplay
    <3> HIDE DEF slot
    <3> QED BY <1>5, <1>8, <3>1, <3>2
  <2>3. TypedReplay'
    BY <1>1, <1>2, <1>3, <1>4, <2>2 DEF Typed, TypedReplay
  <2> QED BY <1>3, <2>1, <2>3 DEF Typed
<1>11. Phases'
  <2>1. \A s \in want' : \E k \in 1 .. j' - 1 : s = trace[n].ids[k]
    <3>1. want' \in SUBSET (want \cup {slot})
      BY <1>2
    <3>2. \A k \in 1 .. j - 1 : k \in 1 .. j' - 1
      BY <1>2, <1>4
    <3>3. j \in 1 .. j' - 1
      BY <1>2, <1>4
    <3>4. \A s \in want : \E k \in 1 .. j - 1 : s = trace[n].ids[k]
      BY <1>1 DEF Phases
    <3> QED BY <3>1, <3>2, <3>3, <3>4
  <2> QED BY <1>1, <1>2, <1>3, <1>8, <2>1 DEF Phases
<1>12. Budget'
  BY <1>1, <1>2, <1>3, <1>6 DEF Budget
<1>13. Served'
  <2>1. Touched' = Touched \cup {slab}
    BY <1>2, TouchedGrows
  <2>2. NewestLast(recency', Touched')
    <3>1. NewestLast(recency, Touched)
      BY <1>1, <1>2 DEF Served
    <3>2. \A i \in 1 .. Len(recency) : recency[i] # slab
      <4> HIDE DEF slab
      <4>1. recency \in Seq(Slabs)
        BY <1>1 DEF Typed, TypedCache
      <4> QED BY <1>2, <4>1, ToSetIs DEF Resident
    <3> HIDE DEF slab
    <3> QED BY <1>2, <2>1, <3>1, <3>2 DEF NewestLast
  <2>3. ASSUME NEW k \in 1 .. j' - 1
        PROVE  \/ Slab(n, trace[n].ids[k]) \in Resident
               \/ trace[n].ids[k] \in want'
               \/ Skips(trace[n].ids[k])
    <3>1. CASE k = j
      BY <1>2, <3>1
    <3>2. CASE k # j
      <4>1. k \in 1 .. j - 1
        BY <1>2, <1>4, <3>2
      <4>2. want \in SUBSET want'
        BY <1>2
      <4> QED BY <1>1, <1>2, <4>1, <4>2 DEF Served
    <3> QED BY <3>1, <3>2
  <2>4. /\ \A k : Slab(n, trace[n].ids[k])' = Slab(n, trace[n].ids[k])
        /\ \A s : Skips(s)' = Skips(s)
    BY <1>2, RequestStep
  <2> QED BY <1>2, <1>3, <1>6, <2>2, <2>3, <2>4 DEF Served
<1>14. Accounted'
  <2>1. hits \in Nat /\ misses \in Nat /\ fetched \in Nat /\ skipped \in Nat
    BY <1>1 DEF Typed, TypedReplay
  <2>2. (n - 1) * TopK \in Int
    BY <1>3, <1>4
  <2>3. IsFiniteSet(want) /\ Cardinality(want) \in Nat
    <3>1. NSlots - 1 \in Int
      BY <1>1, Parameters DEF Typed, TypedArgs
    <3>2. IsFiniteSet(0 .. NSlots - 1)
      BY <3>1, FS_Interval
    <3> QED BY <1>8, <3>2, FS_Subset, FS_CardinalityType
  <2>4. Cardinality(want \cup {slot}) = Cardinality(want) + 1
    <3> HIDE DEF slot
    <3> QED BY <1>9, <2>3, FS_AddElement
  <2>5. misses' = fetched' + skipped' + Cardinality(want')
    <3>1. \/ skipped' = skipped + 1 /\ want' = want
          \/ skipped' = skipped /\ want' = want \cup {slot}
      BY <1>2
    <3>2. misses = fetched + skipped + Cardinality(want) /\ misses' = misses + 1 /\ fetched' = fetched
      BY <1>1, <1>2 DEF Accounted
    <3>3. CASE skipped' = skipped + 1 /\ want' = want
      <4>1. Cardinality(want') = Cardinality(want)
        BY <3>3
      <4> QED BY <2>1, <2>3, <3>2, <3>3, <4>1
    <3>4. CASE skipped' = skipped /\ want' = want \cup {slot}
      <4>1. Cardinality(want') = Cardinality(want) + 1
        BY <2>4, <3>4
      <4> QED BY <2>1, <2>3, <3>2, <3>4, <4>1
    <3> QED BY <3>1, <3>3, <3>4
  <2>6. hits' + misses' = (n - 1) * TopK + j' - 1
    BY <1>1, <1>2, <1>4, <2>1, <2>2 DEF Accounted
  <2> QED BY <1>2, <1>3, <2>5, <2>6 DEF Accounted
<1> QED BY <1>7, <1>10, <1>11, <1>12, <1>13, <1>14 DEF IInv

\* The experts a request asks for are finitely many.
LEMMA WantFinite == ASSUME Typed PROVE IsFiniteSet(want) /\ Cardinality(want) \in Nat /\ want \in SUBSET Int
<1>1. NSlots - 1 \in Int
  BY Parameters DEF Typed, TypedArgs
<1>2. IsFiniteSet(0 .. NSlots - 1)
  BY <1>1, FS_Interval
<1>3. want \in SUBSET (0 .. NSlots - 1)
  BY DEF Typed, TypedReplay
<1>4. IsFiniteSet(want)
  BY <1>2, <1>3, FS_Subset
<1>5. want \in SUBSET Int
  BY <1>1, <1>3
<1> QED BY <1>4, <1>5, FS_CardinalityType

\* A function from 1 .. N onto a set is a sequence that holds the set.
LEMMA OntoSeq ==
    ASSUME NEW N \in Nat, NEW S, NEW q \in [1 .. N -> S], \A x \in S : \E k \in 1 .. N : q[k] = x
    PROVE  q \in Seq(S) /\ ToSet(q) = S
<1>1. q \in Seq(S) /\ DOMAIN q = 1 .. N
  OBVIOUS
<1>2. ToSet(q) = {q[k] : k \in 1 .. N}
  BY <1>1 DEF ToSet
<1> QED BY <1>1, <1>2

\* The queue is the slots wanted, in order.
LEMMA QueueIs ==
    ASSUME NEW S \in SUBSET Int, IsFiniteSet(S), NEW q,
           q = [k \in 1 .. Cardinality(S) |-> CHOOSE x \in S : Cardinality({y \in S : y < x}) = k - 1]
    PROVE  q \in Seq(S) /\ ToSet(q) = S
<1> DEFINE N == Cardinality(S)
<1>1. /\ N \in Nat
      /\ \A x \in S : Rank(S, x) \in 0 .. N - 1
      /\ \A x, y \in S : Rank(S, x) = Rank(S, y) => x = y
      /\ \A k \in 0 .. N - 1 : \E x \in S : Rank(S, x) = k
  BY RankExists
<1>2. q = [k \in 1 .. N |-> CHOOSE x \in S : Rank(S, x) = k - 1]
  BY DEF Rank
<1> HIDE DEF N
<1>3. ASSUME NEW k \in 1 .. N PROVE q[k] \in S /\ Rank(S, q[k]) = k - 1
  <2>1. k - 1 \in 0 .. N - 1
    BY <1>1
  <2>2. \E x \in S : Rank(S, x) = k - 1
    BY <1>1, <2>1
  <2> QED BY <1>2, <2>2
<1>4. q \in [1 .. N -> S]
  BY <1>2, <1>3
<1>6. ASSUME NEW x \in S PROVE \E k \in 1 .. N : q[k] = x
  <2>1. Rank(S, x) + 1 \in 1 .. N /\ (Rank(S, x) + 1) - 1 = Rank(S, x)
    BY <1>1
  <2>2. q[Rank(S, x) + 1] \in S /\ Rank(S, q[Rank(S, x) + 1]) = Rank(S, x)
    BY <1>3, <2>1
  <2>3. q[Rank(S, x) + 1] = x
    BY <1>1, <2>2
  <2> QED BY <2>1, <2>3
<1> QED BY <1>1, <1>4, <1>6, OntoSeq

LEMMA StartAdmitKeeps == ASSUME IInv, StartAdmit PROVE IInv'
<1>1. Typed /\ Phases /\ Served /\ Accounted
  BY DEF IInv
<1>2. /\ pc = "touch" /\ j > TopK /\ pc' = "admit"
      /\ UNCHANGED <<args, cache>> /\ UNCHANGED args /\ recency' = recency /\ pinned' = pinned
      /\ hits' = hits /\ misses' = misses /\ evictions' = evictions
      /\ fetched' = fetched /\ skipped' = skipped /\ n' = n /\ j' = j /\ want' = want
      /\ rep' = rep /\ reports' = reports
  BY DEF StartAdmit, cache
<1>3. queue' = IF policy = "static" THEN <<>>
               ELSE [k \in 1 .. Cardinality(want) |->
                        CHOOSE x \in want : Cardinality({y \in want : y < x}) = k - 1]
  BY DEF StartAdmit
<1>4. queue' \in Seq(want) /\ (policy # "static" => ToSet(queue') = want)
  <2>1. CASE policy = "static"
    BY <1>3, <2>1
  <2>2. CASE policy # "static"
    <3>1. IsFiniteSet(want) /\ want \in SUBSET Int
      BY <1>1, WantFinite
    <3>2. queue' = [k \in 1 .. Cardinality(want) |->
                       CHOOSE x \in want : Cardinality({y \in want : y < x}) = k - 1]
      BY <1>3, <2>2
    <3> DEFINE q == queue'
    <3> HIDE DEF q
    <3>3. q \in Seq(want) /\ ToSet(q) = want
      BY <3>1, <3>2, QueueIs DEF q
    <3> QED BY <3>3 DEF q
  <2> QED BY <2>1, <2>2
<1>5. /\ setup' = setup /\ trace' = trace /\ policy' = policy /\ NSlots' = NSlots /\ TopK' = TopK
      /\ NRequests' = NRequests /\ Cap' = Cap /\ Sizes' = Sizes /\ Slabs' = Slabs /\ Asked' = Asked /\ TypedArgs'
      /\ TopK \in Nat \ {0} /\ NRequests \in Nat \ {0}
      /\ \A k : Slab(n, trace[n].ids[k])' = Slab(n, trace[n].ids[k])
      /\ \A slot : Skips(slot)' = Skips(slot)
  BY <1>2, RequestStep
<1>6. n <= NRequests /\ j = TopK + 1
  BY <1>1, <1>2, <1>5 DEF Typed, TypedReplay, Phases
<1>7. Typed'
  <2>1. TypedCache'
    BY <1>1, <1>2, <1>5 DEF Typed, TypedCache, cache
  <2>2. TypedReplay'
    BY <1>1, <1>2, <1>4, <1>5 DEF Typed, TypedReplay
  <2> QED BY <1>5, <2>1, <2>2 DEF Typed
<1>8. Phases'
  BY <1>1, <1>2, <1>3, <1>5, <1>6 DEF Phases
<1>9. Budget' /\ Scored'
  BY <1>2, CacheStays
<1>10. Served'
  <2>1. Resident' = Resident
    BY <1>2 DEF Resident
  <2>2. Touched' = Touched
    BY <1>2, <1>5 DEF Touched
  <2>3. NewestLast(recency', Touched')
    BY <1>1, <1>2, <2>2 DEF Served
  <2>4. ASSUME policy # "static", NEW k \in 1 .. TopK
        PROVE  \/ Slab(n, trace[n].ids[k]) \in Resident
               \/ trace[n].ids[k] \in ToSet(queue')
               \/ Skips(trace[n].ids[k])
    <3>1. k \in 1 .. j - 1
      BY <1>5, <1>6
    <3> QED BY <1>1, <1>2, <1>4, <2>4, <3>1 DEF Served
  <2> QED BY <1>2, <1>5, <2>1, <2>3, <2>4 DEF Served
<1>11. Accounted'
  BY <1>1, <1>2, <1>5 DEF Accounted
<1> QED BY <1>7, <1>8, <1>9, <1>10, <1>11 DEF IInv

\* A step of admission: all but the cache and the queue stays.
LEMMA AdmitStep ==
    ASSUME IInv, pc = "admit", UNCHANGED args, TypedCache',
           pinned' = pinned, hits' = hits, misses' = misses, evictions' \in Nat,
           fetched' = fetched, skipped' = skipped, n' = n, j' = j, want' = want,
           rep' = rep, reports' = reports, pc' = pc,
           queue' \in Seq(want), policy = "static" => queue' = <<>>
    PROVE  Typed' /\ Phases' /\ Accounted'
<1>1. Typed /\ Phases /\ Accounted
  BY DEF IInv
<1>2. /\ setup' = setup /\ trace' = trace /\ policy' = policy /\ NSlots' = NSlots /\ TopK' = TopK
      /\ NRequests' = NRequests /\ TypedArgs'
  BY RequestStep
<1>3. TypedReplay'
  BY <1>1, <1>2 DEF Typed, TypedReplay
<1>4. Phases'
  BY <1>1, <1>2 DEF Phases
<1>5. Accounted'
  BY <1>1, <1>2 DEF Accounted
<1> QED BY <1>2, <1>3, <1>4, <1>5 DEF Typed

\* And the last part: the order by tick, and for each expert of the request that it is resident,
\* queued or skipped.
LEMMA AdmitServes ==
    ASSUME IInv, pc = "admit", UNCHANGED args, pinned' = pinned, n' = n, j' = j, pc' = pc,
           NewestLast(recency', Touched),
           policy \in {"lru", "hybrid"} /\ SumOver(Sizes, Asked \cup pinned) <= Cap =>
             \A k \in 1 .. TopK : \/ Slab(n, trace[n].ids[k]) \in Resident'
                                  \/ trace[n].ids[k] \in ToSet(queue')
                                  \/ Skips(trace[n].ids[k])
    PROVE  Served'
<1>1. /\ policy' = policy /\ TopK' = TopK /\ Cap' = Cap /\ Sizes' = Sizes /\ Asked' = Asked /\ trace' = trace
      /\ \A k : Slab(n, trace[n].ids[k])' = Slab(n, trace[n].ids[k])
      /\ \A slot : Skips(slot)' = Skips(slot)
  BY RequestStep
<1>2. Touched' = Touched
  BY <1>1 DEF Touched
<1> QED BY <1>1, <1>2 DEF Served

LEMMA PassKeeps == ASSUME IInv, Pass PROVE IInv'
<1>1. Typed /\ Phases /\ Served
  BY DEF IInv
<1>2. /\ pc = "admit" /\ queue # <<>> /\ (Newcomer \in Resident \/ Size(Newcomer) > Cap)
      /\ queue' = Tail(queue) /\ UNCHANGED <<args, cache>> /\ UNCHANGED args
      /\ recency' = recency /\ pinned' = pinned /\ used' = used /\ score' = score /\ since' = since
      /\ hits' = hits /\ misses' = misses /\ evictions' = evictions
      /\ fetched' = fetched /\ skipped' = skipped /\ n' = n /\ j' = j /\ want' = want
      /\ rep' = rep /\ reports' = reports /\ pc' = pc
  BY DEF Pass, cache
<1>3. /\ policy # "static" /\ Tail(queue) \in Seq(want)
      /\ ToSet(queue) = ToSet(Tail(queue)) \cup {Head(queue)}
      /\ Newcomer \in Slabs /\ Newcomer \in Asked
  BY <1>1, <1>2, NewcomerIs
<1>4. setup \in DOMAIN Setups /\ Slabs' = Slabs /\ Cap \in Nat
  BY <1>2, RequestStep
<1>5. TypedCache' /\ evictions' \in Nat
  BY <1>1, <1>2, <1>4 DEF Typed, TypedCache, TypedReplay
<1>6. Typed' /\ Phases' /\ Accounted'
  BY <1>2, <1>3, <1>5, AdmitStep
<1>7. Budget' /\ Scored'
  BY <1>2, CacheStays
<1>8. Resident' = Resident
  BY <1>2 DEF Resident
<1>9. NewestLast(recency', Touched)
  BY <1>1, <1>2 DEF Served
<1>10. ASSUME policy \in {"lru", "hybrid"}, SumOver(Sizes, Asked \cup pinned) <= Cap, NEW k \in 1 .. TopK
       PROVE  \/ Slab(n, trace[n].ids[k]) \in Resident'
              \/ trace[n].ids[k] \in ToSet(queue')
              \/ Skips(trace[n].ids[k])
  <2>1. Newcomer \in Resident
    <3>1. Asked \cup pinned \in SUBSET Slabs
      BY <1>1, <1>2, AskedSlabs DEF Typed, TypedCache, Phases
    <3>2. Size(Newcomer) <= SumOver(Sizes, Asked \cup pinned)
      BY <1>3, <1>4, <3>1, SizeInSum
    <3>3. Size(Newcomer) \in Nat /\ SumOver(Sizes, Asked \cup pinned) \in Nat
      BY <1>3, <1>4, <3>1, Parameters, SizesSum
    <3>4. ~(Size(Newcomer) > Cap)
      BY <1>4, <1>10, <3>2, <3>3
    <3> QED BY <1>2, <3>4
  <2>2. \/ Slab(n, trace[n].ids[k]) \in Resident
        \/ trace[n].ids[k] \in ToSet(queue)
        \/ Skips(trace[n].ids[k])
    BY <1>1, <1>2, <1>10 DEF Served
  <2>3. trace[n].ids[k] = Head(queue) => Slab(n, trace[n].ids[k]) \in Resident
    BY <2>1 DEF Newcomer
  <2> QED BY <1>2, <1>3, <1>8, <2>2, <2>3
<1>11. Served'
  BY <1>2, <1>9, <1>10, AdmitServes
<1> QED BY <1>6, <1>7, <1>11 DEF IInv

LEMMA EvictKeeps == ASSUME IInv, Evict PROVE IInv'
<1>1. Typed /\ Phases /\ Budget /\ Scored /\ Served
  BY DEF IInv
<1>2. PICK victim \in Victims : /\ Worthwhile(victim)
                                /\ recency' = Without(victim)
                                /\ used' = used - Size(victim)
  BY DEF Evict
<1>3. /\ pc = "admit" /\ queue # <<>> /\ Newcomer \notin Resident /\ ~Fits
      /\ evictions' = evictions + 1
      /\ UNCHANGED args /\ pinned' = pinned /\ score' = score /\ since' = since
      /\ hits' = hits /\ misses' = misses /\ queue' = queue
      /\ fetched' = fetched /\ skipped' = skipped /\ n' = n /\ j' = j /\ want' = want
      /\ rep' = rep /\ reports' = reports /\ pc' = pc
  BY DEF Evict, Admissible
<1>4. /\ policy # "static" /\ Newcomer \in Slabs /\ Newcomer \in Asked /\ n <= NRequests /\ Asked = Touched
  BY <1>1, <1>3, NewcomerIs
<1>5. /\ setup \in DOMAIN Setups /\ Cap \in Nat /\ policy' = policy /\ Cap' = Cap /\ Sizes' = Sizes
      /\ Slabs' = Slabs /\ Halflife' = Halflife /\ Scale' = Scale
  BY <1>3, RequestStep
<1>6. victim \in Resident \ pinned /\ victim \in Slabs /\ Size(victim) \in Nat \ {0}
  <2>1. victim \in Resident \ pinned
    BY VictimIs
  <2>2. victim \in Slabs
    BY <1>1, <2>1, PlaceIs DEF Budget
  <2> QED BY <1>5, <2>1, <2>2, Parameters
<1>7. /\ recency' \in Seq(Slabs) /\ Distinct(recency') /\ Resident' = Resident \ {victim}
      /\ \A P : NewestLast(recency, P) => NewestLast(recency', P)
  BY <1>1, <1>2, <1>6, WithoutIs DEF Budget, Resident
<1>8. Resident \in SUBSET Slabs
  BY <1>1, PlaceIs DEF Budget
<1>9. /\ used = Size(victim) + SumOver(Sizes, Resident \ {victim})
      /\ SumOver(Sizes, Resident \ {victim}) \in Nat
  <2>1. Resident \ {victim} \in SUBSET Slabs
    BY <1>8
  <2>2. used = SumOver(Sizes, Resident)
    BY <1>1 DEF Budget
  <2>3. setup \in DOMAIN Setups /\ victim \in Resident
    BY <1>5, <1>6
  <2>4. SumOver(Sizes, Resident) = Size(victim) + SumOver(Sizes, Resident \ {victim})
    BY <1>8, <2>3, SizesSum
  <2>5. SumOver(Sizes, Resident \ {victim}) \in Nat
    BY <2>1, <2>3, SizesSum
  <2> QED BY <2>2, <2>4, <2>5
<1>10. used' = SumOver(Sizes, Resident') /\ used' \in Nat /\ used' < used
  BY <1>2, <1>6, <1>7, <1>9
<1>11. TypedCache' /\ evictions' \in Nat
  <2>1. recency' \in Seq(Slabs') /\ used' \in Nat
    BY <1>5, <1>7, <1>10
  <2>2. /\ pinned' \in SUBSET Slabs'
        /\ score' \in [DOMAIN score' -> Nat \ {0}] /\ DOMAIN score' \in SUBSET Slabs' /\ since' \in Nat
    BY <1>1, <1>3, <1>5 DEF Typed, TypedCache
  <2>3. evictions' \in Nat
    BY <1>1, <1>3 DEF Typed, TypedReplay
  <2> QED BY <2>1, <2>2, <2>3 DEF TypedCache
<1>12. Typed' /\ Phases' /\ Accounted'
  <2>1. queue' \in Seq(want)
    BY <1>1, <1>3 DEF Typed, TypedReplay
  <2> QED BY <1>3, <1>4, <1>11, <2>1, AdmitStep
<1>13. Budget'
  <2>1. pinned' \in SUBSET Resident'
    BY <1>1, <1>3, <1>6, <1>7 DEF Budget
  <2>2. used' <= Cap
    <3>1. CASE used <= Cap
      BY <1>1, <1>5, <1>10, <3>1 DEF Typed, TypedCache
    <3>2. CASE used > Cap
      <4>1. PICK x \in Resident : Resident \ pinned = {x}
        BY <1>1, <3>2 DEF Budget, Evictable
      <4>2. Resident' = pinned
        BY <1>1, <1>6, <1>7, <4>1 DEF Budget
      <4> QED BY <1>1, <1>10, <4>2 DEF Budget
    <3> QED BY <1>1, <1>5, <3>1, <3>2 DEF Typed, TypedCache
  <2>3. ~(used' > Cap')
    BY <1>5, <1>10, <2>2
  <2>4. SumOver(Sizes', pinned') <= Cap'
    BY <1>1, <1>3, <1>5 DEF Budget
  <2> QED BY <1>4, <1>5, <1>7, <1>10, <2>1, <2>3, <2>4 DEF Budget
<1>14. Scored'
  BY <1>1, <1>3, <1>5 DEF Scored
<1>15. NewestLast(recency', Touched)
  BY <1>1, <1>3, <1>7 DEF Served
<1>16. ASSUME policy \in {"lru", "hybrid"}, SumOver(Sizes, Asked \cup pinned) <= Cap, NEW k \in 1 .. TopK
       PROVE  \/ Slab(n, trace[n].ids[k]) \in Resident'
              \/ trace[n].ids[k] \in ToSet(queue')
              \/ Skips(trace[n].ids[k])
  <2>1. victim \notin Asked
    <3>1. SUFFICES ASSUME victim \in Asked PROVE FALSE
      OBVIOUS
    <3>2. victim \in Oldest
      BY <1>16 DEF Victims
    <3>3. ASSUME NEW y \in Resident PROVE y \in Asked \cup pinned
      <4>1. SUFFICES ASSUME y \notin pinned, y \notin Asked PROVE FALSE
        OBVIOUS
      <4>2. Place(victim) <= Place(y)
        BY <3>2, <4>1 DEF Oldest, Evictable
      <4>3. /\ Place(victim) \in 1 .. Len(recency) /\ recency[Place(victim)] = victim
            /\ Place(y) \in 1 .. Len(recency) /\ recency[Place(y)] = y
        BY <1>1, <1>6, PlaceIs DEF Budget
      <4>4. Place(y) < Place(victim)
        BY <1>1, <1>3, <1>4, <3>1, <4>1, <4>3 DEF Served, NewestLast
      <4> QED BY <4>2, <4>3, <4>4
    <3>4. Asked \cup pinned \in SUBSET Slabs
      BY <1>1, <1>4, AskedSlabs DEF Typed, TypedCache
    <3>5. SumOver(Sizes, Resident \cup {Newcomer}) = used + Size(Newcomer)
      BY <1>1, <1>3, <1>4, <1>5, <1>8, SizesSum DEF Budget
    <3>6. Resident \cup {Newcomer} \in SUBSET (Asked \cup pinned)
      BY <1>4, <3>3
    <3>7. SumOver(Sizes, Resident \cup {Newcomer}) <= SumOver(Sizes, Asked \cup pinned)
      BY <1>5, <3>4, <3>6, SizesSum
    <3>8. /\ SumOver(Sizes, Asked \cup pinned) \in Nat /\ used \in Nat /\ Size(Newcomer) \in Nat
      BY <1>1, <1>4, <1>5, <3>4, SizesSum, Parameters DEF Typed, TypedCache
    <3>9. used + Size(Newcomer) <= Cap
      BY <1>5, <1>16, <3>5, <3>7, <3>8
    <3> QED BY <1>3, <3>9 DEF Fits
  <2>2. \/ Slab(n, trace[n].ids[k]) \in Resident
        \/ trace[n].ids[k] \in ToSet(queue)
        \/ Skips(trace[n].ids[k])
    BY <1>1, <1>3, <1>16 DEF Served
  <2>3. Slab(n, trace[n].ids[k]) \in Asked
    BY DEF Asked
  <2> QED BY <1>3, <1>7, <2>1, <2>2, <2>3
<1>17. Served'
  BY <1>3, <1>15, <1>16, AdmitServes
<1> QED BY <1>12, <1>13, <1>14, <1>17 DEF IInv

LEMMA RefuseKeeps == ASSUME IInv, Refuse PROVE IInv'
<1>1. Typed /\ Phases /\ Served
  BY DEF IInv
<1>2. /\ pc = "admit" /\ queue # <<>>
      /\ \E victim \in Victims : ~Worthwhile(victim)
      /\ queue' = Tail(queue) /\ UNCHANGED <<args, cache>> /\ UNCHANGED args
      /\ recency' = recency /\ pinned' = pinned /\ used' = used /\ score' = score /\ since' = since
      /\ hits' = hits /\ misses' = misses /\ evictions' = evictions
      /\ fetched' = fetched /\ skipped' = skipped /\ n' = n /\ j' = j /\ want' = want
      /\ rep' = rep /\ reports' = reports /\ pc' = pc
  BY DEF Refuse, Admissible, cache
<1>3. policy # "static" /\ Tail(queue) \in Seq(want)
  BY <1>1, <1>2, NewcomerIs
<1>4. policy = "decayed"
  BY <1>2 DEF Worthwhile
<1>5. Slabs' = Slabs
  BY <1>2, RequestStep
<1>6. TypedCache' /\ evictions' \in Nat
  BY <1>1, <1>2, <1>5 DEF Typed, TypedCache, TypedReplay
<1>7. Typed' /\ Phases' /\ Accounted'
  BY <1>2, <1>3, <1>6, AdmitStep
<1>8. Budget' /\ Scored'
  BY <1>2, CacheStays
<1>9. NewestLast(recency', Touched)
  BY <1>1, <1>2 DEF Served
<1>10. Served'
  BY <1>2, <1>4, <1>9, AdmitServes
<1> QED BY <1>7, <1>8, <1>10 DEF IInv

LEMMA InsertKeeps == ASSUME IInv, Insert PROVE IInv'
<1>1. Typed /\ Phases /\ Budget /\ Scored /\ Served
  BY DEF IInv
<1>2. /\ pc = "admit" /\ queue # <<>> /\ Newcomer \notin Resident /\ Size(Newcomer) <= Cap
      /\ Fits \/ Victims = {}
      /\ recency' = Append(recency, Newcomer) /\ used' = used + Size(Newcomer)
      /\ queue' = Tail(queue)
      /\ UNCHANGED args /\ pinned' = pinned /\ score' = score /\ since' = since
      /\ hits' = hits /\ misses' = misses /\ evictions' = evictions
      /\ fetched' = fetched /\ skipped' = skipped /\ n' = n /\ j' = j /\ want' = want
      /\ rep' = rep /\ reports' = reports /\ pc' = pc
  BY DEF Insert, Admissible
<1>3. /\ policy # "static" /\ Tail(queue) \in Seq(want)
      /\ ToSet(queue) = ToSet(Tail(queue)) \cup {Head(queue)}
      /\ Newcomer \in Slabs /\ Newcomer \in Asked /\ n <= NRequests /\ Asked = Touched
  BY <1>1, <1>2, NewcomerIs
<1>4. /\ setup \in DOMAIN Setups /\ Cap \in Nat /\ policy' = policy /\ Cap' = Cap /\ Sizes' = Sizes
      /\ Slabs' = Slabs /\ Halflife' = Halflife /\ Scale' = Scale
  BY <1>2, RequestStep
<1>5. Size(Newcomer) \in Nat \ {0} /\ Resident \in SUBSET Slabs /\ used \in Nat
      /\ recency \in Seq(Slabs)
  BY <1>1, <1>3, <1>4, Parameters, PlaceIs DEF Budget, Typed, TypedCache
<1>6. /\ recency' \in Seq(Slabs) /\ Distinct(recency') /\ Resident' = Resident \cup {Newcomer}
      /\ \A P : NewestLast(recency, P) /\ Newcomer \in P => NewestLast(recency', P)
  BY <1>1, <1>2, <1>3, <1>5, PutLast DEF Budget, Resident
<1>7. used' = SumOver(Sizes, Resident')
  <2>1. SumOver(Sizes, Resident \cup {Newcomer}) = SumOver(Sizes, Resident) + Size(Newcomer)
    <3>1. setup \in DOMAIN Setups /\ Resident \in SUBSET Slabs /\ Newcomer \in Slabs \ Resident
      BY <1>2, <1>3, <1>4, <1>5
    <3> QED BY <3>1, SizesSum
  <2> QED BY <1>1, <1>2, <1>6, <2>1 DEF Budget
<1>8. TypedCache' /\ evictions' \in Nat
  <2>1. recency' \in Seq(Slabs') /\ used' \in Nat
    BY <1>2, <1>4, <1>5, <1>6
  <2>2. /\ pinned' \in SUBSET Slabs'
        /\ score' \in [DOMAIN score' -> Nat \ {0}] /\ DOMAIN score' \in SUBSET Slabs' /\ since' \in Nat
    BY <1>1, <1>2, <1>4 DEF Typed, TypedCache
  <2>3. evictions' \in Nat
    BY <1>1, <1>2 DEF Typed, TypedReplay
  <2> QED BY <2>1, <2>2, <2>3 DEF TypedCache
<1>9. Typed' /\ Phases' /\ Accounted'
  BY <1>2, <1>3, <1>8, AdmitStep
<1>10. Budget'
  <2>1. pinned' \in SUBSET Resident'
    BY <1>1, <1>2, <1>6 DEF Budget
  <2>2. ASSUME used' > Cap PROVE pinned # {} /\ Resident' \ pinned = {Newcomer}
    <3>1. ~Fits
      BY <1>2, <1>4, <1>5, <2>2 DEF Fits
    <3>2. Victims = {}
      BY <1>2, <3>1
    <3>3. Resident \ pinned = {}
      BY <1>1, <3>2, VictimExists DEF Budget, Evictable
    <3>4. Newcomer \notin pinned
      BY <1>1, <1>2 DEF Budget
    <3>5. Resident' \ pinned = {Newcomer}
      BY <1>6, <3>3, <3>4
    <3>6. pinned # {}
      <4>1. SUFFICES ASSUME pinned = {} PROVE FALSE
        OBVIOUS
      <4>2. Resident = {}
        BY <3>3, <4>1
      <4>3. used = 0
        BY <1>1, <4>2, SumEmpty DEF Budget
      <4> QED BY <1>2, <1>4, <1>5, <2>2, <4>3
    <3> QED BY <3>5, <3>6
  <2>3. used' > Cap' => pinned' # {} /\ \E x \in Resident' : Evictable' = {x}
    <3>1. Newcomer \in Resident'
      BY <1>6
    <3> QED BY <1>2, <1>4, <2>2, <3>1 DEF Evictable
  <2>4. SumOver(Sizes', pinned') <= Cap'
    BY <1>1, <1>2, <1>4 DEF Budget
  <2> QED BY <1>3, <1>4, <1>6, <1>7, <2>1, <2>3, <2>4 DEF Budget
<1>11. Scored'
  BY <1>1, <1>2, <1>4 DEF Scored
<1>12. NewestLast(recency', Touched)
  BY <1>1, <1>2, <1>3, <1>6 DEF Served
<1>13. ASSUME policy \in {"lru", "hybrid"}, SumOver(Sizes, Asked \cup pinned) <= Cap, NEW k \in 1 .. TopK
       PROVE  \/ Slab(n, trace[n].ids[k]) \in Resident'
              \/ trace[n].ids[k] \in ToSet(queue')
              \/ Skips(trace[n].ids[k])
  <2>1. \/ Slab(n, trace[n].ids[k]) \in Resident
        \/ trace[n].ids[k] \in ToSet(queue)
        \/ Skips(trace[n].ids[k])
    BY <1>1, <1>2, <1>13 DEF Served
  <2>2. trace[n].ids[k] = Head(queue) => Slab(n, trace[n].ids[k]) \in Resident'
    BY <1>6 DEF Newcomer
  <2> QED BY <1>2, <1>3, <1>6, <2>1, <2>2
<1>14. Served'
  BY <1>2, <1>12, <1>13, AdmitServes
<1> QED BY <1>9, <1>10, <1>11, <1>14 DEF IInv

LEMMA ReadKeeps == ASSUME IInv, Read PROVE IInv'
<1>1. Typed /\ Phases /\ Accounted
  BY DEF IInv
<1>2. /\ pc = "admit" /\ queue = <<>> /\ fetched' = fetched + Cardinality(want) /\ want' = {}
      /\ n' = n + 1 /\ j' = 1 /\ pc' = IF n < NRequests THEN "touch" ELSE "report"
      /\ UNCHANGED <<args, cache>> /\ UNCHANGED args /\ recency' = recency /\ pinned' = pinned
      /\ used' = used /\ score' = score /\ since' = since
      /\ hits' = hits /\ misses' = misses /\ evictions' = evictions
      /\ skipped' = skipped /\ queue' = queue /\ rep' = rep /\ reports' = reports
  BY DEF Read, cache
<1>3. /\ setup' = setup /\ policy' = policy /\ NSlots' = NSlots /\ TopK' = TopK
      /\ NRequests' = NRequests /\ Slabs' = Slabs
  BY <1>2, Same
<1>4. TopK \in Nat \ {0} /\ NRequests \in Nat \ {0}
  BY <1>1, Parameters DEF Typed, TypedArgs
<1>5. n <= NRequests /\ j = TopK + 1 /\ n \in Nat \ {0}
  BY <1>1, <1>2, <1>4 DEF Phases, Typed, TypedReplay
<1>6. Cardinality(want) \in Nat /\ Cardinality({}) = 0
  BY <1>1, WantFinite, FS_EmptySet
<1>7. Typed'
  <2>1. TypedCache'
    BY <1>1, <1>2, <1>3 DEF Typed, TypedCache
  <2>2. TypedReplay'
    BY <1>1, <1>2, <1>3, <1>4, <1>5, <1>6 DEF Typed, TypedReplay
  <2> QED BY <1>1, <1>2, <2>1, <2>2, ArgsTyped DEF Typed
<1>8. Phases'
  BY <1>1, <1>2, <1>3, <1>4, <1>5 DEF Phases
<1>9. Budget' /\ Scored'
  BY <1>2, CacheStays
<1>10. Served'
  <2>1. Touched' = {}
    BY <1>2 DEF Touched
  <2> QED BY <1>2, <2>1 DEF Served, NewestLast
<1>11. Accounted'
  <2>1. hits \in Nat /\ misses \in Nat /\ fetched \in Nat /\ skipped \in Nat
    BY <1>1 DEF Typed, TypedReplay
  <2>2. /\ hits + misses = (n - 1) * TopK + j - 1
        /\ misses = fetched + skipped + Cardinality(want)
    BY <1>1, <1>2 DEF Accounted
  <2>3. (n - 1) * TopK + TopK = n * TopK /\ n * TopK \in Int /\ (n - 1) * TopK \in Int
    BY <1>4, <1>5
  <2>4. hits + misses = n * TopK
    BY <1>4, <1>5, <2>1, <2>2, <2>3
  <2>5. misses = fetched' + skipped + 0
    BY <1>2, <1>6, <2>1, <2>2
  <2>6. pc' = "report" => n = NRequests
    BY <1>2, <1>4, <1>5
  <2>7. (IF pc' \in {"report", "done"} THEN NRequests ELSE n' - 1) * TopK + j' - 1 = n * TopK
    <3>1. (IF pc' \in {"report", "done"} THEN NRequests ELSE n' - 1) = n
      BY <1>2, <1>5, <2>6
    <3> QED BY <1>2, <2>3, <3>1
  <2> QED BY <1>2, <1>3, <1>6, <2>4, <2>5, <2>7 DEF Accounted
<1> QED BY <1>7, <1>8, <1>9, <1>10, <1>11 DEF IInv

LEMMA ReadFailsKeeps == ASSUME IInv, ReadFails PROVE IInv'
<1>1. Typed /\ Phases /\ Served /\ Accounted
  BY DEF IInv
<1>2. /\ pc = "admit" /\ queue = <<>> /\ pc' = "failed"
      /\ UNCHANGED <<args, cache>> /\ UNCHANGED args /\ recency' = recency /\ pinned' = pinned
      /\ used' = used /\ score' = score /\ since' = since
      /\ hits' = hits /\ misses' = misses /\ evictions' = evictions /\ n' = n /\ j' = j /\ want' = want
      /\ fetched' = fetched /\ skipped' = skipped /\ queue' = queue /\ rep' = rep /\ reports' = reports
  BY DEF ReadFails, cache
<1>3. /\ setup' = setup /\ policy' = policy /\ trace' = trace /\ NSlots' = NSlots /\ TopK' = TopK
      /\ NRequests' = NRequests /\ Slabs' = Slabs /\ TypedArgs'
  BY <1>2, RequestStep
<1>4. Typed'
  <2>1. TypedCache'
    BY <1>1, <1>2, <1>3 DEF Typed, TypedCache
  <2>2. TypedReplay'
    BY <1>1, <1>2, <1>3 DEF Typed, TypedReplay
  <2> QED BY <1>3, <2>1, <2>2 DEF Typed
<1>5. Phases'
  BY <1>1, <1>2, <1>3 DEF Phases
<1>6. Budget' /\ Scored'
  BY <1>2, CacheStays
<1>7. Served' /\ Accounted'
  BY <1>1, <1>2, <1>3 DEF Served, Accounted
<1> QED BY <1>4, <1>5, <1>6, <1>7 DEF IInv

LEMMA ReportKeeps == ASSUME IInv, Report PROVE IInv'
<1>1. Typed /\ Phases /\ Served /\ Accounted
  BY DEF IInv
<1>2. /\ pc = "report"
      /\ reports' = Append(reports, [hits |-> hits, misses |-> misses, fetched |-> fetched])
      /\ rep' = rep + 1 /\ pc' = IF rep < Setups[setup].reps THEN "preload" ELSE "done"
      /\ UNCHANGED <<args, cache>> /\ UNCHANGED args /\ recency' = recency /\ pinned' = pinned
      /\ used' = used /\ score' = score /\ since' = since
      /\ hits' = hits /\ misses' = misses /\ evictions' = evictions /\ n' = n /\ j' = j /\ want' = want
      /\ fetched' = fetched /\ skipped' = skipped /\ queue' = queue
  BY DEF Report, cache
<1>3. /\ setup' = setup /\ policy' = policy /\ trace' = trace /\ NSlots' = NSlots /\ TopK' = TopK
      /\ NRequests' = NRequests /\ Slabs' = Slabs /\ TypedArgs'
  BY <1>2, RequestStep
<1>4. rep \in Nat \ {0} /\ Setups[setup].reps \in Nat \ {0} /\ rep <= Setups[setup].reps
  BY <1>1, <1>2, Parameters DEF Typed, TypedArgs, TypedReplay, Phases
<1>5. Typed'
  <2>1. TypedCache'
    BY <1>1, <1>2, <1>3 DEF Typed, TypedCache
  <2>2. /\ reports' \in Seq([hits : Nat, misses : Nat, fetched : Nat])
        /\ Len(reports') = rep' - 1
    <3>1. /\ reports \in Seq([hits : Nat, misses : Nat, fetched : Nat]) /\ Len(reports) = rep - 1
          /\ [hits |-> hits, misses |-> misses, fetched |-> fetched] \in [hits : Nat, misses : Nat, fetched : Nat]
      BY <1>1 DEF Typed, TypedReplay
    <3> QED BY <1>2, <1>4, <3>1, AppendProperties
  <2>3. rep' \in 1 .. Setups[setup].reps + 1
    BY <1>2, <1>4
  <2>4. TypedReplay'
    BY <1>1, <1>2, <1>3, <2>2, <2>3 DEF Typed, TypedReplay
  <2> QED BY <1>3, <2>1, <2>4 DEF Typed
<1>6. Phases'
  BY <1>1, <1>2, <1>3, <1>4 DEF Phases
<1>7. Budget' /\ Scored'
  BY <1>2, CacheStays
<1>8. Served' /\ Accounted'
  BY <1>1, <1>2, <1>3 DEF Served, Accounted
<1> QED BY <1>5, <1>6, <1>7, <1>8 DEF IInv

LEMMA StutterKeeps == ASSUME IInv, UNCHANGED vars PROVE IInv'
<1>1. UNCHANGED <<args, cache>> /\ UNCHANGED args
      /\ UNCHANGED <<recency, pinned, used, score, since, hits, misses, evictions>>
      /\ UNCHANGED <<fetched, skipped, n, j, want, queue, rep, reports, pc>>
  BY DEF vars, cache
<1>2. /\ setup' = setup /\ policy' = policy /\ trace' = trace /\ NSlots' = NSlots /\ TopK' = TopK
      /\ NRequests' = NRequests /\ Slabs' = Slabs /\ TypedArgs' /\ Cap' = Cap /\ Sizes' = Sizes /\ Asked' = Asked
      /\ \A k : Slab(n, trace[n].ids[k])' = Slab(n, trace[n].ids[k])
      /\ \A slot : Slab(n, slot)' = Slab(n, slot)
      /\ \A slot : Skips(slot)' = Skips(slot)
  BY <1>1, RequestStep
<1>3. Typed /\ Phases /\ Served /\ Accounted
  BY DEF IInv
<1>4. TypedCache' /\ TypedReplay'
  BY <1>1, <1>2, <1>3 DEF Typed, TypedCache, TypedReplay
<1>5. Phases' /\ Accounted'
  BY <1>1, <1>2, <1>3 DEF Phases, Accounted
<1>6. Budget' /\ Scored'
  BY <1>1, CacheStays
<1>7. Served'
  <2>1. Touched' = Touched /\ Resident' = Resident
    BY <1>1, <1>2 DEF Touched, Resident
  <2> QED BY <1>1, <1>2, <1>3, <2>1 DEF Served
<1> QED BY <1>2, <1>4, <1>5, <1>6, <1>7 DEF IInv, Typed

\* The invariant holds in every state of every replay.
THEOREM CacheInvariant == Spec => []IInv
<1>1. Init => IInv
  BY IInvInit
<1>2. IInv /\ [Next]_vars => IInv'
  <2> SUFFICES ASSUME IInv, [Next]_vars PROVE IInv'
    OBVIOUS
  <2>1. CASE Preload
    BY <2>1, PreloadKeeps
  <2>2. CASE Hit
    BY <2>2, HitKeeps
  <2>3. CASE Miss
    BY <2>3, MissKeeps
  <2>4. CASE StartAdmit
    BY <2>4, StartAdmitKeeps
  <2>5. CASE Pass
    BY <2>5, PassKeeps
  <2>6. CASE Evict
    BY <2>6, EvictKeeps
  <2>7. CASE Refuse
    BY <2>7, RefuseKeeps
  <2>8. CASE Insert
    BY <2>8, InsertKeeps
  <2>9. CASE Read
    BY <2>9, ReadKeeps
  <2>10. CASE ReadFails
    BY <2>10, ReadFailsKeeps
  <2>11. CASE Report
    BY <2>11, ReportKeeps
  <2>12. CASE UNCHANGED vars
    BY <2>12, StutterKeeps
  <2> QED BY <2>1, <2>2, <2>3, <2>4, <2>5, <2>6, <2>7, <2>8, <2>9, <2>10, <2>11, <2>12 DEF Next
<1> QED BY <1>1, <1>2, PTL DEF Spec

-----------------------------------------------------------------------------
(* The theorems *)

\* Whatever the model, the trace and the policy, the bytes charged are those of the resident slabs,
\* the cap is exceeded only by one newcomer beside slabs all pinned, what is pinned stays, and the
\* scores stay below two halflives of accesses.
THEOREM BudgetKeptTheorem == Spec => []BudgetKept
<1>1. ASSUME IInv PROVE BudgetKept
  <2>1. Typed /\ Phases /\ Budget /\ Scored
    BY <1>1 DEF IInv
  <2>2. setup \in DOMAIN Setups /\ Halflife \in Nat /\ Cap \in Nat
    BY <2>1, Parameters DEF Typed, TypedArgs
  <2>3. Resident \in SUBSET Slabs /\ SizeOf(Resident) = SumOver(Sizes, Resident)
    BY <2>1, <2>2, PlaceIs, SizeOfIs DEF Budget
  <2>4. TypeOK
    <3>1. ScoresBounded
      BY <2>1, ScoresBoundedFrom
    <3>2. since \in 0 .. Halflife
      BY <2>1, <2>2 DEF Scored, Typed, TypedCache
    <3>3. ToSet(queue) \subseteq want
      <4>1. queue \in Seq(want)
        BY <2>1 DEF Typed, TypedReplay
      <4> QED BY <4>1, ToSetIs
    <3> QED BY <2>1, <2>3, <3>1, <3>2, <3>3 DEF TypeOK, Typed, TypedCache, TypedReplay, Resident
  <2>5. UsedIsSum
    <3>1. recency \in Seq(Slabs) /\ Distinct(recency)
      BY <2>1 DEF Typed, TypedCache, Budget
    <3>2. Cardinality(ToSet(recency)) = Len(recency)
      BY <3>1, DistinctCard
    <3> QED BY <2>1, <2>3, <3>2 DEF UsedIsSum, Budget, Resident
  <2>6. OverOnlyBesidePins
    <3>1. ASSUME NEW x PROVE Cardinality({x}) = 1
      BY FS_Singleton
    <3> QED BY <2>1, <3>1 DEF Budget, OverOnlyBesidePins
  <2>7. PinnedStay
    BY <2>1 DEF Budget, PinnedStay
  <2> QED BY <2>4, <2>5, <2>6, <2>7 DEF BudgetKept
<1> QED BY <1>1, CacheInvariant, PTL

\* Under lru and hybrid, making room for one expert of a request that fits never throws out another.
THEOREM RequestServedTheorem == Spec => []RequestServed
<1>1. ASSUME IInv PROVE RequestServed
  <2>1. SUFFICES ASSUME pc = "admit", queue = <<>>, policy \in {"lru", "hybrid"},
                        SizeOf(Asked \cup pinned) <= Cap, NEW k \in 1 .. TopK,
                        ~Skips(Slab(n, trace[n].ids[k])[2])
                 PROVE  Slab(n, trace[n].ids[k]) \in Resident
    BY DEF RequestServed, Asked
  <2>2. Typed /\ Phases /\ Served
    BY <1>1 DEF IInv
  <2>3. Asked \cup pinned \in SUBSET Slabs
    BY <2>1, <2>2, AskedSlabs DEF Phases, Typed, TypedCache
  <2>4. SumOver(Sizes, Asked \cup pinned) <= Cap
    BY <2>1, <2>2, <2>3, SizeOfIs DEF Typed, TypedArgs
  <2>5. Slab(n, trace[n].ids[k])[2] = trace[n].ids[k]
    BY DEF Slab
  <2>6. ToSet(queue) = {}
    BY <2>1 DEF ToSet
  <2> QED BY <2>1, <2>2, <2>4, <2>5, <2>6 DEF Served
<1> QED BY <1>1, CacheInvariant, PTL

\* Every access is a hit, a fetch or a skip, and just one of them.
THEOREM AccountedTheorem == Spec => []Accounted
<1>1. IInv => Accounted
  BY DEF IInv
<1> QED BY <1>1, CacheInvariant, PTL

\* Under ageing the hottest slab is never the one displaced: the newcomer would have to be hotter.
THEOREM HottestStaysTheorem == Spec => HottestStays
<1> DEFINE Stays == \A x \in Resident :
                       /\ policy = "decayed" /\ pc = "admit"
                       /\ \A y \in Slabs \ {x} : ScoreOf(score, y) < ScoreOf(score, x)
                       => x \in Resident'
<1>1. ASSUME IInv, [Next]_vars PROVE Stays
  <2>1. SUFFICES ASSUME NEW x \in Resident, policy = "decayed", pc = "admit",
                        \A y \in Slabs \ {x} : ScoreOf(score, y) < ScoreOf(score, x)
                 PROVE  x \in Resident'
    OBVIOUS
  <2>2. Typed /\ Phases /\ Budget /\ recency \in Seq(Slabs)
    BY <1>1 DEF IInv, Typed, TypedCache
  <2>3. CASE recency' = recency
    BY <2>3 DEF Resident
  <2>4. CASE Evict
    <3>1. PICK victim \in Victims : Worthwhile(victim) /\ recency' = Without(victim)
      BY <2>4 DEF Evict
    <3>2. Newcomer \in Slabs /\ Newcomer \notin Resident /\ victim \in Resident
      BY <2>2, <2>4, NewcomerIs, VictimIs DEF Evict, Admissible
    <3>3. Resident' = Resident \ {victim}
      BY <2>2, <3>1, <3>2, WithoutIs DEF Budget, Resident
    <3>4. ScoreOf(score, Newcomer) > ScoreOf(score, victim)
      BY <2>1, <3>1 DEF Worthwhile
    <3>5. \A y \in Slabs : ScoreOf(score, y) \in Int
      BY <2>2 DEF ScoreOf, Typed, TypedCache
    <3>6. x \in Slabs
      BY <2>2, PlaceIs DEF Budget
    <3>7. victim # x
      BY <2>1, <3>2, <3>4, <3>5, <3>6
    <3> QED BY <2>1, <3>3, <3>7
  <2>5. CASE Insert
    <3>1. Newcomer \in Slabs /\ recency' = Append(recency, Newcomer) /\ Newcomer \notin Resident
      BY <2>2, <2>5, NewcomerIs DEF Insert, Admissible
    <3>2. Resident' = Resident \cup {Newcomer}
      BY <2>2, <3>1, PutLast DEF Budget, Resident
    <3> QED BY <3>2
  <2> QED BY <1>1, <2>1, <2>3, <2>4, <2>5
          DEF Next, vars, cache, Preload, Hit, Miss, StartAdmit, Pass, Refuse, Read, ReadFails, Report
<1>2. HottestStays <=> [][Stays]_vars
  BY PTL DEF HottestStays
<1> QED BY <1>1, <1>2, CacheInvariant, PTL DEF Spec

-----------------------------------------------------------------------------

\* The policies whose victim depends on the trace alone.
Ordered == policy \in {"lru", "static", "hybrid"}

\* What of the state the counts of a replay depend on.
State(r, u, h, m, f, nth, jth, w, q, at) ==
    [recency |-> r, used |-> u, hits |-> h, misses |-> m, fetched |-> f, n |-> nth, j |-> jth, want |-> w, queue |-> q,
     pc |-> at]

Snap == State(recency, used, hits, misses, fetched, n, j, want, queue, pc)
Started == State(SetToSeq(Pins), SizeOf(Pins), 0, 0, 0, 1, 1, {}, <<>>, "touch")

PlaceIn(r, x) == CHOOSE k \in 1 .. Len(r) : r[k] = x
OutOf(r, x) == RemoveAt(r, PlaceIn(r, x))
SlotOf(s) == trace[s.n].ids[s.j]
ArrivalOf(s) == Slab(s.n, Head(s.queue))
FreeOf(s) == ToSet(s.recency) \ Pins
OldestOf(s) == {x \in FreeOf(s) : \A y \in FreeOf(s) : PlaceIn(s.recency, x) <= PlaceIn(s.recency, y)}
VictimOf(s) == CHOOSE x \in OldestOf(s) : TRUE

AfterHit(s) ==
    LET x == Slab(s.n, SlotOf(s))
    IN  State(Append(OutOf(s.recency, x), x), s.used, s.hits + 1, s.misses, s.fetched, s.n, s.j + 1, s.want, s.queue, s.pc)
AfterMiss(s) ==
    LET skips == policy # "static" /\ SlotOf(s) \in trace[s.n].light
    IN  State(s.recency, s.used, s.hits, s.misses + 1, s.fetched, s.n, s.j + 1,
              IF skips THEN s.want ELSE s.want \cup {SlotOf(s)}, s.queue, s.pc)
AfterTouch(s) == IF Slab(s.n, SlotOf(s)) \in ToSet(s.recency) THEN AfterHit(s) ELSE AfterMiss(s)

InOrder(w) == [k \in 1 .. Cardinality(w) |-> CHOOSE x \in w : Cardinality({y \in w : y < x}) = k - 1]
AfterPlan(s) ==
    State(s.recency, s.used, s.hits, s.misses, s.fetched, s.n, s.j, s.want,
          IF policy = "static" THEN <<>> ELSE InOrder(s.want), "admit")

AfterArrival(s) ==
    LET becomes(r, u, q) == State(r, u, s.hits, s.misses, s.fetched, s.n, s.j, s.want, q, s.pc)
        x == ArrivalOf(s)
        v == VictimOf(s)
    IN  IF x \in ToSet(s.recency) \/ Size(x) > Cap THEN becomes(s.recency, s.used, Tail(s.queue))
        ELSE IF s.used + Size(x) <= Cap \/ OldestOf(s) = {}
        THEN becomes(Append(s.recency, x), s.used + Size(x), Tail(s.queue))
        ELSE becomes(OutOf(s.recency, v), s.used - Size(v), s.queue)
AfterRead(s) ==
    State(s.recency, s.used, s.hits, s.misses, s.fetched + Cardinality(s.want), s.n + 1, 1, {}, s.queue,
          IF s.n < NRequests THEN "touch" ELSE "report")

\* The one state that follows.
Follow(s) ==
    IF s.pc = "touch" THEN (IF s.j <= TopK THEN AfterTouch(s) ELSE AfterPlan(s))
    ELSE (IF s.queue # <<>> THEN AfterArrival(s) ELSE AfterRead(s))

\* The first k steps of a replay that reports nothing before.
IsRun(f, k) ==
    /\ k \in Nat /\ f[0] = Started
    /\ \A i \in 0 .. k - 1 : f[i].pc # "report" /\ f[i + 1] = Follow(f[i])

InReplay == pc \in {"touch", "admit", "report"}

\* The replay in hand is such a run, and so is each that was reported.
Replays ==
    Ordered =>
        /\ InReplay => pinned = Pins /\ \E k, f : IsRun(f, k) /\ f[k] = Snap
        /\ \A a \in 1 .. Len(reports) : \E k, f :
              /\ IsRun(f, k) /\ f[k].pc = "report"
              /\ reports[a] = [hits |-> f[k].hits, misses |-> f[k].misses, fetched |-> f[k].fetched]

\* There is one such run.
LEMMA RunsAgree ==
    ASSUME NEW k, NEW f, IsRun(f, k), NEW m, NEW g, IsRun(g, m), f[k].pc = "report", g[m].pc = "report"
    PROVE  f[k] = g[m]
<1> DEFINE Bad == {i \in Nat : i <= k /\ i <= m /\ f[i] # g[i]}
<1>1. k \in Nat /\ m \in Nat /\ f[0] = g[0]
  BY DEF IsRun
<1>2. Bad = {}
  <2>1. SUFFICES ASSUME Bad # {} PROVE FALSE
    OBVIOUS
  <2>2. PICK i \in Bad : \A h \in Bad : i <= h
    <3>1. Bad \in SUBSET Nat
      OBVIOUS
    <3> HIDE DEF Bad
    <3> QED BY <2>1, <3>1, SmallestNat
  <2>3. i # 0 /\ i - 1 \in Nat /\ i - 1 \notin Bad
    BY <1>1, <2>2
  <2>4. f[i - 1] = g[i - 1] /\ i - 1 \in 0 .. k - 1 /\ i - 1 \in 0 .. m - 1
    BY <2>2, <2>3, <1>1
  <2>5. PICK h : h = i - 1
    OBVIOUS
  <2>6. f[h + 1] = Follow(f[h]) /\ g[h + 1] = Follow(g[h])
    BY <2>4, <2>5 DEF IsRun
  <2>7. h + 1 = i /\ f[h] = g[h]
    BY <2>2, <2>4, <2>5
  <2> QED BY <2>2, <2>6, <2>7
<1>3. \A i \in Nat : i <= k /\ i <= m => f[i] = g[i]
  BY <1>2
<1>4. ~(k < m)
  <2>1. SUFFICES ASSUME k < m PROVE FALSE
    OBVIOUS
  <2>2. g[k].pc # "report"
    BY <2>1, <1>1 DEF IsRun
  <2> QED BY <2>1, <2>2, <1>1, <1>3
<1>5. ~(m < k)
  <2>1. SUFFICES ASSUME m < k PROVE FALSE
    OBVIOUS
  <2>2. f[m].pc # "report"
    BY <2>1, <1>1 DEF IsRun
  <2> QED BY <2>1, <2>2, <1>1, <1>3
<1>6. k = m
  BY <1>1, <1>4, <1>5
<1> QED BY <1>1, <1>3, <1>6

LEMMA RepeatsAgree == ASSUME Replays PROVE OrderedRepsAgree
<1>1. SUFFICES ASSUME Ordered, NEW a \in 1 .. Len(reports), NEW b \in 1 .. Len(reports)
               PROVE  reports[a] = reports[b]
  BY DEF OrderedRepsAgree, Ordered, RepsAgree
<1>2. PICK k, f : /\ IsRun(f, k) /\ f[k].pc = "report"
                  /\ reports[a] = [hits |-> f[k].hits, misses |-> f[k].misses, fetched |-> f[k].fetched]
  BY <1>1 DEF Replays
<1>3. PICK m, g : /\ IsRun(g, m) /\ g[m].pc = "report"
                  /\ reports[b] = [hits |-> g[m].hits, misses |-> g[m].misses, fetched |-> g[m].fetched]
  BY <1>1 DEF Replays
<1>4. f[k] = g[m]
  BY <1>2, <1>3, RunsAgree
<1> QED BY <1>2, <1>3, <1>4

\* The arguments decide it.
LEMMA FollowSame ==
    ASSUME UNCHANGED args
    PROVE  /\ Pins' = Pins /\ Started' = Started /\ Ordered' = Ordered
           /\ \A s : Follow(s)' = Follow(s)
<1>1. /\ setup' = setup /\ trace' = trace /\ policy' = policy
      /\ NLayers' = NLayers /\ NSlots' = NSlots /\ TopK' = TopK /\ NRequests' = NRequests
      /\ Cap' = Cap /\ Slabs' = Slabs
      /\ \A m, slot : Slab(m, slot)' = Slab(m, slot)
  BY Same
<1>2. \A x : Size(x)' = Size(x)
  BY <1>1 DEF Size
<1>3. ASSUME NEW S PROVE SizeOf(S)' = SizeOf(S)
  BY <1>1, Zenon DEF SizeOf, Size, MapThenSumSet, MapThenFoldSet
<1>4. Half' = Half
  BY <1>1 DEF Half, Tokens
<1>5. \A x : Count(x)' = Count(x)
  BY <1>1, <1>4 DEF Count
<1>6. \A x, y : Hotter(x, y)' = Hotter(x, y)
  BY <1>5 DEF Hotter, Before
<1>7. Pins' = Pins
  BY <1>1, <1>3, <1>5, <1>6 DEF Pins
<1>8. Started' = Started
  BY <1>3, <1>7 DEF Started
<1>9. ASSUME NEW s PROVE Follow(s)' = Follow(s)
  <2>1. AfterTouch(s)' = AfterTouch(s)
    BY <1>1 DEF AfterTouch, AfterHit, AfterMiss, SlotOf
  <2>2. AfterPlan(s)' = AfterPlan(s)
    BY <1>1 DEF AfterPlan
  <2>3. ArrivalOf(s)' = ArrivalOf(s) /\ OldestOf(s)' = OldestOf(s) /\ VictimOf(s)' = VictimOf(s)
    BY <1>1, <1>7 DEF ArrivalOf, OldestOf, VictimOf, FreeOf
  <2>4. AfterArrival(s)' = AfterArrival(s)
    BY <1>1, <1>2, <2>3 DEF AfterArrival
  <2>5. AfterRead(s)' = AfterRead(s)
    BY <1>1 DEF AfterRead
  <2> QED BY <2>1, <2>2, <2>4, <2>5, <1>1 DEF Follow
<1> QED BY <1>1, <1>7, <1>8, <1>9 DEF Ordered

\* A replay that has come to s comes to what follows s.
LEMMA RunOn ==
    ASSUME NEW k, NEW f, IsRun(f, k), f[k].pc # "report"
    PROVE  \E m, g : IsRun(g, m) /\ g[m] = Follow(f[k])
<1>1. PICK g : g = [i \in 0 .. k + 1 |-> IF i = k + 1 THEN Follow(f[k]) ELSE f[i]]
  OBVIOUS
<1>2. k \in Nat /\ k + 1 \in Nat
  BY DEF IsRun
<1>3. g[k + 1] = Follow(f[k]) /\ g[0] = f[0] /\ \A i \in 0 .. k : g[i] = f[i]
  BY <1>1, <1>2
<1>4. ASSUME NEW i \in 0 .. (k + 1) - 1 PROVE g[i].pc # "report" /\ g[i + 1] = Follow(g[i])
  <2>1. CASE i = k
    BY <2>1, <1>2, <1>3
  <2>2. CASE i \in 0 .. k - 1
    <3>1. g[i] = f[i] /\ g[i + 1] = f[i + 1]
      BY <2>2, <1>2, <1>3
    <3> QED BY <3>1, <2>2 DEF IsRun
  <2> QED BY <2>1, <2>2, <1>2
<1>5. IsRun(g, k + 1)
  BY <1>2, <1>3, <1>4 DEF IsRun
<1> QED BY <1>3, <1>5

LEMMA SnapIs ==
    ASSUME NEW s, s = Snap
    PROVE  /\ s.recency = recency /\ s.used = used /\ s.hits = hits /\ s.misses = misses /\ s.fetched = fetched
           /\ s.n = n /\ s.j = j /\ s.want = want /\ s.queue = queue /\ s.pc = pc
BY DEF Snap, State

\* Each step within a replay is the one that follows.
LEMMA TouchFollows ==
    ASSUME IInv, Ordered, Hit \/ Miss \/ StartAdmit
    PROVE  Snap' = Follow(Snap)
<1>1. PICK s : s = Snap
  OBVIOUS
<1>2. /\ s.recency = recency /\ s.used = used /\ s.hits = hits /\ s.misses = misses /\ s.fetched = fetched
      /\ s.n = n /\ s.j = j /\ s.want = want /\ s.queue = queue /\ s.pc = pc
  BY <1>1, SnapIs
<1>3. pc = "touch" /\ SlotOf(s) = trace[n].ids[j]
  BY <1>2 DEF Hit, Miss, StartAdmit, SlotOf
<1>4. CASE Hit
  <2>1. Follow(s) = AfterHit(s)
    BY <1>2, <1>3, <1>4 DEF Hit, Follow, AfterTouch, Resident
  <2>2. recency' = Append(OutOf(recency, Slab(n, SlotOf(s))), Slab(n, SlotOf(s)))
    BY <1>3, <1>4 DEF Hit, OutOf, PlaceIn, Without, Place
  <2>3. AfterHit(s) = Snap'
    BY <1>1, <1>2, <1>4, <2>2 DEF Hit, AfterHit, Snap
  <2> QED BY <2>1, <2>3, <1>1
<1>5. CASE Miss
  <2>1. Follow(s) = AfterMiss(s)
    BY <1>2, <1>3, <1>5 DEF Miss, Follow, AfterTouch, Resident
  <2>2. want' = IF policy # "static" /\ SlotOf(s) \in trace[n].light THEN want ELSE want \cup {SlotOf(s)}
    BY <1>3, <1>5 DEF Miss, Skips
  <2>3. AfterMiss(s) = Snap'
    BY <1>1, <1>2, <1>5, <2>2 DEF Miss, AfterMiss, Snap
  <2> QED BY <2>1, <2>3, <1>1
<1>6. CASE StartAdmit
  <2>1. Follow(s) = AfterPlan(s)
    <3>1. j \in Int /\ TopK \in Int /\ ~(j <= TopK)
      BY <1>6, Parameters DEF StartAdmit, IInv, Typed, TypedArgs, TypedReplay
    <3> QED BY <1>2, <1>3, <3>1 DEF Follow
  <2>2. queue' = IF policy = "static" THEN <<>> ELSE InOrder(want)
    BY <1>6 DEF StartAdmit, InOrder
  <2>3. AfterPlan(s) = Snap'
    BY <1>1, <1>2, <1>6, <2>2 DEF StartAdmit, AfterPlan, Snap, cache
  <2> QED BY <2>1, <2>3, <1>1
<1> QED BY <1>4, <1>5, <1>6

\* The oldest slab that may go is one slab, the one Follow takes.
LEMMA OldestIs ==
    ASSUME IInv, Ordered, pinned = Pins, NEW s, s = Snap
    PROVE  /\ OldestOf(s) = Victims
           /\ \A v \in Victims : v = VictimOf(s)
<1>1. s.recency = recency
  BY SnapIs
<1>2. \A x : PlaceIn(s.recency, x) = Place(x)
  BY <1>1 DEF PlaceIn, Place
<1>3. FreeOf(s) = Evictable
  BY <1>1 DEF FreeOf, Evictable, Resident
<1>4. OldestOf(s) = Oldest
  BY <1>2, <1>3 DEF OldestOf, Oldest
<1>5. Victims = Oldest
  BY DEF Victims, Ordered
<1>6. \A x, y \in Oldest : x = y
  <2>1. SUFFICES ASSUME NEW x \in Oldest, NEW y \in Oldest PROVE x = y
    OBVIOUS
  <2>2. x \in Resident /\ y \in Resident /\ Place(x) <= Place(y) /\ Place(y) <= Place(x)
    BY DEF Oldest, Evictable
  <2>3. Typed /\ Distinct(recency)
    BY DEF IInv, Budget
  <2>4. Place(x) \in 1 .. Len(recency) /\ recency[Place(x)] = x
    BY <2>2, <2>3, PlaceIs
  <2>5. Place(y) \in 1 .. Len(recency) /\ recency[Place(y)] = y
    BY <2>2, <2>3, PlaceIs
  <2>6. Place(x) = Place(y)
    BY <2>2, <2>4, <2>5
  <2> QED BY <2>4, <2>5, <2>6
<1> QED BY <1>4, <1>5, <1>6 DEF VictimOf

LEMMA AdmitFollows ==
    ASSUME IInv, Ordered, pinned = Pins, Pass \/ Evict \/ Refuse \/ Insert \/ Read
    PROVE  Snap' = Follow(Snap)
<1>1. PICK s : s = Snap
  OBVIOUS
<1>2. /\ s.recency = recency /\ s.used = used /\ s.hits = hits /\ s.misses = misses /\ s.fetched = fetched
      /\ s.n = n /\ s.j = j /\ s.want = want /\ s.queue = queue /\ s.pc = pc
  BY <1>1, SnapIs
<1>3. pc = "admit" /\ pc # "touch"
  BY DEF Pass, Evict, Refuse, Insert, Read, Admissible
<1>4. ArrivalOf(s) = Newcomer /\ ToSet(s.recency) = Resident
  BY <1>2 DEF ArrivalOf, Newcomer, Resident
<1>5. OldestOf(s) = Victims /\ \A v \in Victims : v = VictimOf(s)
  BY <1>1, OldestIs
<1>6. CASE Pass
  <2>1. Follow(s) = AfterArrival(s)
    BY <1>2, <1>3, <1>6 DEF Pass, Follow
  <2>2. AfterArrival(s) = Snap'
    BY <1>2, <1>4, <1>6 DEF Pass, AfterArrival, Snap, cache
  <2> QED BY <2>1, <2>2, <1>1
<1>7. ASSUME Evict \/ Refuse \/ Insert PROVE Follow(s) = AfterArrival(s) /\ Newcomer \notin Resident /\ ~(Size(Newcomer) > Cap)
  <2>1. Admissible
    BY <1>7 DEF Evict, Refuse, Insert
  <2>2. Follow(s) = AfterArrival(s)
    BY <1>2, <1>3, <2>1 DEF Admissible, Follow
  <2>3. queue # <<>> /\ Newcomer \notin Resident /\ Size(Newcomer) <= Cap /\ Typed /\ Phases
    BY <2>1 DEF Admissible, IInv
  <2>4. Newcomer \in Slabs /\ setup \in DOMAIN Setups
    BY <1>3, <2>3, NewcomerIs DEF Typed, TypedArgs
  <2>5. Size(Newcomer) \in Int /\ Cap \in Int
    BY <2>4, Parameters DEF Size, Slabs, Layers, NLayers
  <2> QED BY <2>2, <2>3, <2>5
<1>8. CASE Evict
  <2>1. PICK victim \in Victims : recency' = Without(victim) /\ used' = used - Size(victim)
    BY <1>8 DEF Evict
  <2>2. victim = VictimOf(s) /\ OldestOf(s) # {}
    BY <1>5, <2>1
  <2>3. recency' = OutOf(recency, VictimOf(s))
    BY <2>1, <2>2 DEF OutOf, PlaceIn, Without, Place
  <2>4. AfterArrival(s) = Snap'
    BY <1>2, <1>4, <1>7, <1>8, <2>1, <2>2, <2>3 DEF Evict, AfterArrival, Snap, Fits
  <2> QED BY <1>7, <1>8, <2>4, <1>1
<1>9. CASE Refuse
  <2>1. FALSE
    BY <1>9 DEF Refuse, Worthwhile, Ordered
  <2> QED BY <2>1
<1>10. CASE Insert
  <2>1. AfterArrival(s) = Snap'
    BY <1>2, <1>4, <1>5, <1>7, <1>10 DEF Insert, AfterArrival, Snap, Fits
  <2> QED BY <1>7, <1>10, <2>1, <1>1
<1>11. CASE Read
  <2>1. Follow(s) = AfterRead(s)
    BY <1>2, <1>3, <1>11 DEF Read, Follow
  <2>2. AfterRead(s) = Snap'
    BY <1>2, <1>11 DEF Read, AfterRead, Snap, cache
  <2> QED BY <2>1, <2>2, <1>1
<1> QED BY <1>6, <1>8, <1>9, <1>10, <1>11

LEMMA RepeatsBegins == ASSUME Init PROVE Replays
<1>1. pc = "preload" /\ reports = <<>>
  BY DEF Init
<1>2. ~InReplay /\ 1 .. Len(reports) = {}
  BY <1>1 DEF InReplay
<1> QED BY <1>2 DEF Replays

LEMMA RepeatsKept ==
    ASSUME IInv, Replays, [Next]_vars
    PROVE  Replays'
<1>1. UNCHANGED args
  BY ArgsStay
<1>2. Pins' = Pins /\ Started' = Started /\ Ordered' = Ordered /\ \A s : Follow(s)' = Follow(s)
  BY <1>1, FollowSame
<1>3. \A f, k : IsRun(f, k)' = IsRun(f, k)
  BY <1>2 DEF IsRun
<1>4. SUFFICES ASSUME Ordered PROVE Replays'
  BY <1>2 DEF Replays
<1>5. /\ InReplay => pinned = Pins /\ \E k, f : IsRun(f, k) /\ f[k] = Snap
      /\ \A a \in 1 .. Len(reports) : \E k, f :
            /\ IsRun(f, k) /\ f[k].pc = "report"
            /\ reports[a] = [hits |-> f[k].hits, misses |-> f[k].misses, fetched |-> f[k].fetched]
  BY <1>4 DEF Replays
<1>6. SUFFICES /\ InReplay' => pinned' = Pins /\ \E k, f : IsRun(f, k) /\ f[k] = Snap'
               /\ \A a \in 1 .. Len(reports') : \E k, f :
                     /\ IsRun(f, k) /\ f[k].pc = "report"
                     /\ reports'[a] = [hits |-> f[k].hits, misses |-> f[k].misses, fetched |-> f[k].fetched]
  BY <1>2, <1>3 DEF Replays
<1>7. CASE Preload
  <2>1. reports' = reports /\ pinned' = Pins /\ Snap' = Started
    BY <1>7 DEF Preload, Snap, Started
  <2>2. PICK f : f = [i \in {0} |-> Started]
    OBVIOUS
  <2>3. IsRun(f, 0) /\ f[0] = Started
    BY <2>2 DEF IsRun
  <2> QED BY <1>5, <2>1, <2>3
<1>8. CASE Hit \/ Miss \/ StartAdmit \/ Pass \/ Evict \/ Refuse \/ Insert \/ Read
  <2>1. pc \in {"touch", "admit"} /\ pinned' = pinned /\ reports' = reports
    BY <1>8 DEF Hit, Miss, StartAdmit, Pass, Evict, Refuse, Insert, Read, Admissible, cache
  <2>2. pinned = Pins
    BY <1>5, <2>1 DEF InReplay
  <2>3. PICK k, f : IsRun(f, k) /\ f[k] = Snap
    BY <1>5, <2>1 DEF InReplay
  <2>4. f[k].pc # "report"
    BY <2>1, <2>3, SnapIs
  <2>5. Snap' = Follow(Snap)
    BY <1>4, <1>8, <2>2, TouchFollows, AdmitFollows
  <2>6. \E m, g : IsRun(g, m) /\ g[m] = Snap'
    BY <2>3, <2>4, <2>5, RunOn
  <2> QED BY <1>5, <2>1, <2>2, <2>6
<1>9. CASE ReadFails
  <2>1. ~InReplay' /\ reports' = reports
    BY <1>9 DEF ReadFails, InReplay
  <2> QED BY <1>5, <2>1
<1>10. CASE Report
  <2>1. ~InReplay' /\ pc = "report" /\ InReplay
    BY <1>10 DEF Report, InReplay
  <2>2. PICK r : r = [hits |-> hits, misses |-> misses, fetched |-> fetched]
    OBVIOUS
  <2>3. reports' = Append(reports, r)
    BY <1>10, <2>2 DEF Report
  <2>4. reports \in Seq([hits : Nat, misses : Nat, fetched : Nat]) /\ r \in [hits : Nat, misses : Nat, fetched : Nat]
    BY <2>2 DEF IInv, Typed, TypedReplay
  <2>5. Len(reports') = Len(reports) + 1 /\ reports'[Len(reports) + 1] = r /\ Len(reports) \in Nat
        /\ \A a \in 1 .. Len(reports) : reports'[a] = reports[a]
    BY <2>3, <2>4, AppendProperties, LenProperties
  <2>6. PICK k, f : IsRun(f, k) /\ f[k] = Snap
    BY <1>5, <2>1
  <2>7. f[k].pc = "report" /\ r = [hits |-> f[k].hits, misses |-> f[k].misses, fetched |-> f[k].fetched]
    BY <2>1, <2>2, <2>6, SnapIs
  <2>8. ASSUME NEW a \in 1 .. Len(reports')
        PROVE  \E m, g : /\ IsRun(g, m) /\ g[m].pc = "report"
                         /\ reports'[a] = [hits |-> g[m].hits, misses |-> g[m].misses, fetched |-> g[m].fetched]
    <3>1. CASE a \in 1 .. Len(reports)
      <4>1. reports'[a] = reports[a]
        BY <3>1, <2>5
      <4>2. PICK m, g : /\ IsRun(g, m) /\ g[m].pc = "report"
                        /\ reports[a] = [hits |-> g[m].hits, misses |-> g[m].misses, fetched |-> g[m].fetched]
        BY <3>1, <1>5
      <4> QED BY <4>1, <4>2
    <3>2. CASE a = Len(reports) + 1
      BY <3>2, <2>5, <2>6, <2>7
    <3> QED BY <3>1, <3>2, <2>5
  <2> QED BY <2>1, <2>8
<1>11. CASE UNCHANGED vars
  <2>1. Snap' = Snap /\ pinned' = pinned /\ reports' = reports /\ pc' = pc
    BY <1>11 DEF vars, cache, Snap
  <2> QED BY <1>5, <2>1 DEF InReplay
<1> QED BY <1>7, <1>8, <1>9, <1>10, <1>11 DEF Next

\* What run_cache prints is sound, for every model, trace, cap and number of repetitions: each access
\* is counted once, and under the policies that make no random choice the repetitions count alike.
THEOREM ReportsSoundTheorem == Spec => []ReportsSound
<1>1. Init => IInv /\ Replays
  BY IInvInit, RepeatsBegins
<1>2. IInv /\ Replays /\ IInv' /\ [Next]_vars => Replays'
  BY RepeatsKept
<1>3. IInv /\ Replays => ReportsSound
  BY RepeatsAgree DEF IInv, ReportsSound
<1> QED BY <1>1, <1>2, <1>3, CacheInvariant, PTL DEF Spec

-----------------------------------------------------------------------------
(* ReadAll.  A range whose index has been handed out is done, being read by
   one worker, or lost to a read error.  The inductive invariant counts the
   lost ranges and, as long as indices are left, the workers that have
   stopped: neither number exceeds that of the errors. *)

Reading(w) == worker[w].pc = "read"
ReadingIt(i) == \E w \in Workers : Reading(w) /\ worker[w].i = i
\* Where reading range i stops: its end or the end of the file.
Halt(i) == Min({End(ranges[i]), FileLen})

Stopped == {w \in Active : worker[w].pc = "stopped"}
Lost == {i \in DOMAIN ranges : i < next /\ i \notin done /\ ~ReadingIt(i)}

ReadTyped ==
    /\ threads \in 0 .. MaxThreads /\ ranges \in Plans
    /\ next \in Nat \ {0} /\ total \in Nat /\ errors \in 0 .. MaxErrors
    /\ worker \in [Workers -> [pc : {"take", "read", "stopped"}, i : 0 .. Len(ranges), pos : Nat, n : Nat]]
    /\ got \in [DOMAIN ranges -> Nat]
    /\ done \in SUBSET DOMAIN ranges
    /\ result \in {"running", "ok", "error"}

\* A worker in read_range owns its range: it alone reads it, at the place its locals say.
Owned ==
    \A w \in Workers : Reading(w) =>
        LET i == worker[w].i
        IN  /\ w \in Active
            /\ i \in DOMAIN ranges /\ i < next /\ i \notin done
            /\ got[i] = worker[w].n
            /\ worker[w].pos = First(ranges[i]) + worker[w].n
            /\ worker[w].n > 0 => worker[w].pos <= Halt(i)
            /\ \A v \in Workers : Reading(v) /\ worker[v].i = i => v = w

\* What has not been handed out is untouched; what is done is read to its end; what is lost
\* is not read any further.
Accounts ==
    \A i \in DOMAIN ranges :
        /\ i >= next => i \notin done /\ got[i] = 0
        /\ i \in done => got[i] = Extent(i)
        /\ got[i] <= Extent(i)

Counted ==
    /\ result # "error" => Cardinality(Lost) <= errors
    /\ result # "error" /\ next <= Len(ranges) => Cardinality(Stopped) <= errors
    /\ result = "ok" => \A w \in Active : worker[w].pc = "stopped"
    /\ next <= Len(ranges) + 1 + Cardinality(Stopped)

ReadInv == ReadTyped /\ Owned /\ Accounts /\ Counted

-----------------------------------------------------------------------------
(* Arithmetic, and the sets that are counted. *)

\* The smaller and the larger of two numbers.
LEMMA MinOfTwo ==
  ASSUME NEW a \in Int, NEW b \in Int
  PROVE  Min({a, b}) = IF a <= b THEN a ELSE b
  BY DEF Min

\* The maximum of two numbers.
LEMMA MaxOfTwo ==
  ASSUME NEW a \in Int, NEW b \in Int
  PROVE  Max({a, b}) = IF a >= b THEN a ELSE b
  BY DEF Max

\* Rounding down to the alignment keeps a number natural.
LEMMA RoundDownNat ==
  ASSUME NEW x \in Nat
  PROVE  RoundDown(x) \in Nat
<1>1. x \div Align \in Nat
  BY AlignAssumption
<1> QED
  BY <1>1, AlignAssumption DEF RoundDown

\* Where a range begins and ends are numbers.
LEMMA Bounds ==
  ASSUME NEW p \in Plans, NEW i \in DOMAIN p
  PROVE  /\ First(p[i]) \in Nat
         /\ End(p[i]) \in Nat
<1>1. p[i] \in Nat \X Nat
  BY PlansAssumption
<1>2. p[i][1] \in Nat /\ p[i][2] \in Nat
  BY <1>1
<1>3. FileLen \in Nat /\ Align \in Nat \ {0}
  BY PlansAssumption, AlignAssumption
<1>4. Min({p[i][1] + p[i][2], FileLen}) \in Nat
  BY <1>2, <1>3, MinOfTwo
<1>5. \A x \in Nat : RoundUp(x) \in Nat
  <2> SUFFICES ASSUME NEW x \in Nat PROVE RoundUp(x) \in Nat
    OBVIOUS
  <2>1. x + Align - 1 \in Nat
    BY <1>3
  <2> QED
    BY <2>1, RoundDownNat DEF RoundUp
<1>6. End(p[i]) \in Nat
  <2> DEFINE a == RoundUp(Min({p[i][1] + p[i][2], FileLen}))
             b == RoundUp(FileLen)
  <2>1. a \in Nat /\ b \in Nat
    BY <1>3, <1>4, <1>5
  <2>2. End(p[i]) = Min({a, b})
    BY DEF End
  <2> HIDE DEF a, b
  <2>3. Min({a, b}) = IF a <= b THEN a ELSE b
    BY <2>1, MinOfTwo
  <2> QED
    BY <2>1, <2>2, <2>3
<1> QED
  BY <1>2, <1>6, RoundDownNat DEF First

\* The bytes a plan reads: from its aligned start to its aligned end or the end of the file.
LEMMA ExtentIs ==
  ASSUME ReadTyped, NEW i \in DOMAIN ranges
  PROVE  /\ First(ranges[i]) \in Nat /\ Halt(i) \in Nat /\ End(ranges[i]) \in Nat
         /\ Halt(i) = IF End(ranges[i]) <= FileLen THEN End(ranges[i]) ELSE FileLen
         /\ Extent(i) \in Nat
         /\ Extent(i) = IF Halt(i) <= First(ranges[i]) THEN 0 ELSE Halt(i) - First(ranges[i])
<1>1. First(ranges[i]) \in Nat /\ End(ranges[i]) \in Nat /\ FileLen \in Nat
  BY Bounds, PlansAssumption DEF ReadTyped
<1>2. Halt(i) = IF End(ranges[i]) <= FileLen THEN End(ranges[i]) ELSE FileLen
  BY <1>1, MinOfTwo DEF Halt
<1>3. Halt(i) \in Nat
  BY <1>1, <1>2
<1>4. Extent(i) = IF 0 >= Halt(i) - First(ranges[i]) THEN 0 ELSE Halt(i) - First(ranges[i])
  BY <1>1, <1>3, MaxOfTwo DEF Extent, Halt
<1> QED
  BY <1>1, <1>2, <1>3, <1>4

\* The plans are indexed by an interval, and there are finitely many.
LEMMA Indices ==
  ASSUME ReadTyped
  PROVE  /\ DOMAIN ranges = 1 .. Len(ranges) /\ Len(ranges) \in Nat
         /\ IsFiniteSet(DOMAIN ranges) /\ Cardinality(DOMAIN ranges) = Len(ranges)
<1>1. ranges \in Seq(Nat \X Nat)
  BY PlansAssumption DEF ReadTyped
<1>2. DOMAIN ranges = 1 .. Len(ranges) /\ Len(ranges) \in Nat
  BY <1>1
<1>3. IsFiniteSet(1 .. Len(ranges)) /\ Cardinality(1 .. Len(ranges)) = Len(ranges)
  <2>1. /\ IsFiniteSet(1 .. Len(ranges))
        /\ Cardinality(1 .. Len(ranges)) = IF 1 > Len(ranges) THEN 0 ELSE Len(ranges) - 1 + 1
    BY <1>2, FS_Interval
  <2> QED
    BY <1>2, <2>1
<1> QED
  BY <1>2, <1>3

\* Finitely many workers are active.
LEMMA ActiveFinite ==
  ASSUME threads \in 0 .. MaxThreads
  PROVE  /\ Active \subseteq Workers /\ IsFiniteSet(Active) /\ IsFiniteSet(Workers)
         /\ threads >= 1 => Cardinality(Active) = threads
         /\ 1 \in Active
<1> DEFINE k == IF threads = 0 THEN 1 ELSE threads
<1>1. Active = 1 .. k /\ k \in Nat /\ k >= 1
  BY PlansAssumption DEF Active
<1>2. IsFiniteSet(1 .. k) /\ Cardinality(1 .. k) = k
  <2>1. IsFiniteSet(1 .. k) /\ Cardinality(1 .. k) = IF 1 > k THEN 0 ELSE k - 1 + 1
    BY <1>1, FS_Interval
  <2> QED
    BY <1>1, <2>1
<1>3. IsFiniteSet(Workers)
  BY FS_Interval, PlansAssumption DEF Workers
<1>4. Active \subseteq Workers
  BY <1>1, PlansAssumption DEF Workers
<1> QED
  BY <1>1, <1>2, <1>3, <1>4

\* The sets that are counted are finite.
LEMMA CountsFinite ==
  ASSUME ReadTyped
  PROVE  /\ IsFiniteSet(Lost) /\ Cardinality(Lost) \in Nat
         /\ IsFiniteSet(Stopped) /\ Cardinality(Stopped) \in Nat
<1>1. Lost \subseteq DOMAIN ranges /\ Stopped \subseteq Active
  BY DEF Lost, Stopped
<1>2. IsFiniteSet(Lost) /\ IsFiniteSet(Stopped)
  BY <1>1, Indices, ActiveFinite, FS_Subset DEF ReadTyped
<1> QED
  BY <1>2, FS_CardinalityType

\* A subset, and a set with at most one element more, against a bound.
LEMMA NoMore ==
  ASSUME NEW S, IsFiniteSet(S), NEW T, T \subseteq S, NEW k \in Nat, Cardinality(S) <= k
  PROVE  Cardinality(T) <= k
<1>1. IsFiniteSet(T) /\ Cardinality(T) <= Cardinality(S)
  BY FS_Subset
<1> QED
  BY <1>1, FS_CardinalityType

\* A set with at most one element more than another has at most one more to count.
LEMMA OneMore ==
  ASSUME NEW S, IsFiniteSet(S), NEW x, NEW T, T \subseteq S \cup {x}, NEW k \in Nat, Cardinality(S) <= k
  PROVE  Cardinality(T) <= k + 1
<1>1. IsFiniteSet(S \cup {x}) /\ Cardinality(S \cup {x}) <= k + 1
  <2>1. /\ IsFiniteSet(S \cup {x})
        /\ Cardinality(S \cup {x}) = IF x \in S THEN Cardinality(S) ELSE Cardinality(S) + 1
    BY FS_AddElement
  <2>2. Cardinality(S) \in Nat
    BY FS_CardinalityType
  <2> QED
    BY <2>1, <2>2
<1> QED
  BY <1>1, NoMore

-----------------------------------------------------------------------------
(* The invariant, one lemma per action. *)

\* Before the first worker starts everything is accounted for.
LEMMA InitInv == ReadInit => ReadInv
<1> SUFFICES ASSUME ReadInit PROVE ReadInv
  OBVIOUS
<1>1. ReadTyped
  <2>1. ranges \in Seq(Nat \X Nat)
    BY PlansAssumption DEF ReadInit
  <2> QED
    BY <2>1, PlansAssumption DEF ReadInit, ReadTyped
<1>2. Owned
  BY <1>1 DEF ReadInit, Owned, Reading, ReadTyped
<1>3. Accounts
  <2> SUFFICES ASSUME NEW i \in DOMAIN ranges
               PROVE  /\ i >= next => i \notin done /\ got[i] = 0
                      /\ i \in done => got[i] = Extent(i)
                      /\ got[i] <= Extent(i)
    BY DEF Accounts
  <2>1. Extent(i) \in Nat
    BY <1>1, ExtentIs
  <2> QED
    BY <2>1 DEF ReadInit
<1>4. Counted
  <2>1. Lost = {}
    BY <1>1, Indices DEF ReadInit, Lost
  <2>2. Stopped = {}
    BY ActiveFinite, PlansAssumption DEF ReadInit, Stopped
  <2> QED
    BY <2>1, <2>2, FS_EmptySet, PlansAssumption DEF ReadInit, Counted
<1> QED
  BY <1>1, <1>2, <1>3, <1>4 DEF ReadInv

LEMMA TakeInv ==
  ASSUME ReadInv, NEW w \in Workers, Take(w)
  PROVE  ReadInv'
<1> USE DEF Take, At, Goto
<1>1. ReadTyped /\ Owned /\ Accounts /\ Counted /\ result = "running"
  BY DEF ReadInv
<1>2. ~Reading(w) /\ w \in Active
  BY <1>1 DEF Reading, ReadTyped
<1>3. \A v \in Workers \ {w} : worker'[v] = worker[v]
  BY <1>1 DEF ReadTyped
<1>a. DOMAIN ranges = 1 .. Len(ranges) /\ Len(ranges) \in Nat /\ next \in Nat
  BY <1>1, Indices DEF ReadTyped
<1>4. /\ next \in DOMAIN ranges => worker'[w] = [pc |-> "read", i |-> next, pos |-> First(ranges[next]), n |-> 0]
      /\ next \notin DOMAIN ranges => worker'[w].pc = "stopped"
  BY <1>1 DEF ReadTyped
<1>5. ReadTyped'
  <2>1. CASE next \in DOMAIN ranges
    <3>1. First(ranges[next]) \in Nat /\ next \in 0 .. Len(ranges)
      BY <1>1, <1>a, <2>1, ExtentIs
    <3>2. [pc |-> "read", i |-> next, pos |-> First(ranges[next]), n |-> 0]
             \in [pc : {"take", "read", "stopped"}, i : 0 .. Len(ranges), pos : Nat, n : Nat]
      BY <3>1
    <3>4. worker' = [worker EXCEPT ![w] = [pc |-> "read", i |-> next, pos |-> First(ranges[next]), n |-> 0]]
      BY <2>1
    <3>5. worker \in [Workers -> [pc : {"take", "read", "stopped"}, i : 0 .. Len(ranges), pos : Nat, n : Nat]]
      BY <1>1 DEF ReadTyped
    <3>3. worker' \in [Workers -> [pc : {"take", "read", "stopped"}, i : 0 .. Len(ranges), pos : Nat, n : Nat]]
      BY ONLY <3>2, <3>4, <3>5, w \in Workers
    <3> QED
      BY <1>1, <1>a, <3>3 DEF ReadTyped
  <2>2. CASE next \notin DOMAIN ranges
    <3>1. worker' \in [Workers -> [pc : {"take", "read", "stopped"}, i : 0 .. Len(ranges), pos : Nat, n : Nat]]
      <4>1. worker' = [worker EXCEPT ![w] = [worker[w] EXCEPT !.pc = "stopped"]]
        BY <2>2
      <4>2. worker \in [Workers -> [pc : {"take", "read", "stopped"}, i : 0 .. Len(ranges), pos : Nat, n : Nat]]
        BY <1>1 DEF ReadTyped
      <4>3. [worker[w] EXCEPT !.pc = "stopped"]
               \in [pc : {"take", "read", "stopped"}, i : 0 .. Len(ranges), pos : Nat, n : Nat]
        BY <4>2
      <4> QED
        BY ONLY <4>1, <4>2, <4>3, w \in Workers
    <3> QED
      BY <1>1, <1>a, <3>1 DEF ReadTyped
  <2> QED
    BY <2>1, <2>2
<1>6. Owned'
  <2> SUFFICES ASSUME NEW v \in Workers, Reading(v)'
               PROVE  LET i == worker'[v].i
                      IN  /\ v \in Active
                          /\ i \in DOMAIN ranges /\ i < next' /\ i \notin done
                          /\ got[i] = worker'[v].n
                          /\ worker'[v].pos = First(ranges[i]) + worker'[v].n
                          /\ worker'[v].n > 0 => worker'[v].pos <= Halt(i)
                          /\ \A u \in Workers : Reading(u)' /\ worker'[u].i = i => u = v
    BY DEF Owned, Active, Halt
  <2>1. CASE v = w
    <3>1. next \in DOMAIN ranges /\ worker'[w].i = next /\ worker'[w].n = 0 /\ worker'[w].pos = First(ranges[next])
      BY <2>1, <1>4 DEF Reading
    <3>2. got[next] = 0 /\ next \notin done
      BY <1>1, <1>a, <3>1 DEF Accounts
    <3>3. \A u \in Workers : Reading(u)' /\ worker'[u].i = next => u = w
      BY <1>1, <1>3, <1>a DEF Owned, Reading
    <3>4. First(ranges[next]) \in Nat
      BY <1>1, <3>1, ExtentIs
    <3> QED
      BY <2>1, <1>2, <1>a, <3>1, <3>2, <3>3, <3>4
  <2>2. CASE v # w
    <3>1. Reading(v) /\ worker'[v] = worker[v]
      BY <2>2, <1>3 DEF Reading
    <3>2. \A u \in Workers : Reading(u)' /\ worker'[u].i = worker[v].i => u = v
      BY <1>1, <1>3, <1>4, <1>a, <3>1 DEF Owned, Reading
    <3> QED
      BY <1>1, <1>a, <3>1, <3>2 DEF Owned
  <2> QED
    BY <2>1, <2>2
<1>7. Accounts'
  <2> SUFFICES ASSUME NEW i \in DOMAIN ranges
               PROVE  /\ i >= next + 1 => i \notin done /\ got[i] = 0
                      /\ i \in done => got[i] = Extent(i)
                      /\ got[i] <= Extent(i)
    BY DEF Accounts, Extent
  <2>1. i \in Nat
    BY <1>a
  <2> QED
    BY <1>1, <1>a, <2>1 DEF Accounts
<1>8. Counted'
  <2>1. Lost' \subseteq Lost
    <3> SUFFICES ASSUME NEW i \in DOMAIN ranges, i < next + 1, i \notin done, ~ReadingIt(i)'
                 PROVE  i < next /\ ~ReadingIt(i)
      BY DEF Lost
    <3>1. i # next
      BY <1>4 DEF ReadingIt, Reading
    <3> QED
      BY <1>2, <1>3, <1>a, <3>1 DEF ReadingIt, Reading
  <2>2. next' <= Len(ranges) => Stopped' \subseteq Stopped
    BY <1>2, <1>3, <1>4, <1>a, ActiveFinite, <1>1 DEF Stopped, Active, ReadTyped
  <2>3. errors \in Nat
    BY <1>1, PlansAssumption DEF ReadTyped
  <2>4. Cardinality(Lost') <= errors
    BY <1>1, <2>1, <2>3, CountsFinite, NoMore DEF Counted
  <2>5. next' <= Len(ranges) => Cardinality(Stopped') <= errors
    BY <1>1, <1>a, <2>2, <2>3, CountsFinite, NoMore DEF Counted
  <2>6. next' <= Len(ranges) + 1 + Cardinality(Stopped')
    <3>1. IsFiniteSet(Stopped) /\ Cardinality(Stopped) \in Nat
      BY <1>1, CountsFinite
    <3>2. CASE next \in DOMAIN ranges
      <4>1. Stopped' = Stopped
        <5>1. worker[w].pc = "take" /\ worker'[w].pc = "read"
          BY <1>4, <3>2
        <5>2. \A v \in Active : worker'[v].pc = "stopped" <=> worker[v].pc = "stopped"
          BY <1>1, <1>3, <5>1, ActiveFinite DEF ReadTyped
        <5> QED
          BY <5>2 DEF Stopped, Active
      <4> QED
        BY <1>a, <3>1, <3>2, <4>1
    <3>3. CASE next \notin DOMAIN ranges
      <4>1. Stopped' = Stopped \cup {w} /\ w \notin Stopped
        BY <1>1, <1>2, <1>3, <1>4, <3>3, ActiveFinite DEF Stopped, Active, ReadTyped
      <4>2. Cardinality(Stopped \cup {w}) = Cardinality(Stopped) + 1
        BY <3>1, <4>1, FS_AddElement
      <4> QED
        BY <1>1, <1>a, <3>1, <4>1, <4>2 DEF Counted
    <3> QED
      BY <3>2, <3>3
  <2> QED
    BY <1>1, <2>4, <2>5, <2>6 DEF Counted
<1> QED
  BY <1>5, <1>6, <1>7, <1>8 DEF ReadInv

LEMMA PreadInv ==
  ASSUME ReadInv, NEW w \in Workers, Pread(w)
  PROVE  ReadInv'
<1> USE DEF Pread, At
<1>1. ReadTyped /\ Owned /\ Accounts /\ Counted /\ Reading(w)
  BY DEF ReadInv, Reading
<1> DEFINE i == worker[w].i
           m == Halt(i)
<1>2. i \in DOMAIN ranges /\ i < next /\ i \notin done /\ got[i] = worker[w].n
      /\ worker[w].pos = First(ranges[i]) + worker[w].n /\ w \in Active
  BY <1>1 DEF Owned
<1>3. /\ First(ranges[i]) \in Nat /\ m \in Nat /\ End(ranges[i]) \in Nat
      /\ m = IF End(ranges[i]) <= FileLen THEN End(ranges[i]) ELSE FileLen
      /\ Extent(i) = IF m <= First(ranges[i]) THEN 0 ELSE m - First(ranges[i])
  BY <1>1, <1>2, ExtentIs
<1>4. worker[w].pos \in Nat /\ worker[w].n \in Nat /\ FileLen \in Nat /\ Capacity \in Int
  <2>1. Capacity \in Int
    BY AlignAssumption DEF Capacity
  <2> QED
    BY <1>1, <2>1, PlansAssumption DEF ReadTyped
<1>5. PICK k \in 1 .. Min({Wanted(w), FileLen - worker[w].pos}) :
          /\ worker' = [worker EXCEPT ![w].pos = @ + k, ![w].n = @ + k]
          /\ got' = [got EXCEPT ![i] = @ + k]
  OBVIOUS
<1>6. k \in Nat \ {0} /\ worker[w].pos + k <= m
  <2>1. Wanted(w) \in Int /\ Wanted(w) <= End(ranges[i]) - worker[w].pos
    BY <1>3, <1>4, MinOfTwo DEF Wanted
  <2>2. Min({Wanted(w), FileLen - worker[w].pos})
           = IF Wanted(w) <= FileLen - worker[w].pos THEN Wanted(w) ELSE FileLen - worker[w].pos
    BY <2>1, <1>4, MinOfTwo
  <2> QED
    BY <1>3, <1>4, <1>5, <2>1, <2>2
<1>7. /\ worker'[w].pc = "read" /\ worker'[w].i = i
      /\ worker'[w].pos = worker[w].pos + k /\ worker'[w].n = worker[w].n + k
      /\ \A v \in Workers \ {w} : worker'[v] = worker[v]
      /\ got'[i] = got[i] + k /\ \A x \in DOMAIN ranges \ {i} : got'[x] = got[x]
  BY <1>1, <1>2, <1>5 DEF ReadTyped
<1>8. ReadTyped'
  <2>1. worker' \in [Workers -> [pc : {"take", "read", "stopped"}, i : 0 .. Len(ranges), pos : Nat, n : Nat]]
    BY <1>1, <1>4, <1>5, <1>6 DEF ReadTyped
  <2>2. got' \in [DOMAIN ranges -> Nat]
    BY <1>1, <1>2, <1>5, <1>6 DEF ReadTyped
  <2> QED
    BY <1>1, <2>1, <2>2 DEF ReadTyped
<1>9. \A v \in Workers : (Reading(v)' <=> Reading(v)) /\ worker'[v].i = worker[v].i
  BY <1>1, <1>7 DEF Reading
<1>10. Owned'
  <2> SUFFICES ASSUME NEW v \in Workers, Reading(v)
               PROVE  LET x == worker[v].i
                      IN  /\ v \in Active
                          /\ x \in DOMAIN ranges /\ x < next /\ x \notin done
                          /\ got'[x] = worker'[v].n
                          /\ worker'[v].pos = First(ranges[x]) + worker'[v].n
                          /\ worker'[v].n > 0 => worker'[v].pos <= Halt(x)
                          /\ \A u \in Workers : Reading(u) /\ worker[u].i = x => u = v
    BY <1>9 DEF Owned, Active, Halt
  <2>1. CASE v = w
    BY <2>1, <1>1, <1>2, <1>3, <1>4, <1>6, <1>7 DEF Owned
  <2>2. CASE v # w
    <3>1. worker[v].i # i
      BY <1>1, <2>2 DEF Owned
    <3> QED
      BY <1>1, <1>7, <2>2, <3>1 DEF Owned
  <2> QED
    BY <2>1, <2>2
<1>11. Accounts'
  <2> SUFFICES ASSUME NEW x \in DOMAIN ranges
               PROVE  /\ x >= next => x \notin done /\ got'[x] = 0
                      /\ x \in done => got'[x] = Extent(x)
                      /\ got'[x] <= Extent(x)
    BY DEF Accounts, Extent
  <2>1. CASE x = i
    <3>1. got[i] + k <= Extent(i)
      BY <1>2, <1>3, <1>4, <1>6
    <3>2. ~(i >= next)
      BY <1>1, <1>2, Indices DEF ReadTyped
    <3> QED
      BY <2>1, <1>2, <1>7, <3>1, <3>2
  <2>2. CASE x # i
    BY <2>2, <1>1, <1>7 DEF Accounts
  <2> QED
    BY <2>1, <2>2
<1>12. Counted'
  <2>1. Lost' = Lost
    BY <1>9 DEF Lost, ReadingIt
  <2>2. \A v \in Workers : worker'[v].pc = worker[v].pc
    BY <1>1, <1>7 DEF Reading
  <2>3. Stopped' = Stopped /\ Active' = Active
    BY <1>1, <2>2, ActiveFinite DEF Stopped, Active, ReadTyped
  <2> QED
    BY <1>1, <2>1, <2>3 DEF Counted
<1> QED
  BY <1>8, <1>10, <1>11, <1>12 DEF ReadInv

LEMMA DoneInv ==
  ASSUME ReadInv, NEW w \in Workers, RangeDone(w)
  PROVE  ReadInv'
<1> USE DEF RangeDone, At, Goto
<1>1. ReadTyped /\ Owned /\ Accounts /\ Counted /\ Reading(w)
  BY DEF ReadInv, Reading
<1> DEFINE i == worker[w].i
<1>2. /\ i \in DOMAIN ranges /\ i < next /\ got[i] = worker[w].n /\ worker[w].n \in Nat
      /\ worker[w].pos = First(ranges[i]) + worker[w].n
      /\ worker[w].n > 0 => worker[w].pos <= Halt(i)
      /\ \A v \in Workers : Reading(v) /\ worker[v].i = i => v = w
  BY <1>1 DEF Owned, ReadTyped
<1>3. got[i] = Extent(i)
  <2>1. worker[w].pos >= Halt(i)
    BY DEF Halt
  <2> QED
    BY <1>1, <1>2, <2>1, ExtentIs
<1>4. /\ worker'[w].pc = "take"
      /\ \A v \in Workers \ {w} : worker'[v] = worker[v]
  BY <1>1 DEF ReadTyped
<1>5. ReadTyped'
  <2>1. worker' \in [Workers -> [pc : {"take", "read", "stopped"}, i : 0 .. Len(ranges), pos : Nat, n : Nat]]
    BY <1>1 DEF ReadTyped
  <2>2. done' \in SUBSET DOMAIN ranges
    BY <1>1, <1>2 DEF ReadTyped
  <2> QED
    BY <1>1, <2>1, <2>2 DEF ReadTyped
<1>6. \A v \in Workers : Reading(v)' <=> Reading(v) /\ v # w
  BY <1>4 DEF Reading
<1>7. Owned'
  <2> SUFFICES ASSUME NEW v \in Workers, Reading(v), v # w
               PROVE  LET x == worker[v].i
                      IN  /\ v \in Active
                          /\ x \in DOMAIN ranges /\ x < next /\ x \notin done'
                          /\ got[x] = worker[v].n
                          /\ worker[v].pos = First(ranges[x]) + worker[v].n
                          /\ worker[v].n > 0 => worker[v].pos <= Halt(x)
                          /\ \A u \in Workers : Reading(u)' /\ worker'[u].i = x => u = v
    BY <1>4, <1>6 DEF Owned, Active, Halt
  <2>1. worker[v].i # i
    BY <1>2
  <2>2. \A u \in Workers : Reading(u)' /\ worker'[u].i = worker[v].i => u = v
    BY <1>1, <1>4, <1>6 DEF Owned
  <2> QED
    BY <1>1, <2>1, <2>2 DEF Owned
<1>8. Accounts'
  <2> SUFFICES ASSUME NEW x \in DOMAIN ranges
               PROVE  /\ x >= next => x \notin done' /\ got[x] = 0
                      /\ x \in done' => got[x] = Extent(x)
                      /\ got[x] <= Extent(x)
    BY DEF Accounts, Extent
  <2>1. x \in Nat /\ next \in Nat
    BY <1>1, Indices DEF ReadTyped
  <2> QED
    BY <1>1, <1>2, <1>3, <2>1 DEF Accounts
<1>9. Counted'
  <2>1. Lost' \subseteq Lost
    <3> SUFFICES ASSUME NEW x \in DOMAIN ranges, x < next, x \notin done \cup {i}, ~ReadingIt(x)'
                 PROVE  ~ReadingIt(x)
      BY DEF Lost
    <3> QED
      BY <1>4, <1>6 DEF ReadingIt
  <2>2. Stopped' = Stopped
    BY <1>1, <1>4, ActiveFinite DEF Stopped, Active, ReadTyped, Reading
  <2>3. errors \in Nat
    BY <1>1, PlansAssumption DEF ReadTyped
  <2>4. Cardinality(Lost') <= errors
    BY <1>1, <2>1, <2>3, CountsFinite, NoMore DEF Counted
  <2> QED
    BY <1>1, <2>2, <2>4 DEF Counted
<1> QED
  BY <1>5, <1>7, <1>8, <1>9 DEF ReadInv

LEMMA FailInv ==
  ASSUME ReadInv, NEW w \in Workers, PreadFails(w)
  PROVE  ReadInv'
<1> USE DEF PreadFails, At, Goto
<1>1. ReadTyped /\ Owned /\ Accounts /\ Counted /\ Reading(w)
  BY DEF ReadInv, Reading
<1>2. /\ worker'[w].pc = "stopped"
      /\ \A v \in Workers \ {w} : worker'[v] = worker[v]
  BY <1>1 DEF ReadTyped
<1>3. errors \in Nat /\ errors' = errors + 1
  BY <1>1, PlansAssumption DEF ReadTyped
<1>4. ReadTyped'
  <2>1. worker' \in [Workers -> [pc : {"take", "read", "stopped"}, i : 0 .. Len(ranges), pos : Nat, n : Nat]]
    BY <1>1 DEF ReadTyped
  <2>2. errors' \in 0 .. MaxErrors
    BY <1>3, PlansAssumption
  <2>3. result' \in {"running", "ok", "error"}
    BY <1>1 DEF ReadTyped
  <2> QED
    BY <1>1, <2>1, <2>2, <2>3 DEF ReadTyped
<1>5. \A v \in Workers : Reading(v)' <=> Reading(v) /\ v # w
  BY <1>2 DEF Reading
<1>6. Owned'
  <2> SUFFICES ASSUME NEW v \in Workers, Reading(v), v # w
               PROVE  LET x == worker[v].i
                      IN  /\ v \in Active
                          /\ x \in DOMAIN ranges /\ x < next /\ x \notin done
                          /\ got[x] = worker[v].n
                          /\ worker[v].pos = First(ranges[x]) + worker[v].n
                          /\ worker[v].n > 0 => worker[v].pos <= Halt(x)
                          /\ \A u \in Workers : Reading(u)' /\ worker'[u].i = x => u = v
    BY <1>2, <1>5 DEF Owned, Active, Halt
  <2>1. \A u \in Workers : Reading(u)' /\ worker'[u].i = worker[v].i => u = v
    BY <1>1, <1>2, <1>5 DEF Owned
  <2> QED
    BY <1>1, <2>1 DEF Owned
<1>7. Accounts'
  BY <1>1 DEF Accounts, Extent
<1>8. Counted'
  <2>1. Lost' \subseteq Lost \cup {worker[w].i}
    <3> SUFFICES ASSUME NEW x \in DOMAIN ranges, x < next, x \notin done, ~ReadingIt(x)'
                 PROVE  x = worker[w].i \/ ~ReadingIt(x)
      BY DEF Lost
    <3> QED
      BY <1>2, <1>5 DEF ReadingIt
  <2>2. Stopped' = Stopped \cup {w} /\ w \notin Stopped
    BY <1>1, <1>2, ActiveFinite DEF Stopped, Active, ReadTyped, Reading
  <2>3. Cardinality(Lost') <= errors'
    BY <1>1, <1>3, <2>1, CountsFinite, OneMore DEF Counted
  <2>4. next <= Len(ranges) => Cardinality(Stopped') <= errors'
    BY <1>1, <1>3, <2>2, CountsFinite, OneMore DEF Counted
  <2>5. result' # "ok"
    BY <1>1
  <2>6. next <= Len(ranges) + 1 + Cardinality(Stopped')
    <3>1. IsFiniteSet(Stopped) /\ Cardinality(Stopped) \in Nat
      BY <1>1, CountsFinite
    <3>2. Cardinality(Stopped') = Cardinality(Stopped) + 1
      BY <2>2, <3>1, FS_AddElement
    <3>3. next \in Nat /\ Len(ranges) \in Nat
      BY <1>1, Indices DEF ReadTyped
    <3> QED
      BY <1>1, <3>1, <3>2, <3>3 DEF Counted
  <2> QED
    BY <2>3, <2>4, <2>5, <2>6 DEF Counted
<1> QED
  BY <1>4, <1>6, <1>7, <1>8 DEF ReadInv

LEMMA JoinInv == ReadInv /\ Join => ReadInv'
<1> SUFFICES ASSUME ReadInv, Join PROVE ReadInv'
  OBVIOUS
<1> USE DEF Join
<1>1. ReadTyped /\ Owned /\ Accounts /\ Counted
  BY DEF ReadInv
<1>2. ReadTyped'
  BY <1>1 DEF ReadTyped
<1>3. Owned'
  BY <1>1 DEF Owned, Reading, Active, Halt
<1>4. Accounts'
  BY <1>1 DEF Accounts, Extent
<1>5. Counted'
  <2>1. Lost' = Lost /\ Stopped' = Stopped
    BY DEF Lost, Stopped, ReadingIt, Reading, Active
  <2> QED
    BY <1>1, <2>1 DEF Counted, Active
<1> QED
  BY <1>2, <1>3, <1>4, <1>5 DEF ReadInv

LEMMA StepInv == ReadInv /\ [ReadNext]_readVars => ReadInv'
<1> SUFFICES ASSUME ReadInv, [ReadNext]_readVars PROVE ReadInv'
  OBVIOUS
<1>1. CASE Join
  BY <1>1, JoinInv
<1>2. CASE \E w \in Workers : Work(w)
  <2> PICK w \in Workers : Work(w)
    BY <1>2
  <2> QED
    BY TakeInv, PreadInv, DoneInv, FailInv DEF Work
<1>3. CASE UNCHANGED readVars
  <2> USE <1>3 DEF readVars
  <2>1. ReadTyped' /\ Accounts'
    BY DEF ReadInv, ReadTyped, Accounts, Extent
  <2>2. Owned'
    BY DEF ReadInv, Owned, Reading, Active, Halt
  <2>3. Lost' = Lost /\ Stopped' = Stopped /\ Active' = Active
    BY DEF Lost, Stopped, ReadingIt, Reading, Active
  <2>4. Counted'
    BY <2>3 DEF ReadInv, Counted
  <2> QED
    BY <2>1, <2>2, <2>4 DEF ReadInv
<1> QED
  BY <1>1, <1>2, <1>3 DEF ReadNext

\* The invariant of the workers holds of every run.
THEOREM Invariance == ReadSpec => []ReadInv
<1>1. ReadInv /\ [ReadNext]_readVars => ReadInv'
  BY StepInv
<1> QED
  BY InitInv, <1>1, PTL DEF ReadSpec

-----------------------------------------------------------------------------
(* What follows from it. *)

\* A worker that stops before the indices run out has met an error, and so has a range that
\* was handed out and is neither done nor being read: when read_all returns Ok with fewer
\* errors than threads, no more ranges are missing than errors were met (main.rs:491-520).
LEMMA LostByErrors == ReadInv => LostOnlyByErrors
<1> SUFFICES ASSUME ReadInv PROVE LostOnlyByErrors
  OBVIOUS
<1>1. ReadTyped /\ Owned /\ Accounts /\ Counted
  BY DEF ReadInv
<1>2. /\ DOMAIN ranges = 1 .. Len(ranges) /\ Len(ranges) \in Nat /\ next \in Nat
      /\ errors \in Nat /\ threads \in Nat
  BY <1>1, Indices, PlansAssumption DEF ReadTyped
<1>3. ASSUME result = "ok", errors < threads
      PROVE  next > Len(ranges)
  <2>1. Stopped = Active
    BY <1>1, <1>3 DEF Counted, Stopped
  <2>2. Cardinality(Active) = threads
    BY <1>1, <1>2, <1>3, ActiveFinite DEF ReadTyped
  <2> QED
    BY <1>1, <1>2, <1>3, <2>1, <2>2 DEF Counted
<1>4. ASSUME result = "ok", next > Len(ranges)
      PROVE  DOMAIN ranges \ done = Lost
  <2>1. \A w \in Workers : ~Reading(w)
    BY <1>1, <1>4 DEF Owned, Counted, Reading
  <2> QED
    BY <1>2, <1>4, <2>1 DEF Lost, ReadingIt
<1>5. OneLostPerError
  BY <1>1, <1>3, <1>4 DEF OneLostPerError, Counted
<1>6. IssuedUnlessFailed
  <2> SUFFICES ASSUME errors = 0, result = "ok" PROVE \A i \in DOMAIN ranges : i \in done /\ got[i] = Extent(i)
    BY DEF IssuedUnlessFailed, EveryRangeIssued
  <2>1. next > Len(ranges)
    <3>1. 1 \in Stopped
      BY <1>1, ActiveFinite DEF Counted, Stopped, ReadTyped
    <3>2. Stopped # {} => Cardinality(Stopped) # 0
      BY <1>1, CountsFinite, FS_EmptySet
    <3> QED
      BY <1>1, <1>2, <3>1, <3>2, CountsFinite DEF Counted
  <2>2. Lost = {}
    BY <1>1, CountsFinite, FS_EmptySet DEF Counted
  <2>3. DOMAIN ranges \ done = {}
    BY <1>4, <2>1, <2>2
  <2> QED
    BY <1>1, <2>3 DEF Accounts
<1> QED
  BY <1>5, <1>6 DEF LostOnlyByErrors

\* For every plan and number of threads: ranges are missing from an Ok only where reads
\* failed, one at most for each failure while a worker is left.
THEOREM LostOnlyByErrorsTheorem == ReadSpec => []LostOnlyByErrors
  BY Invariance, LostByErrors, PTL

\* No two workers are handed the same range, and no byte of one is transferred twice.
THEOREM NothingTwiceTheorem == ReadSpec => []NothingTwice
<1>1. ReadInv => NothingTwice
  <2> SUFFICES ASSUME ReadInv PROVE NothingTwice
    OBVIOUS
  <2>1. ReadTyped /\ Owned /\ Accounts
    BY DEF ReadInv
  <2> QED
    BY <2>1, ActiveFinite DEF NothingTwice, Owned, Accounts, Reading, ReadTyped
<1> QED
  BY Invariance, <1>1, PTL
\* Every index leads to a range, the shared index runs past their end by at most one for each
\* worker, and no more preads fail than are counted.
THEOREM TypeCorrect == ReadSpec => []ReadTypeOK
<1>1. ReadInv => ReadTypeOK
  <2> SUFFICES ASSUME ReadInv PROVE ReadTypeOK
    OBVIOUS
  <2>1. ReadTyped /\ Counted
    BY DEF ReadInv
  <2>2. Stopped \subseteq Workers /\ IsFiniteSet(Workers)
    BY <2>1, ActiveFinite DEF Stopped, ReadTyped
  <2>3. Cardinality(Stopped) <= Cardinality(Workers)
    BY <2>2, FS_Subset
  <2>4. Cardinality(Workers) \in Nat /\ Cardinality(Stopped) \in Nat
    BY <2>1, <2>2, CountsFinite, FS_CardinalityType
  <2>5. next \in 1 .. Len(ranges) + 1 + Cardinality(Workers)
    BY <2>1, <2>3, <2>4, Indices DEF Counted, ReadTyped
  <2>6. \A w \in Workers :
           /\ worker[w].pc \in {"take", "read", "stopped"}
           /\ worker[w].i \in 0 .. Len(ranges)
           /\ {worker[w].pos, worker[w].n} \subseteq Nat
    BY <2>1 DEF ReadTyped
  <2> QED
    BY <2>1, <2>5, <2>6 DEF ReadTypeOK, ReadTyped
<1> QED
  BY Invariance, <1>1, PTL
-----------------------------------------------------------------------------
(* The sum of the bytes. *)

\* The shared sum is that of what the ranges done were given.
Summed == total = SumOver(got, done)

\* What has been done is a finite set, and what it was given are numbers.
LEMMA DoneFinite ==
  ASSUME ReadInv
  PROVE  IsFiniteSet(done) /\ done \subseteq DOMAIN ranges /\ \A i \in DOMAIN ranges : got[i] \in Nat
<1>1. ReadTyped
  BY DEF ReadInv
<1> QED
  BY <1>1, Indices, FS_Subset DEF ReadTyped

\* Bytes handed over belong to a range that is not done, and a range that becomes done adds
\* what it was given.
LEMMA SummedStays == ReadInv /\ Summed /\ [ReadNext]_readVars => Summed'
<1> SUFFICES ASSUME ReadInv, Summed, [ReadNext]_readVars PROVE Summed'
  OBVIOUS
<1>1. CASE total' = total /\ got' = got /\ done' = done
  BY <1>1 DEF Summed
<1>2. ASSUME NEW w \in Workers, Pread(w) PROVE Summed'
  <2> DEFINE r == worker[w].i
  <2>1. /\ total' = total /\ done' = done /\ Reading(w)
        /\ \E k : got' = [got EXCEPT ![r] = @ + k]
    BY <1>2 DEF Pread, At, Reading
  <2>2. r \in DOMAIN ranges /\ r \notin done
    BY <2>1 DEF ReadInv, Owned
  <2> HIDE DEF r
  <2>3. \A i \in done : got[i] = got'[i] /\ got[i] \in Nat
    BY <2>1, <2>2, DoneFinite DEF ReadInv, ReadTyped
  <2>4. SumOver(got, done) = SumOver(got', done)
    <3>1. PICK g : g = got'
      OBVIOUS
    <3>2. SumOver(got, done) = SumOver(g, done)
      BY <2>3, <3>1, DoneFinite, SumEqual
    <3> QED
      BY <3>1, <3>2
  <2> QED
    BY <2>1, <2>4 DEF Summed
<1>3. ASSUME NEW w \in Workers, RangeDone(w) PROVE Summed'
  <2> DEFINE r == worker[w].i
  <2>1. total' = total + worker[w].n /\ done' = done \cup {r} /\ got' = got /\ Reading(w)
    BY <1>3 DEF RangeDone, At, Reading
  <2>2. r \in DOMAIN ranges /\ r \notin done /\ got[r] = worker[w].n
    BY <2>1 DEF ReadInv, Owned
  <2> HIDE DEF r
  <2>3. SumOver(got, done \cup {r}) = SumOver(got, done) + got[r]
    BY <2>2, DoneFinite, SumAdd
  <2> QED
    BY <2>1, <2>2, <2>3 DEF Summed
<1>4. ASSUME NEW w \in Workers, Take(w) \/ PreadFails(w) PROVE Summed'
  BY <1>1, <1>4 DEF Take, PreadFails
<1>5. CASE Join
  BY <1>1, <1>5 DEF Join
<1>6. CASE UNCHANGED readVars
  BY <1>1, <1>6 DEF readVars
<1> QED
  BY <1>2, <1>3, <1>4, <1>5, <1>6 DEF ReadNext, Work

\* A range that is done was given the bytes of the file in it, so the sum is that of those.
LEMMA SummedExtents == ASSUME ReadInv, Summed PROVE TotalIsWhole
<1> DEFINE Sum(g) == g = [s \in SUBSET done |-> IF s = {} THEN 0 ELSE Extent(CHOOSE x \in s : TRUE) + g[s \ {CHOOSE x \in s : TRUE}]]
<1>1. MapThenSumSet(Extent, done) = (CHOOSE g : Sum(g))[done]
  BY DEF MapThenSumSet, MapThenFoldSet
<1>2. ASSUME NEW s \in SUBSET done, s # {} PROVE Extent(CHOOSE x \in s : TRUE) = got[Pick(s)]
  <2>1. Pick(s) \in done /\ done \subseteq DOMAIN ranges
    BY <1>2, PickIn, DoneFinite
  <2>2. got[Pick(s)] = Extent(Pick(s))
    BY <2>1 DEF ReadInv, Accounts
  <2> QED
    BY <2>2 DEF Pick
<1>3. ASSUME NEW g PROVE Sum(g) <=> IsSum(g, got, done)
  <2>1. [s \in SUBSET done |-> IF s = {} THEN 0 ELSE Extent(CHOOSE x \in s : TRUE) + g[s \ {CHOOSE x \in s : TRUE}]]
        = [s \in SUBSET done |-> IF s = {} THEN 0 ELSE got[Pick(s)] + g[s \ {Pick(s)}]]
    BY <1>2 DEF Pick
  <2> QED
    BY <2>1 DEF IsSum
<1> HIDE DEF Sum
<1>4. (CHOOSE g : Sum(g)) = (CHOOSE g : IsSum(g, got, done))
  BY <1>3
<1>5. MapThenSumSet(Extent, done) = SumOver(got, done)
  BY <1>1, <1>4, SumIs
<1> QED
  BY <1>5 DEF Summed, TotalIsWhole

\* At every moment the shared sum is that of the bytes of the file in the ranges read to their
\* end, none of them read twice, however many threads read them, in whatever order they come,
\* and whatever short reads and errors they meet (main.rs:491-525, nocache.rs:56-81).
THEOREM ReadOnceTheorem == ReadSpec => []ReadOnce
<1>1. ReadInit => Summed
  <2>1. ReadInit => total = 0 /\ done = {}
    BY DEF ReadInit
  <2> QED
    BY <2>1, SumEmpty DEF Summed
<1>2. ReadSpec => []Summed
  BY <1>1, SummedStays, Invariance, PTL DEF ReadSpec
<1>3. ReadInv /\ Summed => TotalIsWhole
  BY SummedExtents
<1>4. ReadSpec => []TotalIsWhole
  BY <1>2, <1>3, Invariance, PTL
<1>5. NothingTwice /\ TotalIsWhole => ReadOnce
  BY DEF ReadOnce
<1> QED
  BY <1>4, <1>5, NothingTwiceTheorem, PTL

=============================================================================
