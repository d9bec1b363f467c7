-------------------------- MODULE FetchPathProofs --------------------------
(***************************************************************************)
(* Proofs about FetchPath, in three parts. The first is about the search   *)
(* of LayoutSearch, for every number of experts, every cost function,      *)
(* every proposal and every order in which pairs are tried, and about what *)
(* is proposed to it. The second shows that whatever file is opened and    *)
(* whatever is replayed afterwards, the search in it is that one, so that  *)
(* what is proved of the search holds of what is replayed.                 *)
(*                                                                         *)
(* The third follows the replay. Its invariant (PathInv) has the loop of   *)
(* GroupRuns in it, whose own invariant GroupRunsProofs provides; what the *)
(* loop comes to (Outcome) makes the reads of a batch disjoint slices that *)
(* cover its slots (Fetches). Beside it runs the account (Ledger): what    *)
(* has been issued for the batches finished is at most what coact has      *)
(* their tokens cost, because the slots of two tokens read together never  *)
(* cost more than apart (Together), and it is the same where a batch is    *)
(* one token.                                                              *)
(***************************************************************************)
EXTENDS FetchPath, FiniteFacts, SequenceTheorems, TLAPS

\* The search has an order, knows what it costs, and never went up.
Held ==
    stage # "seed" =>
        /\ IsOrder(job, p) /\ best = Cost(job, p)
        /\ mincut \in Bisected(job)
        /\ best <= Cost(job, Chained(job)) /\ best <= Cost(job, mincut)

\* What the sweep has tried without success stays useless until something improves.
NoSwapHelps(left) == \A e \in Swaps(job) \ left : best <= Cost(job, Swapped(p, e))
NoMoveHelps(left) == \A e \in Moves(job) \ left : best <= Cost(job, Relocated(p, e))

Tried ==
    /\ stage \in {"seed", "swap", "move", "done"}
    /\ stage = "swap" => todo \subseteq Swaps(job)
    /\ stage = "move" => todo \subseteq Moves(job)
    /\ stage = "swap" /\ ~improved => NoSwapHelps(todo)
    /\ stage = "move" /\ ~improved => NoSwapHelps({}) /\ NoMoveHelps(todo)
    /\ stage = "done" /\ ~improved /\ job.sweeps > 0 => NoSwapHelps({}) /\ NoMoveHelps({})

IInv ==
    /\ job \in Jobs
    /\ improved \in BOOLEAN
    /\ Held
    /\ Tried

-----------------------------------------------------------------------------
(* Exchanging and moving experts *)

\* An exchange of two slots leaves every expert in one slot.
LEMMA SwappedIsOrder ==
    ASSUME NEW j, j.n \in Nat \ {0}, NEW q, IsOrder(j, q), NEW e \in Swaps(j)
    PROVE  IsOrder(j, Swapped(q, e))
  <1> DEFINE x1 == e[1]
             y1 == e[2]
             k(x) == IF x = x1 THEN y1 ELSE IF x = y1 THEN x1 ELSE x
  <1>1. x1 \in Slots(j) /\ y1 \in Slots(j)
    BY DEF Swaps
  <1>2. q \in [Slots(j) -> Slots(j)]
    BY DEF IsOrder
  <1>3. \A x \in Slots(j) : k(x) \in Slots(j) /\ Swapped(q, e)[x] = q[k(x)]
    BY <1>1, <1>2 DEF Swapped
  <1>4. Swapped(q, e) \in [Slots(j) -> Slots(j)]
    BY <1>1, <1>2 DEF Swapped
  <1>5. \A x, y \in Slots(j) : k(x) = k(y) => x = y
    OBVIOUS
  <1> HIDE DEF k
  <1> QED
    BY <1>3, <1>4, <1>5 DEF IsOrder

\* Neither does relocate lose one or place it twice.
LEMMA RelocatedIsOrder ==
    ASSUME NEW j, j.n \in Nat \ {0}, NEW q, IsOrder(j, q), NEW e \in Moves(j)
    PROVE  IsOrder(j, Relocated(q, e))
  <1> DEFINE from == e[1]
             to == e[2]
             k(x) == IF x = to THEN from
                     ELSE IF from <= x /\ x < to THEN x + 1
                     ELSE IF to < x /\ x <= from THEN x - 1
                     ELSE x
  <1>1. from \in Slots(j) /\ to \in Slots(j) /\ from # to
    BY DEF Moves
  <1>2. q \in [Slots(j) -> Slots(j)] /\ DOMAIN q = Slots(j)
    BY DEF IsOrder
  <1>3. \A x \in Slots(j) : k(x) \in Slots(j)
    BY <1>1 DEF Slots
  <1>4. \A x, y \in Slots(j) : k(x) = k(y) => x = y
    BY <1>1 DEF Slots
  <1>5. Relocated(q, e) = [x \in Slots(j) |-> q[k(x)]]
    BY <1>2 DEF Relocated
  <1> HIDE DEF k
  <1>6. Relocated(q, e) \in [Slots(j) -> Slots(j)]
    BY <1>2, <1>3, <1>5
  <1> QED
    BY <1>3, <1>4, <1>5, <1>6 DEF IsOrder

-----------------------------------------------------------------------------
(* The invariant *)

\* The facts about a job that the assumptions give.
LEMMA JobFacts ==
    ASSUME job \in Jobs
    PROVE  /\ job.n \in Nat \ {0} /\ job.sweeps \in Nat
           /\ \A q : IsOrder(job, q) => Cost(job, q) \in Nat
           /\ IsOrder(job, Chained(job)) /\ \A q \in Bisected(job) : IsOrder(job, q)
  BY JobsAssumption, CostAssumption, SeedsAssumption DEF Orders, IsOrder

LEMMA InitInv == SearchInit => IInv
  BY DEF SearchInit, IInv, Held, Tried

\* The search begins with the cheaper of the two proposals.
LEMMA SeedInv == IInv /\ Seed => IInv'
  <1> SUFFICES ASSUME IInv, Seed PROVE IInv'
    OBVIOUS
  <1>1. job \in Jobs /\ job' = job
    BY DEF IInv, Seed
  <1>2. PICK spectral \in Bisected(job) :
            /\ mincut' = spectral
            /\ p' = IF Cost(job, Chained(job)) < Cost(job, spectral) THEN Chained(job) ELSE spectral
    BY DEF Seed
  <1>3. /\ IsOrder(job, p') /\ best' = Cost(job, p')
        /\ best' <= Cost(job, Chained(job)) /\ best' <= Cost(job, spectral)
    BY <1>1, <1>2, JobFacts DEF Seed
  <1>4. Held'
    BY <1>1, <1>2, <1>3 DEF Held, IsOrder, Slots
  <1>5. CASE job.sweeps = 0
    BY <1>1, <1>4, <1>5 DEF Seed, NextSweep, IInv, Tried
  <1>6. CASE job.sweeps # 0
    <2>1. stage' = "swap" /\ todo' = Swaps(job) /\ improved' = FALSE
      BY <1>6 DEF Seed, NextSweep
    <2>2. Swaps(job)' = Swaps(job)
      BY <1>1 DEF Swaps, Slots
    <2>3. Tried'
      BY <2>1, <2>2 DEF Tried, NoSwapHelps
    <2> QED
      BY <1>1, <1>4, <2>1, <2>3 DEF IInv
  <1> QED
    BY <1>5, <1>6

\* A candidate that is an order: whether it is kept or not, what is held costs what is
\* recorded, and no more than before.
LEMMA ConsiderHeld ==
    ASSUME IInv, stage # "seed", NEW q, IsOrder(job, q), Consider(q)
    PROVE  /\ IsOrder(job, p') /\ best' = Cost(job, p') /\ best' <= best
           /\ improved' \in BOOLEAN
           /\ ~improved' => p' = p /\ best' = best /\ ~improved /\ best <= Cost(job, q)
  <1>1. Cost(job, q) \in Nat /\ best \in Nat /\ IsOrder(job, p) /\ best = Cost(job, p)
    BY JobFacts DEF IInv, Held
  <1>2. CASE Cost(job, q) < best
    BY <1>1, <1>2 DEF Consider
  <1>3. CASE ~(Cost(job, q) < best)
    BY <1>1, <1>3 DEF Consider, IInv
  <1> QED
    BY <1>2, <1>3
\* What is held stays no worse than the two proposals if its cost does not rise.
LEMMA HeldOn ==
    ASSUME IInv, stage # "seed", UNCHANGED <<job, mincut>>,
           IsOrder(job, p'), best' = Cost(job, p'), best' <= best
    PROVE  Held'
  <1>1. /\ Cost(job, Chained(job)) \in Nat /\ Cost(job, mincut) \in Nat
        /\ best \in Nat /\ best' \in Nat
        /\ best <= Cost(job, Chained(job)) /\ best <= Cost(job, mincut) /\ mincut \in Bisected(job)
    BY JobFacts DEF IInv, Held
  <1> QED
    BY <1>1 DEF Held, IsOrder, Slots

LEMMA TrySwapInv == IInv /\ TrySwap => IInv'
  <1> SUFFICES ASSUME IInv, TrySwap PROVE IInv'
    OBVIOUS
  <1>1. /\ job \in Jobs /\ job' = job /\ stage = "swap" /\ stage' = "swap" /\ mincut' = mincut
        /\ IsOrder(job, p) /\ job.n \in Nat \ {0}
        /\ todo \subseteq Swaps(job)
    BY JobFacts DEF IInv, Held, Tried, TrySwap
  <1>2. PICK e \in todo : Consider(Swapped(p, e)) /\ todo' = todo \ {e}
    BY DEF TrySwap
  <1>3. IsOrder(job, Swapped(p, e))
    BY <1>1, SwappedIsOrder
  <1>4. /\ IsOrder(job, p') /\ best' = Cost(job, p') /\ best' <= best
        /\ improved' \in BOOLEAN
        /\ ~improved' => p' = p /\ best' = best /\ ~improved /\ best <= Cost(job, Swapped(p, e))
    BY <1>1, <1>2, <1>3, ConsiderHeld
  <1>5. Held'
    BY <1>1, <1>4, HeldOn
  <1>6. ~improved' => NoSwapHelps(todo)'
    BY <1>1, <1>2, <1>4 DEF IInv, Tried, NoSwapHelps, Swaps, Slots
  <1>7. Tried'
    BY <1>1, <1>2, <1>6 DEF Tried, Swaps, Slots
  <1> QED
    BY <1>1, <1>4, <1>5, <1>7 DEF IInv

LEMMA TryMoveInv == IInv /\ TryMove => IInv'
  <1> SUFFICES ASSUME IInv, TryMove PROVE IInv'
    OBVIOUS
  <1>1. /\ job \in Jobs /\ job' = job /\ stage = "move" /\ stage' = "move" /\ mincut' = mincut
        /\ IsOrder(job, p) /\ job.n \in Nat \ {0}
        /\ todo \subseteq Moves(job)
    BY JobFacts DEF IInv, Held, Tried, TryMove
  <1>2. PICK e \in todo : Consider(Relocated(p, e)) /\ todo' = todo \ {e}
    BY DEF TryMove
  <1>3. IsOrder(job, Relocated(p, e))
    BY <1>1, RelocatedIsOrder
  <1>4. /\ IsOrder(job, p') /\ best' = Cost(job, p') /\ best' <= best
        /\ improved' \in BOOLEAN
        /\ ~improved' => p' = p /\ best' = best /\ ~improved /\ best <= Cost(job, Relocated(p, e))
    BY <1>1, <1>2, <1>3, ConsiderHeld
  <1>5. Held'
    BY <1>1, <1>4, HeldOn
  <1>6. ~improved' => NoSwapHelps({})'
    BY <1>1, <1>4 DEF IInv, Tried, NoSwapHelps, Swaps, Slots
  <1>7. ~improved' => NoMoveHelps(todo)'
    BY <1>1, <1>2, <1>4 DEF IInv, Tried, NoMoveHelps, Moves, Slots
  <1>8. Tried'
    BY <1>1, <1>2, <1>6, <1>7 DEF Tried, Moves, Slots
  <1> QED
    BY <1>1, <1>4, <1>5, <1>8 DEF IInv

LEMMA StartMovesInv == IInv /\ StartMoves => IInv'
  <1> SUFFICES ASSUME IInv, StartMoves PROVE IInv'
    OBVIOUS
  <1>1. /\ stage = "swap" /\ stage' = "move" /\ todo = {} /\ todo' = Moves(job)
        /\ UNCHANGED <<job, p, best, improved, mincut>>
    BY DEF StartMoves
  <1>2. Held'
    BY <1>1 DEF IInv, Held, IsOrder, Slots
  <1>3. ~improved' => NoSwapHelps({})' /\ NoMoveHelps(todo)'
    BY <1>1 DEF IInv, Tried, NoSwapHelps, NoMoveHelps, Swaps, Moves, Slots
  <1> QED
    BY <1>1, <1>2, <1>3 DEF IInv, Tried, Moves, Slots

\* The sweep that ends has tried everything; if nothing improved, nothing helps.
LEMMA EndSweepInv == IInv /\ EndSweep => IInv'
  <1> SUFFICES ASSUME IInv, EndSweep PROVE IInv'
    OBVIOUS
  <1>1. /\ stage = "move" /\ todo = {}
        /\ UNCHANGED <<job, p, best, mincut>>
    BY DEF EndSweep
  <1>2. CASE ~improved
    <2>1. stage' = "done" /\ improved' = improved
      BY <1>2 DEF EndSweep
    <2>2. NoSwapHelps({})' /\ NoMoveHelps({})'
      BY <1>1, <1>2 DEF IInv, Tried, NoSwapHelps, NoMoveHelps, Swaps, Moves, Slots
    <2> QED
      BY <1>1, <2>1, <2>2 DEF IInv, Held, Tried, IsOrder, Slots
  <1>3. CASE improved /\ sweep' = job.sweeps
    <2>1. stage' = "done" /\ improved'
      BY <1>3 DEF EndSweep, NextSweep
    <2> QED
      BY <1>1, <2>1 DEF IInv, Held, Tried, IsOrder, Slots
  <1>4. CASE improved /\ sweep' # job.sweeps
    <2>1. stage' = "swap" /\ todo' = Swaps(job) /\ improved' = FALSE
      BY <1>4 DEF EndSweep, NextSweep
    <2>2. Swaps(job)' = Swaps(job)
      BY <1>1 DEF Swaps, Slots
    <2>3. NoSwapHelps(todo)'
      BY <2>1, <2>2 DEF NoSwapHelps
    <2> QED
      BY <1>1, <2>1, <2>2, <2>3 DEF IInv, Held, Tried, IsOrder, Slots
  <1> QED
    BY <1>2, <1>3, <1>4

LEMMA Invariance == SearchSpec => []IInv
  <1>1. IInv /\ UNCHANGED searchVars => IInv'
    BY DEF searchVars, IInv, Held, Tried, NoSwapHelps, NoMoveHelps, IsOrder, Swaps, Moves, Slots
  <1>2. IInv /\ [SearchNext]_searchVars => IInv'
    BY <1>1, SeedInv, TrySwapInv, StartMovesInv, TryMoveInv, EndSweepInv DEF SearchNext
  <1> QED
    BY InitInv, <1>2, PTL DEF SearchSpec

-----------------------------------------------------------------------------
(* The theorems *)

\* greedy_refine, at every step: what it holds is a permutation, `best' is its cost, and that
\* is never above the cost of the bisection or of the chain; a search that stops for want of
\* improvement stops at an order no exchange and no move makes cheaper.
THEOREM LayoutSoundTheorem == SearchSpec => []LayoutSound
  <1>1. IInv => LayoutSound
    <2> SUFFICES ASSUME IInv PROVE LayoutSound
      OBVIOUS
    <2>1. Tracked /\ NeverWorse
      BY DEF IInv, Held, Tracked, NeverWorse
    <2>2. LocallyBest
      BY DEF IInv, Tried, NoSwapHelps, NoMoveHelps, LocallyBest
    <2> QED
      BY <2>1, <2>2 DEF LayoutSound
  <1> QED
    BY <1>1, Invariance, PTL

\* The cost of what is held never rises from one step to the next.
THEOREM NeverRisesTheorem == SearchSpec => [][stage # "seed" => best' <= best]_searchVars
  <1>1. IInv /\ SearchNext => (stage # "seed" => best' <= best)
    <2> SUFFICES ASSUME IInv, SearchNext, stage # "seed" PROVE best' <= best
      OBVIOUS
    <2>1. best \in Nat /\ IsOrder(job, p) /\ job.n \in Nat \ {0}
      BY JobFacts DEF IInv, Held
    <2>2. CASE TrySwap
      BY <2>1, <2>2, SwappedIsOrder, ConsiderHeld DEF TrySwap, IInv, Tried
    <2>3. CASE TryMove
      BY <2>1, <2>3, RelocatedIsOrder, ConsiderHeld DEF TryMove, IInv, Tried
    <2>4. CASE StartMoves \/ EndSweep
      BY <2>1, <2>4 DEF StartMoves, EndSweep
    <2> QED
      BY <2>2, <2>3, <2>4 DEF SearchNext, Seed
  <1> QED
    BY <1>1, Invariance, PTL DEF SearchSpec

-----------------------------------------------------------------------------
(* The way from the file to the reads *)

\* The first state is one of the search, and each step is one of the search or leaves it alone.
THEOREM SearchesTheorem == Spec => SearchSpec
  <1>1. Init => SearchInit
    BY DEF Init
  <1>2. [Next]_vars => [SearchNext]_searchVars
    <2> SUFFICES ASSUME Next \/ UNCHANGED vars PROVE SearchNext \/ UNCHANGED searchVars
      OBVIOUS
    <2>1. CASE Search
      BY <2>1 DEF Search
    <2>2. CASE Open \/ StartReplay \/ StartBatch \/ Group \/ Emit \/ EndReplay
      BY <2>2 DEF Open, StartReplay, StartBatch, Group, Emit, EndReplay
    <2>3. CASE UNCHANGED vars
      BY <2>3 DEF vars
    <2> QED
      BY <2>1, <2>2, <2>3 DEF Next
  <1> QED
    BY <1>1, <1>2, PTL DEF Spec, SearchSpec

\* On the way from the file to the reads the layout of the layer is a permutation, costs what
\* the search believes, is no worse than the proposals and, when the search ran out of
\* improvements, cannot be improved by one exchange or move.
THEOREM LayoutSoundInPath == Spec => []LayoutSound
  BY SearchesTheorem, LayoutSoundTheorem, PTL

\* The layout replayed under the name best+greedy is one a layout document may hold.
THEOREM RefinedIsOrder == Spec => [](phase = "replay" => stage = "done" /\ IsOrder(job, p))
  <1> DEFINE Inv == phase \in {"replay", "replayed"} => stage = "done"
  <1>1. Init => Inv
    BY DEF Init
  <1>2. Inv /\ [Next]_vars => Inv'
    <2> SUFFICES ASSUME Inv, Next \/ UNCHANGED vars PROVE Inv'
      OBVIOUS
    <2>1. CASE Search \/ Open \/ StartReplay
      BY <2>1 DEF Search, Open, StartReplay, replayVars, searchVars
    <2>2. CASE StartBatch \/ Group \/ Emit \/ EndReplay
      BY <2>2 DEF StartBatch, Group, Emit, EndReplay, searchVars
    <2>3. CASE UNCHANGED vars
      BY <2>3 DEF vars, searchVars
    <2> QED
      BY <2>1, <2>2, <2>3 DEF Next
  <1>3. Inv /\ LayoutSound => (phase = "replay" => stage = "done" /\ IsOrder(job, p))
    BY DEF LayoutSound, Tracked
  <1> QED
    BY <1>1, <1>2, <1>3, LayoutSoundInPath, PTL DEF Spec

-----------------------------------------------------------------------------
(* Exchanges and the cut *)

\* The weight of every pair of nodes.
EdgeWeights(tokens, nodes) == [e \in nodes \X nodes |-> Edge(tokens, e[1], e[2])]

\* The weights of the edges of one node.
EdgesOf(tokens, nodes, x) == [y \in nodes |-> Edge(tokens, x, y)]

\* Edges weigh a natural number, the same from both ends; no node has one with itself.
LEMMA EdgeIs ==
    ASSUME NEW tokens, IsFiniteSet(DOMAIN tokens), NEW x, NEW y
    PROVE  Edge(tokens, x, y) \in Nat /\ Edge(tokens, x, y) = Edge(tokens, y, x) /\ Edge(tokens, x, x) = 0
  <1>1. \A z : Cardinality({k \in DOMAIN tokens : {x, z} \subseteq tokens[k]}) \in Nat
    BY FS_Subset, FS_CardinalityType
  <1>2. {x, y} = {y, x}
    OBVIOUS
  <1> QED
    BY <1>1, <1>2 DEF Edge

\* The cut is the sum of the weights of the pairs that cross.
LEMMA CutIs ==
    ASSUME NEW tokens, NEW nodes, NEW side
    PROVE  CutOf(tokens, nodes, side) = SumOver(EdgeWeights(tokens, nodes), (nodes \ side) \X side)
  BY DEF CutOf, SumOver, EdgeWeights

\* What a node has across the cut, less what it has on its own side.
LEMMA ExternalIs ==
    ASSUME NEW tokens, NEW nodes, NEW side \in SUBSET nodes, NEW x \in nodes
    PROVE  LET sum(S) == SumOver(EdgesOf(tokens, nodes, x), S)
           IN  External(tokens, nodes, side, x) =
                   IF x \in side THEN sum(nodes \ side) - sum(side) ELSE sum(side) - sum(nodes \ side)
  <1>1. nodes \ (nodes \ side) = side
    OBVIOUS
  <1>2. CASE x \in side
    BY <1>1, <1>2 DEF External, SumOver, EdgesOf
  <1>3. CASE x \notin side
    BY <1>3 DEF External, SumOver, EdgesOf
  <1> QED
    BY <1>2, <1>3

\* The weights u of the pairs that end with x, and v of those that begin with y.
Across(w, N, x, y, u, v) ==
    /\ \A e \in N \X N : w[e] \in Nat
    /\ \A z \in N : u[z] = w[<<z, x>>] /\ v[z] = w[<<y, z>>]

\* The pairs of two sets that are one node larger each.
LEMMA CrossSum ==
    ASSUME NEW N, IsFiniteSet(N), NEW w,
           NEW A \in SUBSET N, NEW x \in N \ A, NEW B \in SUBSET N, NEW y \in N \ B,
           NEW u, NEW v, Across(w, N, x, y, u, v)
    PROVE  SumOver(w, (B \cup {y}) \X (A \cup {x}))
              = SumOver(w, B \X A) + SumOver(u, B) + SumOver(v, A) + w[<<y, x>>]
  <1> USE DEF Across
  <1>1. IsFiniteSet(N \X N) /\ IsFiniteSet(A) /\ IsFiniteSet(B)
    BY FS_Product, FS_Subset
  <1>2. SumOver(w, B \X {x}) = SumOver(u, B)
    <2>1. PICK f : f = [z \in B |-> <<z, x>>]
      OBVIOUS
    <2>5. \A z \in B : f[z] = <<z, x>>
      BY <2>1
    <2>6. \A z1, z2 \in B : f[z1] = f[z2] => z1 = z2
      BY <2>5
    <2>2. {f[z] : z \in B} = B \X {x} /\ \A z1, z2 \in B : f[z1] = f[z2] => z1 = z2
      <3>1. {f[z] : z \in B} \subseteq B \X {x}
        BY <2>5
      <3>2. ASSUME NEW e \in B \X {x} PROVE e \in {f[z] : z \in B}
        <4>1. e[1] \in B /\ e = <<e[1], x>>
          OBVIOUS
        <4> QED
          BY <2>5, <4>1
      <3> QED
        BY <2>6, <3>1, <3>2
    <2>3. \A z \in B : u[z] \in Nat /\ w[f[z]] = u[z]
      BY <2>1
    <2>4. SumOver(w, {f[z] : z \in B}) = SumOver(u, B)
      <3>1. Carries(f, B, u, w)
        BY <2>2, <2>3 DEF Carries
      <3> QED
        BY <1>1, <3>1, SumImage
    <2> QED
      BY <2>2, <2>4
  <1>3. SumOver(w, {y} \X A) = SumOver(v, A)
    <2>1. PICK f : f = [z \in A |-> <<y, z>>]
      OBVIOUS
    <2>5. \A z \in A : f[z] = <<y, z>>
      BY <2>1
    <2>6. \A z1, z2 \in A : f[z1] = f[z2] => z1 = z2
      BY <2>5
    <2>2. {f[z] : z \in A} = {y} \X A /\ \A z1, z2 \in A : f[z1] = f[z2] => z1 = z2
      <3>1. {f[z] : z \in A} \subseteq {y} \X A
        BY <2>5
      <3>2. ASSUME NEW e \in {y} \X A PROVE e \in {f[z] : z \in A}
        <4>1. e[2] \in A /\ e = <<y, e[2]>>
          OBVIOUS
        <4> QED
          BY <2>5, <4>1
      <3> QED
        BY <2>6, <3>1, <3>2
    <2>3. \A z \in A : v[z] \in Nat /\ w[f[z]] = v[z]
      BY <2>1
    <2>4. SumOver(w, {f[z] : z \in A}) = SumOver(v, A)
      <3>1. Carries(f, A, v, w)
        BY <2>2, <2>3 DEF Carries
      <3> QED
        BY <1>1, <3>1, SumImage
    <2> QED
      BY <2>2, <2>4
  <1>4. PICK P \in SUBSET (N \X N), Q \in SUBSET (N \X N), R \in SUBSET (N \X N) :
            P = B \X A /\ Q = B \X {x} /\ R = {y} \X A
    OBVIOUS
  <1>5. (B \cup {y}) \X (A \cup {x}) = ((P \cup Q) \cup R) \cup {<<y, x>>}
    BY <1>4
  <1>6. P \cap Q = {} /\ (P \cup Q) \cap R = {} /\ <<y, x>> \notin (P \cup Q) \cup R /\ <<y, x>> \in N \X N
    BY <1>4
  <1>7. SumOver(w, P \cup Q) = SumOver(w, P) + SumOver(w, Q)
    BY <1>1, <1>6, SumUnion
  <1>8. SumOver(w, (P \cup Q) \cup R) = SumOver(w, P \cup Q) + SumOver(w, R)
    <2>1. P \cup Q \in SUBSET (N \X N)
      OBVIOUS
    <2> QED
      BY <1>1, <1>6, <2>1, SumUnion
  <1>9. SumOver(w, ((P \cup Q) \cup R) \cup {<<y, x>>}) = SumOver(w, (P \cup Q) \cup R) + w[<<y, x>>]
    <2>1. PICK S \in SUBSET (N \X N) : S = (P \cup Q) \cup R
      OBVIOUS
    <2>2. IsFiniteSet(S) /\ \A e \in S : w[e] \in Nat
      BY <1>1, FS_Subset
    <2>3. PICK e \in N \X N : e = <<y, x>>
      BY <1>6
    <2>4. e \notin S /\ w[e] \in Nat
      BY <1>6, <2>1, <2>3
    <2>5. SumOver(w, S \cup {e}) = SumOver(w, S) + w[e]
      BY <2>2, <2>4, SumAdd
    <2> QED
      BY <2>1, <2>3, <2>5
  <1> QED
    BY <1>2, <1>3, <1>4, <1>5, <1>7, <1>8, <1>9

\* Natural weights.
Weighs(u, N) == \A z \in N : u[z] \in Nat

\* Two sums that differ by one element of the set.
LEMMA SumWithout ==
    ASSUME NEW N, IsFiniteSet(N), NEW u, Weighs(u, N), NEW S \in SUBSET N, NEW x \in S
    PROVE  SumOver(u, S) = SumOver(u, S \ {x}) + u[x] /\ SumOver(u, S \ {x}) \in Nat
  <1>1. IsFiniteSet(S) /\ IsFiniteSet(S \ {x}) /\ (\A z \in S : u[z] \in Nat) /\ \A z \in S \ {x} : u[z] \in Nat
    BY FS_Subset DEF Weighs
  <1>2. SumOver(u, S) = u[x] + SumOver(u, S \ {x}) /\ SumOver(u, S \ {x}) \in Nat
    BY <1>1, SumRemove, SumNat
  <1> QED
    BY <1>1, <1>2

\* Weights of pairs that are those of edges: the same both ways, none from a node to itself,
\* with the weights u and v of the edges of x and of y.
Symmetric(w, N, x, y, u, v) ==
    /\ \A e \in N \X N : w[e] \in Nat
    /\ \A z \in N : u[z] = w[<<z, x>>] /\ u[z] = w[<<x, z>>] /\ v[z] = w[<<z, y>>] /\ v[z] = w[<<y, z>>]
    /\ u[x] = 0 /\ v[y] = 0

\* What exchanging two nodes takes off the cut is their gain.
LEMMA ExchangeSum ==
    ASSUME NEW N, IsFiniteSet(N), NEW T \in SUBSET N, NEW x \in T, NEW y \in N \ T,
           NEW w, NEW u, NEW v, Symmetric(w, N, x, y, u, v)
    PROVE  LET T2 == (T \ {x}) \cup {y}
               gain == (SumOver(u, N \ T) - SumOver(u, T)) + (SumOver(v, T) - SumOver(v, N \ T)) - 2 * u[y]
           IN  /\ SumOver(w, (N \ T2) \X T2) = SumOver(w, (N \ T) \X T) - gain
               /\ SumOver(w, (N \ T) \X T) \in Nat
  <1>1. PICK A \in SUBSET N, B \in SUBSET N : A = T \ {x} /\ B = (N \ T) \ {y}
    OBVIOUS
  <1>2. /\ T = A \cup {x} /\ N \ T = B \cup {y} /\ x \in N \ A /\ y \in N \ B
        /\ (T \ {x}) \cup {y} = A \cup {y} /\ N \ (A \cup {y}) = B \cup {x} /\ y \in N \ A /\ x \in N \ B
    BY <1>1
  <1>3. /\ \A e \in N \X N : w[e] \in Nat
        /\ \A z \in N : u[z] \in Nat /\ v[z] \in Nat
        /\ \A z \in N : u[z] = w[<<z, x>>] /\ u[z] = w[<<x, z>>]
        /\ \A z \in N : v[z] = w[<<z, y>>] /\ v[z] = w[<<y, z>>]
        /\ w[<<y, x>>] = u[y] /\ w[<<x, y>>] = u[y] /\ v[x] = u[y] /\ u[x] = 0 /\ v[y] = 0
    <2>1. \A z \in N : <<z, x>> \in N \X N /\ <<z, y>> \in N \X N
      BY <1>2
    <2>2. \A z \in N : u[z] \in Nat /\ v[z] \in Nat
      BY <2>1 DEF Symmetric
    <2> QED
      BY <1>2, <2>2 DEF Symmetric
  <1>9. Across(w, N, x, y, u, v) /\ Across(w, N, y, x, v, u)
    BY <1>3 DEF Across
  <1>4. SumOver(w, (N \ T) \X T) = SumOver(w, B \X A) + SumOver(u, B) + SumOver(v, A) + u[y]
    <2>1. SumOver(w, (B \cup {y}) \X (A \cup {x}))
             = SumOver(w, B \X A) + SumOver(u, B) + SumOver(v, A) + w[<<y, x>>]
      BY <1>2, <1>9, CrossSum
    <2> QED
      BY <1>2, <1>3, <2>1
  <1>5. LET T2 == (T \ {x}) \cup {y}
        IN  SumOver(w, (N \ T2) \X T2) = SumOver(w, B \X A) + SumOver(v, B) + SumOver(u, A) + u[y]
    <2>1. SumOver(w, (B \cup {x}) \X (A \cup {y}))
             = SumOver(w, B \X A) + SumOver(v, B) + SumOver(u, A) + w[<<x, y>>]
      BY <1>2, <1>9, CrossSum
    <2> QED
      BY <1>2, <1>3, <2>1
  <1>10. Weighs(u, N) /\ Weighs(v, N)
    BY <1>3 DEF Weighs
  <1>6. /\ SumOver(u, T) = SumOver(u, A) + u[x] /\ SumOver(u, A) \in Nat
        /\ SumOver(v, T) = SumOver(v, A) + v[x] /\ SumOver(v, A) \in Nat
    BY <1>1, <1>10, SumWithout
  <1>7. /\ SumOver(u, N \ T) = SumOver(u, B) + u[y] /\ SumOver(u, B) \in Nat
        /\ SumOver(v, N \ T) = SumOver(v, B) + v[y] /\ SumOver(v, B) \in Nat
    <2>1. PICK S \in SUBSET N : S = N \ T
      OBVIOUS
    <2> QED
      BY <1>1, <1>10, <2>1, SumWithout
  <1>8. SumOver(w, B \X A) \in Nat /\ u[y] \in Nat
    <2>1. PICK S \in SUBSET (N \X N) : S = B \X A
      OBVIOUS
    <2>2. IsFiniteSet(S) /\ \A e \in S : w[e] \in Nat
      BY <1>3, <2>1, FS_Product, FS_Subset
    <2> QED
      BY <1>3, <2>1, <2>2, SumNat
  <1> QED
    BY <1>3, <1>4, <1>5, <1>6, <1>7, <1>8

\* A side with a cut no larger and as many nodes.
AsGood(tokens, nodes, side, T) ==
    /\ T \in SUBSET nodes
    /\ Cardinality(T) = Cardinality(side)
    /\ CutOf(tokens, nodes, T) \in Nat /\ CutOf(tokens, nodes, side) \in Nat
    /\ CutOf(tokens, nodes, T) <= CutOf(tokens, nodes, side)

\* The cut of a side weighs a natural number.
LEMMA CutNat ==
    ASSUME NEW tokens, IsFiniteSet(DOMAIN tokens), NEW nodes, IsFiniteSet(nodes), NEW side \in SUBSET nodes
    PROVE  CutOf(tokens, nodes, side) \in Nat
  <1>1. PICK w, S : w = EdgeWeights(tokens, nodes) /\ S = (nodes \ side) \X side
    OBVIOUS
  <1>2. S \in SUBSET (nodes \X nodes)
    BY <1>1
  <1>3. \A e \in S : w[e] \in Nat
    BY <1>1, <1>2, EdgeIs DEF EdgeWeights
  <1>4. IsFiniteSet(S)
    BY <1>2, FS_Product, FS_Subset
  <1> QED
    BY <1>1, <1>3, <1>4, SumNat, CutIs

\* An exchange of x on the side and y off it: it keeps the sides' sizes, and what it gains
\* comes off the cut.
LEMMA ExchangeGains ==
    ASSUME NEW tokens, IsFiniteSet(DOMAIN tokens), NEW nodes, IsFiniteSet(nodes),
           NEW side \in SUBSET nodes, NEW x \in side, NEW y \in nodes \ side
    PROVE  LET T == (side \ {x}) \cup {y}
           IN  /\ T \in SUBSET nodes /\ Cardinality(T) = Cardinality(side)
               /\ CutOf(tokens, nodes, T) = CutOf(tokens, nodes, side) - Gain(tokens, nodes, side, x, y)
               /\ Gain(tokens, nodes, side, x, y) = Gain(tokens, nodes, side, y, x)
               /\ Gain(tokens, nodes, side, x, y) \in Int
  <1>1. PICK w, u, v : /\ w = EdgeWeights(tokens, nodes)
                       /\ u = EdgesOf(tokens, nodes, x) /\ v = EdgesOf(tokens, nodes, y)
    OBVIOUS
  <1>2. x \in nodes /\ y \in nodes
    OBVIOUS
  <1>3. /\ \A e \in nodes \X nodes : w[e] \in Nat
        /\ \A z \in nodes : u[z] = Edge(tokens, x, z) /\ v[z] = Edge(tokens, y, z)
        /\ \A z \in nodes : /\ w[<<z, x>>] = Edge(tokens, z, x) /\ w[<<x, z>>] = Edge(tokens, x, z)
                            /\ w[<<z, y>>] = Edge(tokens, z, y) /\ w[<<y, z>>] = Edge(tokens, y, z)
    BY <1>1, <1>2, EdgeIs DEF EdgeWeights, EdgesOf
  <1>4. Symmetric(w, nodes, x, y, u, v)
    BY <1>2, <1>3, EdgeIs DEF Symmetric
  <1>5. PICK T \in SUBSET nodes : T = (side \ {x}) \cup {y}
    OBVIOUS
  <1>6. Cardinality(T) = Cardinality(side)
    <2>1. IsFiniteSet(side) /\ IsFiniteSet(side \ {x}) /\ Cardinality(side) \in Nat
      BY FS_Subset, FS_CardinalityType
    <2>2. Cardinality(side \ {x}) = Cardinality(side) - 1
      BY <2>1, FS_RemoveElement
    <2>3. Cardinality(T) = Cardinality(side \ {x}) + 1
      BY <1>5, <2>1, FS_AddElement
    <2> QED
      BY <2>1, <2>2, <2>3
  <1>7. /\ External(tokens, nodes, side, x) = SumOver(u, nodes \ side) - SumOver(u, side)
        /\ External(tokens, nodes, side, y) = SumOver(v, side) - SumOver(v, nodes \ side)
    BY <1>1, <1>2, ExternalIs
  <1>8. Edge(tokens, x, y) = u[y] /\ Edge(tokens, y, x) = u[y] /\ u[y] \in Nat
    BY <1>2, <1>3, EdgeIs
  <1>9. /\ SumOver(u, nodes \ side) \in Nat /\ SumOver(u, side) \in Nat
        /\ SumOver(v, side) \in Nat /\ SumOver(v, nodes \ side) \in Nat
    <2>1. \A z \in nodes : u[z] \in Nat /\ v[z] \in Nat
      BY <1>3, EdgeIs
    <2>2. PICK S \in SUBSET nodes : S = nodes \ side
      OBVIOUS
    <2>3. IsFiniteSet(side) /\ IsFiniteSet(S)
      BY FS_Subset
    <2> QED
      BY <2>1, <2>2, <2>3, SumNat
  <1>10. /\ Gain(tokens, nodes, side, x, y)
              = (SumOver(u, nodes \ side) - SumOver(u, side)) + (SumOver(v, side) - SumOver(v, nodes \ side)) - 2 * u[y]
         /\ Gain(tokens, nodes, side, x, y) = Gain(tokens, nodes, side, y, x)
         /\ Gain(tokens, nodes, side, x, y) \in Int
    BY <1>7, <1>8, <1>9 DEF Gain
  <1>11. SumOver(w, (nodes \ T) \X T) = SumOver(w, (nodes \ side) \X side) - Gain(tokens, nodes, side, x, y)
    <2>1. SumOver(w, (nodes \ T) \X T)
             = SumOver(w, (nodes \ side) \X side)
               - ((SumOver(u, nodes \ side) - SumOver(u, side)) + (SumOver(v, side) - SumOver(v, nodes \ side)) - 2 * u[y])
      BY <1>4, <1>5, ExchangeSum
    <2> QED
      BY <1>10, <2>1
  <1>12. CutOf(tokens, nodes, T) = CutOf(tokens, nodes, side) - Gain(tokens, nodes, side, x, y)
    BY <1>1, <1>11, CutIs
  <1> QED
    BY <1>5, <1>6, <1>10, <1>12

\* A round of kernighan_lin keeps the sides' sizes and does not add to the cut.
LEMMA RoundKeeps ==
    ASSUME NEW tokens, IsFiniteSet(DOMAIN tokens), NEW nodes \in SUBSET Int, IsFiniteSet(nodes),
           NEW side \in SUBSET nodes
    PROVE  AsGood(tokens, nodes, side, Round(tokens, nodes, side))
  <1>1. CutOf(tokens, nodes, side) \in Nat
    BY CutNat
  <1>2. CASE BestExchange(tokens, nodes, side) = {}
    <2>1. Round(tokens, nodes, side) = side
      BY <1>2 DEF Round
    <2> QED
      BY <1>1, <2>1 DEF AsGood
  <1>3. CASE BestExchange(tokens, nodes, side) # {}
    <2>1. PICK e \in BestExchange(tokens, nodes, side) : Round(tokens, nodes, side) = Exchanged(side, e)
      BY <1>3 DEF Round
    <2>2. /\ e[1] \in nodes /\ e[2] \in nodes /\ (e[1] \in side) # (e[2] \in side)
          /\ Gain(tokens, nodes, side, e[1], e[2]) > 0
      BY DEF BestExchange
    <2>3. PICK x \in side, y \in nodes \ side :
              /\ Exchanged(side, e) = (side \ {x}) \cup {y}
              /\ \/ x = e[1] /\ y = e[2]
                 \/ x = e[2] /\ y = e[1]
      <3>1. CASE e[1] \in side
        <4>1. e[2] \in nodes \ side /\ Exchanged(side, e) = (side \ {e[1]}) \cup {e[2]}
          BY <2>2, <3>1 DEF Exchanged
        <4> QED
          BY <3>1, <4>1
      <3>2. CASE e[1] \notin side
        <4>1. e[2] \in side /\ e[1] \in nodes \ side /\ Exchanged(side, e) = (side \ {e[2]}) \cup {e[1]}
          BY <2>2, <3>2 DEF Exchanged
        <4> QED
          BY <4>1
      <3> QED
        BY <3>1, <3>2
    <2>4. PICK T : T = (side \ {x}) \cup {y}
      OBVIOUS
    <2>5. /\ T \in SUBSET nodes /\ Cardinality(T) = Cardinality(side)
          /\ CutOf(tokens, nodes, T) = CutOf(tokens, nodes, side) - Gain(tokens, nodes, side, x, y)
          /\ Gain(tokens, nodes, side, x, y) = Gain(tokens, nodes, side, y, x)
          /\ Gain(tokens, nodes, side, x, y) \in Int
      <3>1. LET S == (side \ {x}) \cup {y}
            IN  /\ S \in SUBSET nodes /\ Cardinality(S) = Cardinality(side)
                /\ CutOf(tokens, nodes, S) = CutOf(tokens, nodes, side) - Gain(tokens, nodes, side, x, y)
                /\ Gain(tokens, nodes, side, x, y) = Gain(tokens, nodes, side, y, x)
                /\ Gain(tokens, nodes, side, x, y) \in Int
        BY ExchangeGains
      <3> QED
        BY <2>4, <3>1
    <2>6. Gain(tokens, nodes, side, x, y) > 0
      BY <2>2, <2>3, <2>5
    <2>7. CutOf(tokens, nodes, T) \in Nat
      BY <2>5, CutNat
    <2> QED
      BY <1>1, <2>1, <2>3, <2>4, <2>5, <2>6, <2>7 DEF AsGood
  <1> QED
    BY <1>2, <1>3

\* The recursion of kernighan_lin.
IsRounds(g, tokens, nodes, side) ==
    g = [k \in 0 .. Cardinality(nodes) |-> IF k = 0 THEN side ELSE Round(tokens, nodes, g[k - 1])]

LEMMA RoundsIs ==
    ASSUME NEW tokens, NEW nodes, NEW side
    PROVE  KernighanLin(tokens, nodes, side)
              = (CHOOSE g : IsRounds(g, tokens, nodes, side))[Cardinality(nodes)]
  BY DEF KernighanLin, IsRounds

\* As many rounds as one likes keep the sides' sizes and do not add to the cut.
LEMMA RoundsKeep ==
    ASSUME NEW tokens, IsFiniteSet(DOMAIN tokens), NEW nodes \in SUBSET Int, IsFiniteSet(nodes),
           NEW side \in SUBSET nodes, NEW n \in Nat, NEW g,
           \A k \in 0 .. n : g[k] = IF k = 0 THEN side
                                    ELSE IF g[k - 1] \in SUBSET nodes THEN Round(tokens, nodes, g[k - 1]) ELSE g[k]
    PROVE  \A k \in 0 .. n : AsGood(tokens, nodes, side, g[k])
  <1> DEFINE Good(k) == AsGood(tokens, nodes, side, g[k])
             Bad == {k \in 0 .. n : ~Good(k)}
  <1>1. SUFFICES ASSUME Bad # {} PROVE FALSE
    BY <1>1
  <1>2. PICK k \in Bad : \A m \in Bad : k <= m
    <2>1. Bad \in SUBSET Nat
      OBVIOUS
    <2> HIDE DEF Bad
    <2> QED
      BY <1>1, <2>1, SmallestNat
  <1>3. k \in 0 .. n /\ ~Good(k)
    BY <1>2
  <1>4. CASE k = 0
    <2>1. g[k] = side
      BY <1>3, <1>4
    <2>2. CutOf(tokens, nodes, side) \in Nat
      BY CutNat
    <2>3. AsGood(tokens, nodes, side, side)
      BY <2>2 DEF AsGood
    <2> QED
      BY <1>3, <2>1, <2>3
  <1>5. CASE k # 0
    <2>1. k - 1 \in 0 .. n /\ ~(k <= k - 1)
      BY <1>3, <1>5
    <2>2. Good(k - 1)
      BY <1>2, <2>1
    <2>3. PICK T : T = g[k - 1]
      OBVIOUS
    <2>4. AsGood(tokens, nodes, side, T)
      BY <2>2, <2>3
    <2>5. T \in SUBSET nodes /\ g[k] = Round(tokens, nodes, T)
      BY <1>3, <1>5, <2>3, <2>4 DEF AsGood
    <2>6. AsGood(tokens, nodes, T, g[k])
      BY <2>5, RoundKeeps
    <2>7. AsGood(tokens, nodes, side, g[k])
      BY <2>4, <2>6 DEF AsGood
    <2> QED
      BY <1>3, <2>7
  <1> QED
    BY <1>4, <1>5

\* kernighan_lin keeps the sides' sizes and does not add to the cut.
LEMMA KernighanLinKeeps ==
    ASSUME NEW tokens, IsFiniteSet(DOMAIN tokens), NEW nodes \in SUBSET Int, IsFiniteSet(nodes),
           NEW side \in SUBSET nodes
    PROVE  AsGood(tokens, nodes, side, KernighanLin(tokens, nodes, side))
  <1>1. PICK n \in Nat : n = Cardinality(nodes)
    BY FS_CardinalityType
  <1>2. PICK q : q = [T \in SUBSET nodes |-> Round(tokens, nodes, T)]
    OBVIOUS
  <1>3. PICK it : IsIterate(it, q, side, n)
    BY IterateExists
  <1>4. \A k \in 0 .. n : it[k] = IF k = 0 THEN side ELSE q[it[k - 1]]
    BY <1>3 DEF IsIterate
  <1>5. \A k \in 0 .. n : it[k] = IF k = 0 THEN side
                                  ELSE IF it[k - 1] \in SUBSET nodes THEN Round(tokens, nodes, it[k - 1]) ELSE it[k]
    BY <1>2, <1>4
  <1>6. \A k \in 0 .. n : AsGood(tokens, nodes, side, it[k])
    BY <1>5, RoundsKeep
  <1>7. \A k \in 0 .. n : it[k] = IF k = 0 THEN side ELSE Round(tokens, nodes, it[k - 1])
    <2> TAKE k \in 0 .. n
    <2>1. CASE k = 0
      BY <1>4, <2>1
    <2>2. CASE k # 0
      <3>1. k - 1 \in 0 .. n
        BY <2>2
      <3>2. it[k - 1] \in SUBSET nodes
        BY <1>6, <3>1 DEF AsGood
      <3> QED
        BY <1>2, <1>4, <2>2, <3>2
    <2> QED
      BY <2>1, <2>2
  <1>8. it = [k \in 0 .. n |-> IF k = 0 THEN side ELSE Round(tokens, nodes, it[k - 1])]
    <2>1. it = [k \in 0 .. n |-> it[k]]
      BY <1>3 DEF IsIterate
    <2> QED
      BY <1>7, <2>1
  <1>9. IsRounds(it, tokens, nodes, side)
    BY <1>1, <1>8 DEF IsRounds
  <1>10. PICK g : /\ IsRounds(g, tokens, nodes, side)
                  /\ KernighanLin(tokens, nodes, side) = g[n]
    <2>1. IsRounds(CHOOSE g : IsRounds(g, tokens, nodes, side), tokens, nodes, side)
      BY <1>9
    <2> QED
      BY <1>1, <2>1, RoundsIs
  <1>11. \A k \in 0 .. n : g[k] = IF k = 0 THEN side
                                  ELSE IF g[k - 1] \in SUBSET nodes THEN Round(tokens, nodes, g[k - 1]) ELSE g[k]
    BY <1>1, <1>10 DEF IsRounds
  <1>12. \A k \in 0 .. n : AsGood(tokens, nodes, side, g[k])
    BY <1>11, RoundsKeep
  <1> QED
    BY <1>10, <1>12

-----------------------------------------------------------------------------
(* The proposals *)

\* The tokens of a job that are trained on are finitely many.
LEMMA TrainIs ==
    ASSUME NEW j \in Jobs
    PROVE  IsFiniteSet(DOMAIN TrainTokens(j))
  <1>1. PICK kept : kept = {k \in DOMAIN j.trace : j.every = 0 \/ (k - 1) % j.every # 0}
    OBVIOUS
  <1>2. IsFiniteSet(DOMAIN j.trace)
    <2>1. PICK q \in Seq(SUBSET Slots(j)) : q = j.trace
      BY TraceAssumption
    <2>2. DOMAIN q = 1 .. Len(q) /\ Len(q) \in Nat
      OBVIOUS
    <2> QED
      BY <2>1, <2>2, FS_Interval
  <1>3. Cardinality(kept) \in Nat
    BY <1>1, <1>2, FS_Subset, FS_CardinalityType
  <1>4. DOMAIN TrainTokens(j) = 1 .. Cardinality(kept)
    BY <1>1 DEF TrainTokens
  <1> QED
    BY <1>3, <1>4, FS_Interval

\* frequency_order places every expert once.
LEMMA FrequencyIsOrder ==
    ASSUME NEW j \in Jobs
    PROVE  IsOrder(j, FrequencyOrder(j))
  <1>1. PICK n \in Nat \ {0} : n = j.n
    BY JobsAssumption
  <1>2. PICK D, f : D = 0 .. n - 1 /\ f = [x \in D |-> Freq(TrainTokens(j), x)]
    OBVIOUS
  <1>3. IsFiniteSet(D) /\ Cardinality(D) = n /\ D \in SUBSET Int
    BY <1>2, FS_Interval
  <1>4. \A x \in D : f[x] \in Nat
    BY <1>2, TrainIs, FS_Subset, FS_CardinalityType DEF Freq
  <1>5. PICK L : L = {e \in D \X D : f[e[1]] > f[e[2]] \/ (f[e[1]] = f[e[2]] /\ e[1] < e[2])}
    OBVIOUS
  <1>6. \A x, y \in D : <<x, y>> \in L <=> f[x] > f[y] \/ (f[x] = f[y] /\ x < y)
    BY <1>5
  <1>7. StrictOrder(L, D)
    BY <1>3, <1>4, <1>6 DEF StrictOrder
  <1>8. \A x \in D : PlaceOf(L, D, x) = Cardinality({y \in D : f[y] > f[x] \/ (f[y] = f[x] /\ y < x)})
    <2> TAKE x \in D
    <2>1. {y \in D : <<y, x>> \in L} = {y \in D : f[y] > f[x] \/ (f[y] = f[x] /\ y < x)}
      BY <1>6
    <2> QED
      BY <2>1 DEF PlaceOf
  <1>9. PICK q : q = FrequencyOrder(j)
    OBVIOUS
  <1>10. q = [s \in D |-> CHOOSE x \in D : PlaceOf(L, D, x) = s]
    <2>1. PICK t : t = TrainTokens(j)
      OBVIOUS
    <2>2. q = [s \in D |-> CHOOSE x \in D :
                  Cardinality({y \in D : Freq(t, y) > Freq(t, x) \/ (Freq(t, y) = Freq(t, x) /\ y < x)}) = s]
      BY <1>1, <1>2, <1>9, <2>1 DEF FrequencyOrder
    <2>3. ASSUME NEW x \in D
          PROVE  {y \in D : Freq(t, y) > Freq(t, x) \/ (Freq(t, y) = Freq(t, x) /\ y < x)}
                    = {y \in D : f[y] > f[x] \/ (f[y] = f[x] /\ y < x)}
      BY <1>2, <2>1
    <2>4. ASSUME NEW x \in D
          PROVE  Cardinality({y \in D : Freq(t, y) > Freq(t, x) \/ (Freq(t, y) = Freq(t, x) /\ y < x)})
                    = PlaceOf(L, D, x)
      BY <1>8, <2>3
    <2> QED
      BY <2>2, <2>4
  <1>11. \A s \in D : \E x \in D : PlaceOf(L, D, x) = s
    BY <1>2, <1>3, <1>7, PlacesAre
  <1>12. \A s \in D : q[s] \in D /\ PlaceOf(L, D, q[s]) = s
    BY <1>10, <1>11
  <1>13. q \in [D -> D] /\ \A x, y \in D : q[x] = q[y] => x = y
    <2>1. q = [s \in D |-> q[s]]
      BY <1>10
    <2>2. \A x, y \in D : q[x] = q[y] => x = y
      BY <1>12
    <2> QED
      BY <1>12, <2>1, <2>2
  <1> QED
    BY <1>1, <1>2, <1>9, <1>13 DEF IsOrder, Slots

\* What the layout search starts from: the order by frequency places every expert once, and
\* bisection, whichever halves it begins with, keeps their sizes and never adds to the cut.
THEOREM SeedsSoundTheorem == Spec => []SeedsSound
  <1>1. job \in Jobs => SeedsSound
    <2> SUFFICES ASSUME job \in Jobs PROVE SeedsSound
      OBVIOUS
    <2>1. IsOrder(job, FrequencyOrder(job))
      BY FrequencyIsOrder
    <2>2. PICK tokens, nodes : tokens = TrainTokens(job) /\ nodes = Slots(job)
      OBVIOUS
    <2>3. IsFiniteSet(DOMAIN tokens)
      BY <2>2, TrainIs
    <2>4. nodes \in SUBSET Int /\ IsFiniteSet(nodes)
      BY <2>2, JobsAssumption, FS_Interval DEF Slots
    <2>5. ASSUME NEW side \in Halves(nodes)
          PROVE  /\ Cardinality(KernighanLin(tokens, nodes, side)) = Cardinality(side)
                 /\ CutOf(tokens, nodes, KernighanLin(tokens, nodes, side)) <= CutOf(tokens, nodes, side)
      <3>1. side \in SUBSET nodes
        BY DEF Halves, kSubset
      <3>2. AsGood(tokens, nodes, side, KernighanLin(tokens, nodes, side))
        BY <2>3, <2>4, <3>1, KernighanLinKeeps
      <3> QED
        BY <3>2 DEF AsGood
    <2> QED
      BY <2>1, <2>2, <2>5 DEF SeedsSound
  <1>2. IInv => SeedsSound
    BY <1>1 DEF IInv
  <1> QED
    BY <1>2, Invariance, SearchesTheorem, PTL

\* A list of each element of a set once.
Lists(q, S) ==
    /\ q \in Seq(S) /\ Len(q) = Cardinality(S)
    /\ \A k, m \in 1 .. Len(q) : q[k] = q[m] => k = m

\* A set of numbers in order lists it.
LEMMA InOrderLists ==
    ASSUME NEW S \in SUBSET Int, IsFiniteSet(S)
    PROVE  /\ Lists(InOrder(S), S)
           /\ \A k, m \in 1 .. Cardinality(S) : k < m => InOrder(S)[k] < InOrder(S)[m]
  <1>1. PICK n \in Nat : n = Cardinality(S)
    BY FS_CardinalityType
  <1>2. PICK L : L = {e \in S \X S : e[1] < e[2]}
    OBVIOUS
  <1>3. \A x, y \in S : <<x, y>> \in L <=> x < y
    BY <1>2
  <1>4. StrictOrder(L, S)
    BY <1>3 DEF StrictOrder
  <1>5. \A x \in S : PlaceOf(L, S, x) = Cardinality({y \in S : y < x})
    <2> TAKE x \in S
    <2>1. {y \in S : <<y, x>> \in L} = {y \in S : y < x}
      BY <1>3
    <2> QED
      BY <2>1 DEF PlaceOf
  <1>6. PICK q : q = InOrder(S)
    OBVIOUS
  <1>7. q = [k \in 1 .. n |-> CHOOSE x \in S : PlaceOf(L, S, x) = k - 1]
    <2>1. q = [k \in 1 .. n |-> CHOOSE x \in S : Cardinality({y \in S : y < x}) = k - 1]
      BY <1>1, <1>6 DEF InOrder
    <2>2. ASSUME NEW x \in S PROVE Cardinality({y \in S : y < x}) = PlaceOf(L, S, x)
      BY <1>5
    <2>3. ASSUME NEW k \in 1 .. n
          PROVE  (CHOOSE x \in S : Cardinality({y \in S : y < x}) = k - 1) = CHOOSE x \in S : PlaceOf(L, S, x) = k - 1
      BY <2>2, Zenon
    <2> QED
      BY <2>1, <2>3
  <1>8. \A k \in 1 .. n : q[k] \in S /\ PlaceOf(L, S, q[k]) = k - 1
    <2> TAKE k \in 1 .. n
    <2>1. k - 1 \in 0 .. n - 1
      OBVIOUS
    <2>2. \E x \in S : PlaceOf(L, S, x) = k - 1
      <3>1. \A m \in 0 .. n - 1 : \E x \in S : PlaceOf(L, S, x) = m
        <4>1. PICK D : D = S
          OBVIOUS
        <4>2. IsFiniteSet(D) /\ StrictOrder(L, D) /\ Cardinality(D) = n
          BY <1>1, <1>4, <4>1
        <4>3. \A m \in 0 .. n - 1 : \E x \in D : PlaceOf(L, D, x) = m
          BY <4>2, PlacesAre
        <4> QED
          BY <4>1, <4>3
      <3> QED
        BY <2>1, <3>1
    <2> QED
      BY <1>7, <2>2
  <1>9. q \in [1 .. n -> S]
    BY <1>7, <1>8
  <1>10. q \in Seq(S) /\ Len(q) = n
    BY <1>9
  <1>11. \A k, m \in 1 .. n : q[k] = q[m] => k = m
    BY <1>8
  <1>12. ASSUME NEW k \in 1 .. n, NEW m \in 1 .. n, k < m PROVE q[k] < q[m]
    <2>1. q[k] \in S /\ q[m] \in S /\ PlaceOf(L, S, q[k]) = k - 1 /\ PlaceOf(L, S, q[m]) = m - 1
      BY <1>8
    <2>2. q[k] # q[m]
      BY <1>11, <1>12
    <2>3. ~(q[m] < q[k])
      <3>1. SUFFICES ASSUME q[m] < q[k] PROVE FALSE
        OBVIOUS
      <3>2. <<q[m], q[k]>> \in L
        BY <1>3, <2>1, <3>1
      <3>3. m - 1 < k - 1
        BY <1>4, <2>1, <3>2, PlaceGrows
      <3> QED
        BY <1>12, <3>3
    <2>4. q[k] \in Int /\ q[m] \in Int
      BY <2>1
    <2> QED
      BY <2>2, <2>3, <2>4
  <1> QED
    BY <1>1, <1>6, <1>10, <1>11, <1>12 DEF Lists

\* The number of nodes on two sides.
LEMMA SidesCard ==
    ASSUME NEW N, IsFiniteSet(N), NEW T \in SUBSET N
    PROVE  /\ IsFiniteSet(T) /\ IsFiniteSet(N \ T)
           /\ Cardinality(T) \in Nat /\ Cardinality(N \ T) \in Nat /\ Cardinality(N) \in Nat
           /\ Cardinality(N) = Cardinality(N \ T) + Cardinality(T)
  <1>1. IsFiniteSet(T) /\ IsFiniteSet(N \ T)
    BY FS_Subset
  <1>2. Cardinality(T) \in Nat /\ Cardinality(N \ T) \in Nat /\ Cardinality(N) \in Nat
    BY <1>1, FS_CardinalityType
  <1>3. (N \ T) \cup T = N /\ (N \ T) \cap T = {}
    OBVIOUS
  <1>4. Cardinality((N \ T) \cup T) = Cardinality(N \ T) + Cardinality(T) - Cardinality((N \ T) \cap T)
    BY <1>1, FS_Union
  <1> QED
    BY <1>1, <1>2, <1>3, <1>4, FS_EmptySet

\* The lists of two sides one after the other.
LEMMA ListsJoin ==
    ASSUME NEW N, IsFiniteSet(N), NEW T \in SUBSET N,
           NEW q, Lists(q, N \ T), NEW h, Lists(h, T)
    PROVE  Lists(q \o h, N)
  <1>1. q \in Seq(N) /\ h \in Seq(N) /\ Len(q) \in Nat /\ Len(h) \in Nat
    BY DEF Lists
  <1>2. PICK c \in Seq(N) : c = q \o h
    BY <1>1, ConcatProperties
  <1>3. Len(c) = Len(q) + Len(h)
        /\ \A k \in 1 .. Len(q) + Len(h) : c[k] = IF k <= Len(q) THEN q[k] ELSE h[k - Len(q)]
    BY <1>1, <1>2, ConcatProperties
  <1>4. Len(c) = Cardinality(N)
    BY <1>3, SidesCard DEF Lists
  <1>5. ASSUME NEW k \in 1 .. Len(c), NEW m \in 1 .. Len(c), c[k] = c[m] PROVE k = m
    <2>1. \A x \in 1 .. Len(q) : q[x] \in N \ T
      BY DEF Lists
    <2>2. \A x \in 1 .. Len(h) : h[x] \in T
      BY DEF Lists
    <2>3. CASE k <= Len(q) /\ m <= Len(q)
      <3>1. k \in 1 .. Len(q) /\ m \in 1 .. Len(q) /\ c[k] = q[k] /\ c[m] = q[m]
        BY <1>1, <1>3, <2>3
      <3> QED
        BY <1>5, <3>1 DEF Lists
    <2>4. CASE ~(k <= Len(q)) /\ ~(m <= Len(q))
      <3>1. /\ k - Len(q) \in 1 .. Len(h) /\ m - Len(q) \in 1 .. Len(h)
            /\ c[k] = h[k - Len(q)] /\ c[m] = h[m - Len(q)]
        BY <1>1, <1>3, <2>4
      <3>2. k - Len(q) = m - Len(q)
        BY <1>5, <3>1 DEF Lists
      <3> QED
        BY <1>1, <1>3, <3>2
    <2>5. CASE k <= Len(q) /\ ~(m <= Len(q))
      <3>1. k \in 1 .. Len(q) /\ m - Len(q) \in 1 .. Len(h) /\ c[k] = q[k] /\ c[m] = h[m - Len(q)]
        BY <1>1, <1>3, <2>5
      <3> QED
        BY <1>5, <2>1, <2>2, <3>1
    <2>6. CASE ~(k <= Len(q)) /\ m <= Len(q)
      <3>1. m \in 1 .. Len(q) /\ k - Len(q) \in 1 .. Len(h) /\ c[m] = q[m] /\ c[k] = h[k - Len(q)]
        BY <1>1, <1>3, <2>6
      <3> QED
        BY <1>5, <2>1, <2>2, <3>1
    <2> QED
      BY <2>3, <2>4, <2>5, <2>6
  <1> QED
    BY <1>2, <1>4, <1>5 DEF Lists

\* A list of the experts is an order of them.
LEMMA ListedIsOrder ==
    ASSUME NEW j \in Jobs, NEW q, Lists(q, Slots(j))
    PROVE  IsOrder(j, AsOrder(q))
  <1>1. PICK n \in Nat \ {0} : n = j.n
    BY JobsAssumption
  <1>2. Slots(j) = 0 .. n - 1 /\ Cardinality(Slots(j)) = n
    BY <1>1, FS_Interval DEF Slots
  <1>3. Len(q) = n /\ \A k \in 1 .. n : q[k] \in Slots(j)
    BY <1>2 DEF Lists
  <1>4. PICK o : o = AsOrder(q)
    OBVIOUS
  <1>5. o = [x \in 0 .. n - 1 |-> q[x + 1]]
    BY <1>3, <1>4 DEF AsOrder
  <1>6. \A x \in 0 .. n - 1 : x + 1 \in 1 .. n
    OBVIOUS
  <1>7. o \in [Slots(j) -> Slots(j)]
    BY <1>2, <1>3, <1>5, <1>6
  <1>8. ASSUME NEW x \in 0 .. n - 1, NEW y \in 0 .. n - 1, o[x] = o[y] PROVE x = y
    <2>1. q[x + 1] = q[y + 1] /\ x + 1 \in 1 .. Len(q) /\ y + 1 \in 1 .. Len(q)
      BY <1>3, <1>5, <1>6, <1>8
    <2>2. x + 1 = y + 1
      BY <2>1 DEF Lists
    <2> QED
      BY <2>2
  <1> QED
    BY <1>2, <1>4, <1>7, <1>8 DEF IsOrder

\* The lists of one side followed by those of the other.
Join(A, B) == {left \o right : left \in A, right \in B}

\* The step of bisect, given what it comes to for smaller sets of nodes.
Laid(tokens, g, nodes) ==
    IF Cardinality(nodes) <= 2 THEN {InOrder(nodes)}
    ELSE LET sides == {KernighanLin(tokens, nodes, side) : side \in Halves(nodes)}
         IN  UNION {Join(g[nodes \ side], g[side]) : side \in sides}

\* Its recursion.
IsLaid(g, tokens, N) == g = [nodes \in SUBSET N |-> Laid(tokens, g, nodes)]

LEMMA BisectionsIs ==
    ASSUME NEW tokens, NEW n
    PROVE  Bisections(tokens, n) = (CHOOSE g : IsLaid(g, tokens, 0 .. n - 1))[0 .. n - 1]
  BY DEF Bisections, IsLaid, Laid, Join

\* Both sides of a set of more than two nodes are smaller than it.
LEMMA SidesSmaller ==
    ASSUME NEW tokens, IsFiniteSet(DOMAIN tokens), NEW nodes \in SUBSET Int, IsFiniteSet(nodes),
           Cardinality(nodes) > 2, NEW side \in Halves(nodes), NEW T, T = KernighanLin(tokens, nodes, side)
    PROVE  /\ T \in SUBSET nodes
           /\ Cardinality(T) < Cardinality(nodes) /\ Cardinality(nodes \ T) < Cardinality(nodes)
  <1>1. PICK c \in Nat : c = Cardinality(nodes)
    BY FS_CardinalityType
  <1>2. side \in SUBSET nodes /\ Cardinality(side) = c - c \div 2
    BY <1>1 DEF Halves, kSubset
  <1>3. T \in SUBSET nodes /\ Cardinality(T) = c - c \div 2
    BY <1>2, KernighanLinKeeps DEF AsGood
  <1>4. PICK d \in Nat : d = c \div 2 /\ d > 0 /\ d < c
    BY <1>1
  <1>5. Cardinality(T) \in Nat /\ Cardinality(nodes \ T) \in Nat /\ c = Cardinality(nodes \ T) + Cardinality(T)
    BY <1>1, <1>3, SidesCard
  <1>6. Cardinality(T) = c - d
    BY <1>3, <1>4
  <1>7. Cardinality(T) < c /\ Cardinality(nodes \ T) < c
    <2>1. d > 0 /\ d < c
      BY <1>4
    <2>2. PICK x \in Nat, y \in Nat : x = Cardinality(T) /\ y = Cardinality(nodes \ T)
      BY <1>5
    <2>3. c = y + x /\ x = c - d
      BY <1>5, <1>6, <2>2
    <2>4. x < c /\ y < c
      BY ONLY <2>1, <2>3, c \in Nat, d \in Nat, x \in Nat, y \in Nat
    <2> QED
      BY <2>2, <2>4
  <1> QED
    BY <1>1, <1>3, <1>7

\* The step depends on smaller sets of nodes only.
Agree(g, h, nodes) == \A T \in SUBSET nodes : Cardinality(T) < Cardinality(nodes) => g[T] = h[T]

LEMMA LaidLocal ==
    ASSUME NEW tokens, IsFiniteSet(DOMAIN tokens), NEW nodes \in SUBSET Int, IsFiniteSet(nodes),
           NEW g, NEW h, Agree(g, h, nodes)
    PROVE  Laid(tokens, g, nodes) = Laid(tokens, h, nodes)
  <1>1. CASE Cardinality(nodes) <= 2
    BY <1>1 DEF Laid
  <1>2. CASE ~(Cardinality(nodes) <= 2)
    <2>1. Cardinality(nodes) > 2
      BY <1>2, FS_CardinalityType
    <2>2. PICK sides : sides = {KernighanLin(tokens, nodes, side) : side \in Halves(nodes)}
      OBVIOUS
    <2>3. \A T \in sides : g[T] = h[T] /\ g[nodes \ T] = h[nodes \ T]
      <3> TAKE T \in sides
      <3>1. PICK side \in Halves(nodes) : T = KernighanLin(tokens, nodes, side)
        BY <2>2
      <3>2. /\ T \in SUBSET nodes
            /\ Cardinality(T) < Cardinality(nodes) /\ Cardinality(nodes \ T) < Cardinality(nodes)
        BY <2>1, <3>1, SidesSmaller
      <3>3. nodes \ T \in SUBSET nodes
        OBVIOUS
      <3> QED
        BY <3>2, <3>3 DEF Agree
    <2>4. Laid(tokens, g, nodes) = UNION {Join(g[nodes \ T], g[T]) : T \in sides}
      BY <1>2, <2>2 DEF Laid
    <2>5. Laid(tokens, h, nodes) = UNION {Join(h[nodes \ T], h[T]) : T \in sides}
      BY <1>2, <2>2 DEF Laid
    <2>6. \A T \in sides : Join(g[nodes \ T], g[T]) = Join(h[nodes \ T], h[T])
      BY <2>3
    <2>7. {Join(g[nodes \ T], g[T]) : T \in sides} = {Join(h[nodes \ T], h[T]) : T \in sides}
      BY <2>6
    <2> QED
      BY <2>4, <2>5, <2>7
  <1> QED
    BY <1>1, <1>2

\* The recursion is solved for the sets of up to k nodes.
UpTo(g, tokens, N, k) ==
    \A nodes \in SUBSET N : Cardinality(nodes) <= k => g[nodes] = Laid(tokens, g, nodes)

LEMMA LaidUpTo ==
    ASSUME NEW tokens, IsFiniteSet(DOMAIN tokens), NEW N \in SUBSET Int, IsFiniteSet(N), NEW k \in Nat
    PROVE  \E g : g = [nodes \in SUBSET N |-> g[nodes]] /\ UpTo(g, tokens, N, k)
  <1> DEFINE Good(m) == \E g : g = [nodes \in SUBSET N |-> g[nodes]] /\ UpTo(g, tokens, N, m)
             Bad == {m \in Nat : ~Good(m)}
  <1> HIDE DEF Good
  <1>1. SUFFICES ASSUME Bad # {} PROVE FALSE
    BY <1>1 DEF Good
  <1>2. PICK m \in Bad : \A x \in Bad : m <= x
    <2>1. Bad \in SUBSET Nat
      OBVIOUS
    <2> HIDE DEF Bad
    <2> QED
      BY <1>1, <2>1, SmallestNat
  <1>3. m \in Nat /\ ~Good(m)
    BY <1>2
  <1>4. \A T \in SUBSET N : IsFiniteSet(T) /\ Cardinality(T) \in Nat /\ T \in SUBSET Int
    BY FS_Subset, FS_CardinalityType
  <1>5. CASE m = 0
    <2>1. PICK g : g = [nodes \in SUBSET N |-> Laid(tokens, << >>, nodes)]
      OBVIOUS
    <2>2. ASSUME NEW nodes \in SUBSET N, Cardinality(nodes) <= 0 PROVE g[nodes] = Laid(tokens, g, nodes)
      <3>1. \A T \in SUBSET nodes : Cardinality(T) \in Nat /\ Cardinality(nodes) \in Nat
        BY <1>4
      <3>2. Agree(g, << >>, nodes)
        BY <2>2, <3>1 DEF Agree
      <3>3. Laid(tokens, g, nodes) = Laid(tokens, << >>, nodes)
        BY <1>4, <3>2, LaidLocal
      <3> QED
        BY <2>1, <3>3
    <2>3. UpTo(g, tokens, N, 0)
      BY <2>2 DEF UpTo
    <2>4. g = [nodes \in SUBSET N |-> g[nodes]]
      BY <2>1
    <2> QED
      BY <1>3, <1>5, <2>3, <2>4 DEF Good
  <1>6. CASE m # 0
    <2>1. m - 1 \in Nat /\ ~(m <= m - 1)
      BY <1>3, <1>6
    <2>2. Good(m - 1)
      BY <1>2, <2>1
    <2>3. PICK g : UpTo(g, tokens, N, m - 1)
      BY <2>2 DEF Good
    <2>4. PICK h : h = [nodes \in SUBSET N |-> IF Cardinality(nodes) <= m - 1 THEN g[nodes] ELSE Laid(tokens, g, nodes)]
      OBVIOUS
    <2>5. ASSUME NEW nodes \in SUBSET N, Cardinality(nodes) <= m PROVE h[nodes] = Laid(tokens, h, nodes)
      <3>1. ASSUME NEW T \in SUBSET nodes, Cardinality(T) < Cardinality(nodes) PROVE h[T] = g[T]
        <4>1. T \in SUBSET N /\ Cardinality(T) <= m - 1
          BY <1>3, <1>4, <2>5, <3>1
        <4> QED
          BY <2>4, <4>1
      <3>2. Laid(tokens, h, nodes) = Laid(tokens, g, nodes)
        <4>1. Agree(h, g, nodes)
          BY <3>1 DEF Agree
        <4> QED
          BY <1>4, <4>1, LaidLocal
      <3>3. h[nodes] = Laid(tokens, g, nodes)
        <4>1. CASE Cardinality(nodes) <= m - 1
          BY <2>3, <2>4, <4>1 DEF UpTo
        <4>2. CASE ~(Cardinality(nodes) <= m - 1)
          BY <2>4, <4>2
        <4> QED
          BY <4>1, <4>2
      <3> QED
        BY <3>2, <3>3
    <2>6. UpTo(h, tokens, N, m)
      BY <2>5 DEF UpTo
    <2>7. h = [nodes \in SUBSET N |-> h[nodes]]
      BY <2>4
    <2> QED
      BY <1>3, <2>6, <2>7 DEF Good
  <1> QED
    BY <1>5, <1>6

\* So the recursion has a solution.
LEMMA LaidExists ==
    ASSUME NEW tokens, IsFiniteSet(DOMAIN tokens), NEW N \in SUBSET Int, IsFiniteSet(N)
    PROVE  \E g : IsLaid(g, tokens, N)
  <1>1. Cardinality(N) \in Nat
    BY FS_CardinalityType
  <1>2. PICK g : g = [nodes \in SUBSET N |-> g[nodes]] /\ UpTo(g, tokens, N, Cardinality(N))
    BY <1>1, LaidUpTo
  <1>3. \A nodes \in SUBSET N : g[nodes] = Laid(tokens, g, nodes)
    BY <1>2, FS_Subset DEF UpTo
  <1>4. g = [nodes \in SUBSET N |-> Laid(tokens, g, nodes)]
    BY <1>2, <1>3
  <1> QED
    BY <1>4 DEF IsLaid

\* If what it comes to for smaller sets lists them, so does the step for the set.
AllList(g, nodes) ==
    \A T \in SUBSET nodes : Cardinality(T) < Cardinality(nodes) => \A q \in g[T] : Lists(q, T)

LEMMA LaidLists ==
    ASSUME NEW tokens, IsFiniteSet(DOMAIN tokens), NEW nodes \in SUBSET Int, IsFiniteSet(nodes),
           NEW g, AllList(g, nodes), NEW q \in Laid(tokens, g, nodes)
    PROVE  Lists(q, nodes)
  <1>1. CASE Cardinality(nodes) <= 2
    BY <1>1, InOrderLists DEF Laid
  <1>2. CASE ~(Cardinality(nodes) <= 2)
    <2>1. Cardinality(nodes) > 2
      BY <1>2, FS_CardinalityType
    <2>6. PICK side \in Halves(nodes) :
              LET T == KernighanLin(tokens, nodes, side) IN q \in Join(g[nodes \ T], g[T])
      BY <1>2 DEF Laid
    <2>2. PICK T : T = KernighanLin(tokens, nodes, side) /\ q \in Join(g[nodes \ T], g[T])
      BY <2>6
    <2>3. /\ T \in SUBSET nodes
          /\ Cardinality(T) < Cardinality(nodes) /\ Cardinality(nodes \ T) < Cardinality(nodes)
      BY <2>1, <2>2, SidesSmaller
    <2>4. PICK left \in g[nodes \ T], right \in g[T] : q = left \o right
      <3>1. PICK A, B : A = g[nodes \ T] /\ B = g[T]
        OBVIOUS
      <3>2. q \in Join(A, B)
        BY <2>2, <3>1
      <3>3. \E left \in A, right \in B : q = left \o right
        BY ONLY <3>2 DEF Join
      <3> QED
        BY <3>1, <3>3
    <2>5. Lists(left, nodes \ T) /\ Lists(right, T)
      <3>1. nodes \ T \in SUBSET nodes
        OBVIOUS
      <3> QED
        BY <2>3, <3>1 DEF AllList
    <2> QED
      BY <2>3, <2>4, <2>5, ListsJoin
  <1> QED
    BY <1>1, <1>2

\* Every order the bisection can come to lists the nodes.
LEMMA BisectionsList ==
    ASSUME NEW tokens, IsFiniteSet(DOMAIN tokens), NEW n \in Nat, NEW q \in Bisections(tokens, n)
    PROVE  Lists(q, 0 .. n - 1)
  <1>1. PICK N : N = 0 .. n - 1
    OBVIOUS
  <1>2. N \in SUBSET Int /\ IsFiniteSet(N)
    BY <1>1, FS_Interval
  <1>3. \E g : IsLaid(g, tokens, N)
    BY <1>2, LaidExists
  <1>4. PICK g : IsLaid(g, tokens, N) /\ q \in g[N]
    <2>1. IsLaid(CHOOSE g : IsLaid(g, tokens, N), tokens, N)
      BY <1>3
    <2> QED
      BY <1>1, <2>1, BisectionsIs
  <1>5. \A T \in SUBSET N : g[T] = Laid(tokens, g, T)
    BY <1>4 DEF IsLaid
  <1> DEFINE Good(T) == \A x \in g[T] : Lists(x, T)
             Bad == {k \in Nat : \E T \in SUBSET N : Cardinality(T) = k /\ ~Good(T)}
  <1> HIDE DEF Good
  <1>6. SUFFICES ASSUME Bad # {} PROVE FALSE
    <2>1. Cardinality(N) \in Nat /\ N \in SUBSET N
      BY <1>2, FS_CardinalityType
    <2>2. Good(N) \/ Cardinality(N) \in Bad
      BY <2>1
    <2>3. Good(N)
      BY <1>6, <2>2
    <2> QED
      BY <1>1, <1>4, <2>3 DEF Good
  <1>7. PICK k \in Bad : \A m \in Bad : k <= m
    <2>1. Bad \in SUBSET Nat
      OBVIOUS
    <2> HIDE DEF Bad
    <2> QED
      BY <1>6, <2>1, SmallestNat
  <1>8. PICK T \in SUBSET N : k \in Nat /\ Cardinality(T) = k /\ ~Good(T)
    BY <1>7
  <1>9. ASSUME NEW S \in SUBSET T, Cardinality(S) < Cardinality(T) PROVE Good(S)
    <2>1. S \in SUBSET N /\ Cardinality(S) \in Nat
      BY <1>2, <1>8, FS_Subset, FS_CardinalityType
    <2>2. ~(k <= Cardinality(S))
      BY <1>8, <1>9, <2>1
    <2>3. Cardinality(S) \notin Bad
      BY <1>7, <2>2
    <2> QED
      BY <2>1, <2>3
  <1>10. AllList(g, T)
    BY <1>9 DEF AllList, Good
  <1>11. T \in SUBSET Int /\ IsFiniteSet(T)
    BY <1>2, FS_Subset
  <1>12. Good(T)
    BY <1>5, <1>10, <1>11, LaidLists DEF Good
  <1> QED
    BY <1>8, <1>12

-----------------------------------------------------------------------------
(* The chain *)

\* Fractions with a denominator; affinities are such.
IsFraction(f) == f.num \in Nat /\ f.den \in Nat \ {0}

LEMMA AffinityIs ==
    ASSUME NEW tokens, IsFiniteSet(DOMAIN tokens), NEW x, NEW y
    PROVE  IsFraction(Affinity(tokens, x, y))
  <1>1. Freq(tokens, x) \in Nat /\ Freq(tokens, y) \in Nat
    BY FS_Subset, FS_CardinalityType DEF Freq
  <1>2. PICK d \in Nat : d = Freq(tokens, x) * Freq(tokens, y)
    BY <1>1
  <1>3. Edge(tokens, x, y) \in Nat
    BY EdgeIs
  <1> QED
    BY <1>2, <1>3 DEF Affinity, IsFraction

\* Products grow with their factors.
LEMMA ProductGrows ==
    ASSUME NEW x \in Nat, NEW y \in Nat, NEW z \in Nat, x >= y
    PROVE  x * z >= y * z
  <1>1. PICK d \in Nat : x = y + d
    BY x - y \in Nat
  <1>2. x * z = y * z + d * z /\ d * z \in Nat /\ y * z \in Nat
    BY <1>1
  <1> QED
    BY <1>2

LEMMA ProductsCompare ==
    ASSUME NEW x \in Nat, NEW y \in Nat, NEW z \in Nat \ {0}, x * z >= y * z
    PROVE  x >= y
  <1>1. SUFFICES ASSUME ~(x >= y) PROVE FALSE
    OBVIOUS
  <1>2. PICK d \in Nat \ {0} : y = x + d
    BY <1>1, y - x \in Nat \ {0}
  <1>3. y * z = x * z + d * z /\ d * z \in Nat \ {0} /\ x * z \in Nat
    BY <1>2
  <1> QED
    BY <1>3

\* Comparing fractions by their cross products is a total preorder.
LEMMA AtLeastOrders ==
    ASSUME NEW f, IsFraction(f), NEW g, IsFraction(g), NEW h, IsFraction(h)
    PROVE  /\ AtLeast(f, g) \/ AtLeast(g, f)
           /\ AtLeast(f, g) /\ AtLeast(g, h) => AtLeast(f, h)
  <1>1. PICK x1 \in Nat, y1 \in Nat \ {0}, x2 \in Nat, y2 \in Nat \ {0}, x3 \in Nat, y3 \in Nat \ {0} :
            x1 = f.num /\ y1 = f.den /\ x2 = g.num /\ y2 = g.den /\ x3 = h.num /\ y3 = h.den
    BY DEF IsFraction
  <1>2. /\ AtLeast(f, g) <=> x1 * y2 >= x2 * y1
        /\ AtLeast(g, f) <=> x2 * y1 >= x1 * y2
        /\ AtLeast(g, h) <=> x2 * y3 >= x3 * y2
        /\ AtLeast(f, h) <=> x1 * y3 >= x3 * y1
    BY <1>1 DEF AtLeast
  <1>3. x1 * y2 \in Nat /\ x2 * y1 \in Nat /\ x2 * y3 \in Nat /\ x3 * y2 \in Nat /\ x1 * y3 \in Nat /\ x3 * y1 \in Nat
    OBVIOUS
  <1>4. ASSUME x1 * y2 >= x2 * y1, x2 * y3 >= x3 * y2 PROVE x1 * y3 >= x3 * y1
    <2>1. (x1 * y2) * y3 >= (x2 * y1) * y3
      BY <1>3, <1>4, ProductGrows
    <2>2. (x2 * y3) * y1 >= (x3 * y2) * y1
      BY <1>3, <1>4, ProductGrows
    <2>3. (x1 * y2) * y3 = (x1 * y3) * y2 /\ (x2 * y1) * y3 = (x2 * y3) * y1 /\ (x3 * y2) * y1 = (x3 * y1) * y2
      OBVIOUS
    <2>4. (x1 * y3) * y2 >= (x3 * y1) * y2
      <3>1. PICK a1 \in Nat, a2 \in Nat, a3 \in Nat :
                a1 = (x1 * y3) * y2 /\ a2 = (x2 * y3) * y1 /\ a3 = (x3 * y1) * y2
        BY <1>3
      <3>2. a1 >= a2 /\ a2 >= a3
        BY <2>1, <2>2, <2>3, <3>1
      <3>3. a1 >= a3
        BY <3>2
      <3> QED
        BY <3>1, <3>3
    <2> QED
      BY <1>3, <2>4, ProductsCompare
  <1> QED
    BY <1>2, <1>3, <1>4

\* The comparison by which the chain chooses between pairs of numbers with affinities F: the
\* greater affinity, then the lesser pair.
Lesser(o, f) == o[1] < f[1] \/ (o[1] = f[1] /\ o[2] < f[2])
Preferred(F, o, f) == Stronger(F[o], F[f]) \/ (AtLeast(F[o], F[f]) /\ Lesser(o, f))

\* There is a strongest of any finite number of pairs, though not of none.
LEMMA StrongestIs ==
    ASSUME NEW O \in SUBSET (Int \X Int), IsFiniteSet(O), O # {}, NEW F, \A o \in O : IsFraction(F[o])
    PROVE  Strongest(O, F) \in O
  <1>1. PICK Geq : Geq = {e \in O \X O : AtLeast(F[e[1]], F[e[2]])}
    OBVIOUS
  <1>2. \A o, f \in O : <<o, f>> \in Geq <=> AtLeast(F[o], F[f])
    BY <1>1
  <1>3. /\ \A o, f \in O : <<o, f>> \in Geq \/ <<f, o>> \in Geq
        /\ \A o, f, h \in O : <<o, f>> \in Geq /\ <<f, h>> \in Geq => <<o, h>> \in Geq
    BY <1>2, AtLeastOrders
  <1>4. PICK L : L = {e \in O \X O : Preferred(F, e[1], e[2])}
    OBVIOUS
  <1>5. \A o, f \in O : <<o, f>> \in L <=> Preferred(F, o, f)
    BY <1>4
  <1>6. \A o, f \in O : <<o, f>> \in L <=> <<f, o>> \notin Geq \/ (<<o, f>> \in Geq /\ Lesser(o, f))
    BY <1>2, <1>5 DEF Preferred, Stronger
  <1>7. /\ \A o, f \in O : o # f => Lesser(o, f) \/ Lesser(f, o)
        /\ \A o, f, h \in O : Lesser(o, f) /\ Lesser(f, h) => Lesser(o, h)
        /\ \A o \in O : ~Lesser(o, o)
    BY DEF Lesser
  <1>8. StrictOrder(L, O)
    <2>1. \A o, f \in O : o # f => <<o, f>> \in L \/ <<f, o>> \in L
      BY <1>3, <1>6, <1>7
    <2>2. \A o, f, h \in O : <<o, f>> \in L /\ <<f, h>> \in L => <<o, h>> \in L
      <3> TAKE o, f, h \in O
      <3> HAVE <<o, f>> \in L /\ <<f, h>> \in L
      <3>1. SUFFICES ASSUME <<h, o>> \in Geq PROVE <<o, h>> \in Geq /\ Lesser(o, h)
        BY <1>6
      <3>2. <<o, f>> \in Geq /\ <<f, h>> \in Geq
        BY <1>3, <1>6
      <3>3. <<f, o>> \in Geq /\ <<h, f>> \in Geq
        BY <1>3, <3>1, <3>2
      <3> QED
        BY <1>3, <1>6, <1>7, <3>2, <3>3
    <2>3. \A o \in O : <<o, o>> \notin L
      BY <1>3, <1>6, <1>7
    <2> QED
      BY <2>1, <2>2, <2>3 DEF StrictOrder
  <1>9. PICK o \in O : \A f \in O \ {o} : <<o, f>> \in L
    BY <1>8, FirstInOrder
  <1>13. \E e \in O : \A f \in O \ {e} : Preferred(F, e, f)
    BY <1>5, <1>9
  <1>14. \E e \in O : \A f \in O \ {e} :
            \/ Stronger(F[e], F[f])
            \/ AtLeast(F[e], F[f]) /\ (e[1] < f[1] \/ (e[1] = f[1] /\ e[2] < f[2]))
    BY ONLY <1>13 DEF Preferred, Lesser
  <1> QED
    BY ONLY <1>14 DEF Strongest

\* The elements of a sequence.
Placed(q) == {q[k] : k \in DOMAIN q}

\* A sequence of k different experts.
Partial(q, D, k) ==
    /\ q \in Seq(D) /\ Len(q) = k
    /\ \A x, y \in 1 .. k : q[x] = q[y] => x = y

\* The chain begins with two different experts.
LEMMA BestPairIs ==
    ASSUME NEW tokens, IsFiniteSet(DOMAIN tokens), NEW n \in Nat, n >= 2
    PROVE  LET first == BestPair(tokens, n) IN Partial(<<first[1], first[2]>>, 0 .. n - 1, 2)
  <1>1. PICK O : O = {e \in (0 .. n - 1) \X (0 .. n - 1) : e[1] < e[2]}
    OBVIOUS
  <1>2. O \in SUBSET (Int \X Int) /\ IsFiniteSet(O)
    <2>1. IsFiniteSet(0 .. n - 1)
      BY FS_Interval
    <2>2. IsFiniteSet((0 .. n - 1) \X (0 .. n - 1))
      BY <2>1, FS_Product
    <2> QED
      BY <1>1, <2>2, FS_Subset
  <1>3. O # {}
    <2>1. <<0, 1>> \in O
      BY <1>1
    <2> QED
      BY <2>1
  <1>4. PICK F : F = [e \in O |-> Affinity(tokens, e[1], e[2])]
    OBVIOUS
  <1>5. \A e \in O : F[e] = Affinity(tokens, e[1], e[2]) /\ IsFraction(F[e])
    BY <1>4, AffinityIs
  <1>6. Strongest(O, F) \in O
    BY <1>2, <1>3, <1>5, StrongestIs
  <1>7. BestPair(tokens, n) = Strongest(O, F)
    BY <1>1, <1>4 DEF BestPair
  <1> QED
    BY <1>1, <1>6, <1>7 DEF Partial

\* And goes on with one it does not have yet.
LEMMA ExtendedIs ==
    ASSUME NEW tokens, IsFiniteSet(DOMAIN tokens), NEW n \in Nat, NEW k \in 1 .. n - 1,
           NEW q, Partial(q, 0 .. n - 1, k)
    PROVE  Partial(Extended(tokens, q, (0 .. n - 1) \ Placed(q)), 0 .. n - 1, k + 1)
  <1>1. PICK D, left : D = 0 .. n - 1 /\ left = (0 .. n - 1) \ Placed(q)
    OBVIOUS
  <1>2. IsFiniteSet(D) /\ Cardinality(D) = n /\ D \subseteq Int
    BY <1>1, FS_Interval
  <1>3. q \in Seq(D) /\ Len(q) = k /\ DOMAIN q = 1 .. k
    BY <1>1 DEF Partial
  <1>4. left # {}
    <2>1. SUFFICES ASSUME left = {} PROVE FALSE
      OBVIOUS
    <2>2. q \in Surjection(1 .. k, D)
      <3>1. q \in [1 .. k -> D]
        BY <1>3
      <3>2. \A x \in D : x \in Placed(q)
        BY <1>1, <2>1
      <3>3. \A x \in D : \E m \in 1 .. k : q[m] = x
        BY <1>3, <3>2 DEF Placed
      <3> QED
        BY <3>1, <3>3 DEF Surjection
    <2>3. IsFiniteSet(1 .. k) /\ Cardinality(1 .. k) = k
      BY FS_Interval
    <2>4. n <= k
      BY <1>2, <2>2, <2>3, FS_Surjection
    <2> QED
      BY <2>4
  <1>5. PICK O : O = left \X {0, 1}
    OBVIOUS
  <1>6. O \in SUBSET (Int \X Int) /\ IsFiniteSet(O) /\ O # {}
    <2>1. IsFiniteSet(left)
      BY <1>1, <1>2, FS_Subset
    <2>2. IsFiniteSet({0, 1})
      <3>1. IsFiniteSet({0}) /\ IsFiniteSet({0} \cup {1})
        BY FS_Singleton, FS_AddElement
      <3>2. {0, 1} = {0} \cup {1}
        OBVIOUS
      <3> QED
        BY <3>1, <3>2
    <2>3. O # {}
      <3>1. PICK x : x \in left
        BY <1>4
      <3>2. <<x, 0>> \in O
        BY <1>5, <3>1
      <3> QED
        BY <3>2
    <2>4. IsFiniteSet(O)
      BY <1>5, <2>1, <2>2, FS_Product
    <2> QED
      BY <1>1, <1>2, <1>5, <2>3, <2>4
  <1> DEFINE end(o) == IF o[2] = 0 THEN q[1] ELSE q[Len(q)]
  <1>7. PICK F : F = [o \in O |-> Affinity(tokens, end(o), o[1])]
    OBVIOUS
  <1>8. \A o \in O : IsFraction(F[o])
    BY <1>7, AffinityIs
  <1>9. PICK pick \in O : pick = Strongest(O, F)
    BY <1>6, <1>8, StrongestIs
  <1>11. Extended(tokens, q, left) = IF pick[2] = 0 THEN <<pick[1]>> \o q ELSE Append(q, pick[1])
    BY <1>5, <1>7, <1>9 DEF Extended
  <1>12. pick[1] \in D /\ \A m \in 1 .. k : q[m] # pick[1]
    BY <1>1, <1>3, <1>5 DEF Placed
  <1>13. PICK x \in D : x = pick[1]
    BY <1>12
  <1>14. Partial(<<x>> \o q, D, k + 1)
    <2>1. <<x>> \in Seq(D) /\ Len(<<x>>) = 1 /\ <<x>>[1] = x
      OBVIOUS
    <2>2. PICK c \in Seq(D) : c = <<x>> \o q
      BY <1>3, <2>1, ConcatProperties
    <2>3. Len(c) = 1 + k /\ \A m \in 1 .. 1 + k : c[m] = IF m <= 1 THEN <<x>>[m] ELSE q[m - 1]
      BY <1>3, <2>1, <2>2, ConcatProperties
    <2>4. c[1] = x /\ \A m \in 2 .. k + 1 : c[m] = q[m - 1] /\ m - 1 \in 1 .. k
      BY <2>1, <2>3
    <2>5. ASSUME NEW y \in 1 .. k + 1, NEW z \in 1 .. k + 1, c[y] = c[z] PROVE y = z
      <3>1. \A m \in 2 .. k + 1 : c[m] # x
        BY <1>12, <1>13, <2>4
      <3>2. CASE y = 1 \/ z = 1
        BY <2>4, <2>5, <3>1, <3>2
      <3>3. CASE y # 1 /\ z # 1
        <4>1. y \in 2 .. k + 1 /\ z \in 2 .. k + 1
          BY <3>3
        <4>2. q[y - 1] = q[z - 1] /\ y - 1 \in 1 .. k /\ z - 1 \in 1 .. k
          BY <2>4, <2>5, <4>1
        <4>3. y - 1 = z - 1
          BY <4>2 DEF Partial
        <4> QED
          BY <4>3
      <3> QED
        BY <3>2, <3>3
    <2> QED
      BY <2>2, <2>3, <2>5 DEF Partial
  <1>15. Partial(Append(q, x), D, k + 1)
    <2>1. PICK c \in Seq(D) : c = Append(q, x)
      BY <1>3, AppendProperties
    <2>2. Len(c) = k + 1 /\ c[k + 1] = x /\ \A m \in 1 .. k : c[m] = q[m]
      BY <1>3, <2>1, AppendProperties
    <2>3. ASSUME NEW y \in 1 .. k + 1, NEW z \in 1 .. k + 1, c[y] = c[z] PROVE y = z
      <3>1. \A m \in 1 .. k : c[m] # x
        BY <1>12, <1>13, <2>2
      <3>2. CASE y = k + 1 \/ z = k + 1
        BY <2>2, <2>3, <3>1, <3>2
      <3>3. CASE y # k + 1 /\ z # k + 1
        <4>1. y \in 1 .. k /\ z \in 1 .. k
          BY <3>3
        <4>2. q[y] = q[z]
          BY <2>2, <2>3, <4>1
        <4> QED
          BY <4>1, <4>2 DEF Partial
      <3> QED
        BY <3>2, <3>3
    <2> QED
      BY <2>1, <2>2, <2>3 DEF Partial
  <1> QED
    BY <1>1, <1>11, <1>13, <1>14, <1>15

\* The recursion of the chain, as far as it has kept to different experts.
Chains(g, tokens, n) ==
    \A k \in 2 .. n :
        g[k] = IF k = 2 THEN <<BestPair(tokens, n)[1], BestPair(tokens, n)[2]>>
               ELSE IF Partial(g[k - 1], 0 .. n - 1, k - 1)
               THEN Extended(tokens, g[k - 1], (0 .. n - 1) \ Placed(g[k - 1]))
               ELSE g[k]

\* It keeps to them all along.
LEMMA ChainsOn ==
    ASSUME NEW tokens, IsFiniteSet(DOMAIN tokens), NEW n \in Nat, n >= 2, NEW g, Chains(g, tokens, n)
    PROVE  \A k \in 2 .. n : Partial(g[k], 0 .. n - 1, k)
  <1> DEFINE Bad == {k \in Nat : k \in 2 .. n /\ ~Partial(g[k], 0 .. n - 1, k)}
  <1>1. SUFFICES ASSUME Bad # {} PROVE FALSE
    BY <1>1
  <1>2. PICK m \in Bad : \A k \in Bad : m <= k
    <2>1. Bad \in SUBSET Nat
      OBVIOUS
    <2> HIDE DEF Bad
    <2> QED
      BY <1>1, <2>1, SmallestNat
  <1>3. m \in Nat /\ m \in 2 .. n /\ ~Partial(g[m], 0 .. n - 1, m)
    BY <1>2
  <1>4. CASE m = 2
    <2>1. g[2] = <<BestPair(tokens, n)[1], BestPair(tokens, n)[2]>>
      BY <1>3, <1>4 DEF Chains
    <2>2. Partial(g[2], 0 .. n - 1, 2)
      BY <2>1, BestPairIs
    <2> QED
      BY <1>3, <1>4, <2>2
  <1>5. CASE m # 2
    <2>1. PICK k \in Nat : k = m - 1
      BY <1>3
    <2>2. k \in 2 .. n /\ k \in 1 .. n - 1 /\ k + 1 = m /\ ~(m <= k)
      BY <1>3, <1>5, <2>1
    <2>3. Partial(g[k], 0 .. n - 1, k)
      BY <1>2, <2>2
    <2>4. g[m] = Extended(tokens, g[k], (0 .. n - 1) \ Placed(g[k]))
      BY <1>3, <1>5, <2>1, <2>3 DEF Chains
    <2>5. PICK q : q = g[k]
      OBVIOUS
    <2>6. Partial(Extended(tokens, q, (0 .. n - 1) \ Placed(q)), 0 .. n - 1, k + 1)
      BY <2>2, <2>3, <2>5, ExtendedIs
    <2> QED
      BY <1>3, <2>2, <2>4, <2>5, <2>6
  <1> QED
    BY <1>4, <1>5

\* The recursion of chain_order.
IsChain(g, tokens, n) ==
    g = [k \in 2 .. n |->
            IF k = 2 THEN <<BestPair(tokens, n)[1], BestPair(tokens, n)[2]>>
            ELSE Extended(tokens, g[k - 1], (0 .. n - 1) \ Placed(g[k - 1]))]

LEMMA ChainExists ==
    ASSUME NEW tokens, IsFiniteSet(DOMAIN tokens), NEW n \in Nat, n >= 2
    PROVE  \E g : IsChain(g, tokens, n)
  <1>1. PICK pair : pair = <<BestPair(tokens, n)[1], BestPair(tokens, n)[2]>>
    OBVIOUS
  <1>2. PICK on : on = [q \in Seq(0 .. n - 1) |-> Extended(tokens, q, (0 .. n - 1) \ Placed(q))]
    OBVIOUS
  <1>3. \A q \in Seq(0 .. n - 1) : on[q] = Extended(tokens, q, (0 .. n - 1) \ Placed(q))
    BY <1>2
  <1>4. PICK it : IsIterate(it, on, pair, n - 2)
    BY IterateExists
  <1>5. \A k \in 0 .. n - 2 : it[k] = IF k = 0 THEN pair ELSE on[it[k - 1]]
    BY <1>4 DEF IsIterate
  <1>6. PICK g : g = [k \in 2 .. n |-> it[k - 2]]
    OBVIOUS
  <1>7. \A k \in 2 .. n : g[k] = IF k = 2 THEN pair ELSE on[g[k - 1]]
    <2> TAKE k \in 2 .. n
    <2>1. k - 2 \in 0 .. n - 2 /\ (k - 2 = 0 <=> k = 2) /\ g[k] = it[k - 2]
      BY <1>6
    <2>2. k # 2 => k - 1 \in 2 .. n /\ (k - 1) - 2 = (k - 2) - 1
      OBVIOUS
    <2>3. k # 2 => g[k - 1] = it[(k - 2) - 1]
      BY <1>6, <2>2
    <2> QED
      BY <1>5, <2>1, <2>3
  <1>8. Chains(g, tokens, n)
    <2>1. ASSUME NEW k \in 2 .. n, Partial(g[k - 1], 0 .. n - 1, k - 1), k # 2
          PROVE  g[k] = Extended(tokens, g[k - 1], (0 .. n - 1) \ Placed(g[k - 1]))
      BY <1>3, <1>7, <2>1 DEF Partial
    <2> QED
      BY <1>1, <1>7, <2>1 DEF Chains
  <1>9. \A k \in 2 .. n : g[k - 1] \in Seq(0 .. n - 1) \/ k = 2
    <2> TAKE k \in 2 .. n
    <2>1. k # 2 => k - 1 \in 2 .. n
      OBVIOUS
    <2> QED
      BY <1>8, <2>1, ChainsOn DEF Partial
  <1>10. \A k \in 2 .. n :
            g[k] = IF k = 2 THEN pair ELSE Extended(tokens, g[k - 1], (0 .. n - 1) \ Placed(g[k - 1]))
    BY <1>3, <1>7, <1>9
  <1>11. g = [k \in 2 .. n |->
                IF k = 2 THEN pair ELSE Extended(tokens, g[k - 1], (0 .. n - 1) \ Placed(g[k - 1]))]
    <2>1. g = [k \in 2 .. n |-> g[k]]
      BY <1>6
    <2> QED
      BY <1>10, <2>1, Zenon
  <1> QED
    BY <1>1, <1>11 DEF IsChain

\* As many different experts as there are list them all.
LEMMA PartialLists ==
    ASSUME NEW n \in Nat, NEW q, Partial(q, 0 .. n - 1, n)
    PROVE  Lists(q, 0 .. n - 1)
  <1>1. Cardinality(0 .. n - 1) = n
    BY FS_Interval
  <1> QED
    BY <1>1 DEF Partial, Lists

\* chain_order proposes an order.
LEMMA ChainIsOrder == ASSUME NEW j \in Jobs PROVE IsOrder(j, Chain(j))
  <1>1. PICK n \in Nat : n = j.n
    BY JobsAssumption
  <1>2. PICK tokens : tokens = TrainTokens(j) /\ IsFiniteSet(DOMAIN tokens)
    BY TrainIs
  <1>3. Slots(j) = 0 .. n - 1
    BY <1>1 DEF Slots
  <1>4. CASE n < 2
    <2>1. Lists(InOrder(0 .. n - 1), 0 .. n - 1)
      BY InOrderLists, FS_Interval
    <2>2. Chain(j) = AsOrder(InOrder(0 .. n - 1))
      BY <1>1, <1>2, <1>4 DEF Chain
    <2> QED
      BY <1>3, <2>1, <2>2, ListedIsOrder
  <1>5. CASE n >= 2
    <2>1. PICK g : g = CHOOSE h : IsChain(h, tokens, n)
      OBVIOUS
    <2>2. IsChain(g, tokens, n)
      BY <1>2, <1>5, <2>1, ChainExists
    <2>3. Chain(j) = AsOrder(g[n])
      BY <1>1, <1>2, <1>5, <2>1 DEF Chain, IsChain, Placed
    <2>4. Chains(g, tokens, n)
      BY <2>2 DEF IsChain, Chains
    <2>5. Partial(g[n], 0 .. n - 1, n)
      BY <1>2, <1>5, <2>4, ChainsOn
    <2> QED
      BY <1>3, <2>3, <2>5, PartialLists, ListedIsOrder
  <1> QED
    BY <1>4, <1>5

\* What coact proposes to the search are orders: chain_order names every expert once, and so does
\* every order bisect can come to, whatever the Fiedler vector.  The search is verified for seeds
\* that are orders (SeedsAssumption); these are.
THEOREM ProposalsAreOrders ==
    \A j \in Jobs : IsOrder(j, Chain(j)) /\ \A q \in Mincuts(j) : IsOrder(j, q)
  <1> TAKE j \in Jobs
  <1>1. ASSUME NEW q \in Mincuts(j) PROVE IsOrder(j, q)
    <2>1. PICK s \in Bisections(TrainTokens(j), j.n) : q = AsOrder(s)
      BY <1>1 DEF Mincuts
    <2>2. Lists(s, 0 .. j.n - 1)
      BY JobsAssumption, TrainIs, BisectionsList
    <2> QED
      BY <2>1, <2>2, ListedIsOrder DEF Slots
  <1> QED
    BY <1>1, ChainIsOrder

-----------------------------------------------------------------------------
(* Where the tensors lie *)

\* A table as the header parser leaves it.
IsTable(t) ==
    /\ t.dataOffset \in Nat /\ t.fileSize \in Nat
    /\ t.tensors \in Seq([kind : STRING, rel : Nat, nbytes : Nat, lastDim : Nat])

\* Its tensors are a finite set of numbers, in a total order by offset.
LEMMA SoonerOrders ==
    ASSUME NEW t, IsTable(t)
    PROVE  LET D == DOMAIN t.tensors
               L == {e \in D \X D : Sooner(t, e[1], e[2])}
           IN  /\ IsFiniteSet(D) /\ D \in SUBSET Int
               /\ \A x \in D : t.tensors[x].rel \in Nat /\ t.tensors[x].nbytes \in Nat /\ t.tensors[x].lastDim \in Nat
               /\ \A x, y \in D : <<x, y>> \in L <=> Sooner(t, x, y)
               /\ StrictOrder(L, D)
  <1>1. PICK q : q = t.tensors /\ q \in Seq([kind : STRING, rel : Nat, nbytes : Nat, lastDim : Nat])
    BY DEF IsTable
  <1>2. PICK D : D = DOMAIN q
    OBVIOUS
  <1>3. D = 1 .. Len(q) /\ Len(q) \in Nat
    BY <1>1, <1>2
  <1>9. \A x \in D : q[x].rel \in Nat /\ q[x].nbytes \in Nat /\ q[x].lastDim \in Nat
    <2> TAKE x \in D
    <2>1. q[x] \in [kind : STRING, rel : Nat, nbytes : Nat, lastDim : Nat]
      <3>1. PICK R : R = [kind : STRING, rel : Nat, nbytes : Nat, lastDim : Nat]
        OBVIOUS
      <3>2. q \in Seq(R)
        BY <1>1, <3>1
      <3>3. q[x] \in R
        BY <1>2, <3>2
      <3> QED
        BY <3>1, <3>3
    <2> QED
      BY <2>1
  <1>4. IsFiniteSet(D) /\ D \in SUBSET Int
    BY <1>3, FS_Interval
  <1>5. PICK L : L = {e \in D \X D : Sooner(t, e[1], e[2])}
    OBVIOUS
  <1>6. \A x, y \in D : <<x, y>> \in L <=> Sooner(t, x, y)
    BY <1>5
  <1>7. \A x, y \in D : Sooner(t, x, y) <=> q[x].rel < q[y].rel \/ (q[x].rel = q[y].rel /\ x < y)
    BY <1>1 DEF Sooner
  <1>8. StrictOrder(L, D)
    <2>1. PICK f : f = [x \in D |-> q[x].rel]
      OBVIOUS
    <2>2. \A x \in D : f[x] \in Nat /\ x \in Int
      BY <1>4, <1>9, <2>1
    <2>3. \A x, y \in D : <<x, y>> \in L <=> f[x] < f[y] \/ (f[x] = f[y] /\ x < y)
      BY <1>6, <1>7, <2>1
    <2> QED
      BY ONLY <2>2, <2>3 DEF StrictOrder
  <1> QED
    BY <1>1, <1>2, <1>4, <1>5, <1>6, <1>8, <1>9

\* An order read backwards is one, and so is a part of it.
LEMMA OrderParts ==
    ASSUME NEW D, NEW L, StrictOrder(L, D), NEW E \in SUBSET D
    PROVE  /\ StrictOrder(L, E)
           /\ LET R == {e \in E \X E : <<e[2], e[1]>> \in L}
              IN  StrictOrder(R, E) /\ \A x, y \in E : <<x, y>> \in R <=> <<y, x>> \in L
  BY DEF StrictOrder

\* In a table that passes validation every tensor ends before any later one begins: neighbours do.
LEMMA TensorsApart ==
    ASSUME NEW t, IsTable(t), Validate(t),
           NEW x \in DOMAIN t.tensors, NEW y \in DOMAIN t.tensors, Sooner(t, x, y)
    PROVE  End(t, x) <= t.tensors[y].rel
  <1>1. PICK D, L : D = DOMAIN t.tensors /\ L = {e \in D \X D : Sooner(t, e[1], e[2])}
    OBVIOUS
  <1>2. /\ IsFiniteSet(D) /\ D \in SUBSET Int
        /\ \A u \in D : t.tensors[u].rel \in Nat /\ t.tensors[u].nbytes \in Nat
        /\ \A u, v \in D : <<u, v>> \in L <=> Sooner(t, u, v)
        /\ StrictOrder(L, D)
    BY <1>1, SoonerOrders
  <1>3. PICK Bad \in SUBSET D : Bad = {u \in D : <<x, u>> \in L /\ ~(End(t, x) <= t.tensors[u].rel)}
    OBVIOUS
  <1>4. SUFFICES ASSUME Bad # {} PROVE FALSE
    BY <1>1, <1>2, <1>3
  <1>5. PICK w \in Bad : \A u \in Bad \ {w} : <<w, u>> \in L
    <2>1. IsFiniteSet(Bad) /\ StrictOrder(L, Bad)
      BY <1>2, FS_Subset, OrderParts
    <2> QED
      BY <1>4, <2>1, FirstInOrder
  <1>6. PICK E \in SUBSET D : E = {u \in D : <<u, w>> \in L}
    OBVIOUS
  <1>7. x \in E /\ IsFiniteSet(E)
    BY <1>1, <1>2, <1>3, <1>6, FS_Subset
  <1>8. PICK z \in E : \A u \in E \ {z} : <<u, z>> \in L
    <2>1. PICK R : R = {e \in E \X E : <<e[2], e[1]>> \in L}
      OBVIOUS
    <2>2. StrictOrder(R, E) /\ \A u, v \in E : <<u, v>> \in R <=> <<v, u>> \in L
      BY <1>2, <2>1, OrderParts
    <2>3. \E z \in E : \A u \in E \ {z} : <<z, u>> \in R
      BY <1>7, <2>2, FirstInOrder
    <2> QED
      BY <2>2, <2>3
  <1>9. Follows(t, z, w)
    <2>1. <<z, w>> \in L /\ \A u \in D : ~(<<z, u>> \in L /\ <<u, w>> \in L)
      BY <1>2, <1>6, <1>8 DEF StrictOrder
    <2> QED
      BY <1>1, <1>2, <1>3, <2>1 DEF Follows
  <1>10. End(t, z) <= t.tensors[w].rel
    BY <1>1, <1>3, <1>9 DEF Validate, Neighbours
  <1>11. z = x \/ (<<x, z>> \in L /\ z \notin Bad)
    BY <1>2, <1>3, <1>5, <1>6, <1>7, <1>8 DEF StrictOrder
  <1>12. End(t, x) <= t.tensors[z].rel \/ z = x
    BY <1>3, <1>11
  <1>13. /\ End(t, z) = t.tensors[z].rel + t.tensors[z].nbytes
         /\ End(t, x) = t.tensors[x].rel + t.tensors[x].nbytes
    BY DEF End
  <1>14. End(t, x) <= t.tensors[w].rel
    BY <1>1, <1>2, <1>10, <1>12, <1>13
  <1> QED
    BY <1>3, <1>14

\* No tensor reaches behind the end of the file: the last does not.
LEMMA TensorsInFile ==
    ASSUME NEW t, IsTable(t), Validate(t), NEW x \in DOMAIN t.tensors
    PROVE  t.dataOffset + End(t, x) <= t.fileSize
  <1>1. PICK D, L : D = DOMAIN t.tensors /\ L = {e \in D \X D : Sooner(t, e[1], e[2])}
    OBVIOUS
  <1>2. /\ IsFiniteSet(D)
        /\ \A u \in D : t.tensors[u].rel \in Nat /\ t.tensors[u].nbytes \in Nat
        /\ \A u, v \in D : <<u, v>> \in L <=> Sooner(t, u, v)
        /\ StrictOrder(L, D)
    BY <1>1, SoonerOrders
  <1>3. PICK z \in D : \A u \in D \ {z} : <<u, z>> \in L
    <2>1. PICK R : R = {e \in D \X D : <<e[2], e[1]>> \in L}
      OBVIOUS
    <2>2. StrictOrder(R, D) /\ \A u, v \in D : <<u, v>> \in R <=> <<v, u>> \in L
      BY <1>2, <2>1, OrderParts
    <2>3. \E z \in D : \A u \in D \ {z} : <<z, u>> \in R
      BY <1>1, <1>2, <2>2, FirstInOrder
    <2> QED
      BY <2>2, <2>3
  <1>4. \A y \in D : ~Sooner(t, z, y)
    BY <1>2, <1>3 DEF StrictOrder
  <1>5. t.dataOffset + End(t, z) <= t.fileSize
    BY <1>1, <1>4 DEF Validate
  <1>6. x = z \/ End(t, x) <= t.tensors[z].rel
    BY <1>1, <1>2, <1>3, TensorsApart
  <1>7. /\ End(t, z) = t.tensors[z].rel + t.tensors[z].nbytes
        /\ End(t, x) = t.tensors[x].rel + t.tensors[x].nbytes
        /\ t.dataOffset \in Nat /\ t.fileSize \in Nat
    BY DEF End, IsTable
  <1> QED
    BY <1>1, <1>2, <1>5, <1>6, <1>7

-----------------------------------------------------------------------------
(* Slots and bytes *)

\* Division: the quotient and what is left.
LEMMA Division ==
    ASSUME NEW m \in Nat, NEW d \in Nat \ {0}
    PROVE  /\ m \div d \in Nat /\ m % d \in 0 .. d - 1
           /\ m = d * (m \div d) + (m % d)
  <1>1. m \div d \in Int /\ m % d \in 0 .. d - 1 /\ m = d * (m \div d) + (m % d)
    BY SMT
  <1>2. PICK q \in Int, k \in 0 .. d - 1 : q = m \div d /\ k = m % d /\ m = d * q + k
    BY <1>1
  <1>3. q >= 0
    <2>1. SUFFICES ASSUME q <= -1 PROVE FALSE
      BY <1>2
    <2>2. PICK g \in Nat : g = -q - 1
      BY <2>1
    <2>3. d * q = -(d * g) - d /\ d * g \in Nat
      BY <2>2
    <2> QED
      BY <1>2, <2>3
  <1> QED
    BY <1>1, <1>2, <1>3

\* Products with a natural number keep the order.
LEMMA Scaled == ASSUME NEW x \in Nat, NEW y \in Nat, NEW s \in Nat, x <= y
                PROVE  x * s \in Nat /\ y * s \in Nat /\ x * s <= y * s /\ (y - x) * s = y * s - x * s
  <1>1. PICK d \in Nat : d = y - x
    OBVIOUS
  <1>2. d * s \in Nat /\ x * s \in Nat /\ y * s = x * s + d * s
    BY <1>1
  <1> QED
    BY <1>1, <1>2

\* The run of slots u to v is an interval of the tensor's bytes, as all n slots are.
RunLies(t, n, x, u, v) ==
    LET s == Stride(t, x)
        from == Offset(t, x) + u * s
        len == (v - u + 1) * s
    IN  /\ s \in Nat /\ from \in Nat /\ len \in Nat /\ Offset(t, x) \in Nat
        /\ Offset(t, x) <= from /\ from + len = Offset(t, x) + (v + 1) * s
        /\ from + len <= t.dataOffset + End(t, x)
        /\ Offset(t, x) + n * s = t.dataOffset + End(t, x)

\* It is, in a tensor with a stride.
LEMMA RangeIs ==
    ASSUME NEW t, IsTable(t), NEW n \in Nat \ {0}, NEW x \in Weights(t, n), HasStride(t, x),
           NEW u \in 0 .. n - 1, NEW v \in 0 .. n - 1, u <= v
    PROVE  RunLies(t, n, x, u, v)
  <1>1. x \in DOMAIN t.tensors /\ t.tensors[x].lastDim = n
    BY DEF Weights, ExpertTensors
  <1>9. PICK size \in Nat, rel \in Nat, base \in Nat :
                size = t.tensors[x].nbytes /\ rel = t.tensors[x].rel /\ base = t.dataOffset
    BY <1>1, SoonerOrders DEF IsTable
  <1>2. PICK o \in Nat : o = Offset(t, x) /\ o = base + rel
    BY <1>9 DEF Offset
  <1>3. PICK s : s = Stride(t, x) /\ s = size \div n /\ size % n = 0
    BY <1>1, <1>9 DEF Stride, HasStride
  <1>4. s \in Nat /\ n * s = size
    <2>1. size \div n \in Nat /\ size = n * (size \div n) + (size % n)
      BY Division
    <2>2. s \in Nat /\ size = n * s + 0
      BY <1>3, <2>1
    <2> QED
      BY <2>2
  <1>5. u * s \in Nat /\ (v + 1) * s \in Nat /\ (v - u + 1) * s = (v + 1) * s - u * s /\ u * s <= (v + 1) * s
    <2>1. u \in Nat /\ v + 1 \in Nat /\ u <= v + 1 /\ v - u + 1 = (v + 1) - u
      OBVIOUS
    <2> QED
      BY ONLY <1>4, <2>1, Scaled
  <1>6. (v + 1) * s <= n * s
    <2>1. v + 1 \in Nat /\ n \in Nat /\ v + 1 <= n
      OBVIOUS
    <2> QED
      BY ONLY <1>4, <2>1, Scaled
  <1>7. t.dataOffset + End(t, x) = o + size
    BY <1>2, <1>9 DEF End
  <1> QED
    BY <1>2, <1>3, <1>4, <1>5, <1>6, <1>7 DEF RunLies

\* Every byte of a weight tensor belongs to a slot.
LEMMA SlotOfByte ==
    ASSUME NEW s \in Nat, NEW n \in Nat, NEW d \in Nat, d < n * s
    PROVE  \E x \in 0 .. n - 1 : x * s <= d /\ d <= x * s + s - 1
  <1>1. s # 0
    <2>1. SUFFICES ASSUME s = 0 PROVE FALSE
      OBVIOUS
    <2>2. n * s = 0
      BY <2>1
    <2> QED
      BY <2>2
  <1>2. PICK x \in Nat, k \in 0 .. s - 1 : d = s * x + k
    BY <1>1, Division
  <1>3. x < n
    <2>1. SUFFICES ASSUME n <= x PROVE FALSE
      BY <1>2
    <2>2. n * s <= x * s
      BY <2>1, Scaled
    <2>3. d = x * s + k
      BY <1>2
    <2> QED
      BY <1>2, <2>2, <2>3
  <1>4. d = x * s + k /\ x * s \in Nat
    BY <1>2
  <1> QED
    BY <1>2, <1>3, <1>4

\* The size of the experts of a model.
LEMMA GeomIs == ASSUME NEW j \in Jobs PROVE GeomOf(j).tensors \in Nat /\ GeomOf(j).bytes \in Nat
  <1>1. PICK W : W = WeightsOf(j)
    OBVIOUS
  <1>2. IsFiniteSet(W) /\ \A x \in W : x \in DOMAIN j.table.tensors /\ j.table.tensors[x].nbytes \in Nat
    <2>1. IsTable(j.table)
      BY ModelAssumption DEF IsTable
    <2>2. PICK D : D = DOMAIN j.table.tensors
      OBVIOUS
    <2>3. IsFiniteSet(D) /\ \A x \in D : j.table.tensors[x].nbytes \in Nat
      BY <2>1, <2>2, SoonerOrders
    <2>4. W \in SUBSET D
      BY <1>1, <2>2 DEF WeightsOf, Weights, ExpertTensors
    <2>5. IsFiniteSet(W)
      BY <2>3, <2>4, FS_Subset
    <2> QED
      BY <2>2, <2>3, <2>4, <2>5
  <1>3. PICK stride : stride = [x \in W |-> Stride(j.table, x)]
    OBVIOUS
  <1>4. ASSUME NEW x \in W PROVE stride[x] \in Nat
    <2>1. PICK n \in Nat \ {0} : n = j.n
      BY JobsAssumption
    <2>2. PICK size \in Nat : size = j.table.tensors[x].nbytes
      BY <1>2
    <2>3. stride[x] = size \div n
      <3>1. j.table.tensors[x].lastDim = n
        BY <1>1, <2>1 DEF WeightsOf, Weights, ExpertTensors
      <3>2. stride[x] = j.table.tensors[x].nbytes \div j.table.tensors[x].lastDim
        BY <1>3 DEF Stride
      <3> QED
        BY <2>2, <3>1, <3>2
    <2>4. size \div n \in Nat
      OBVIOUS
    <2> QED
      BY <2>3, <2>4
  <1>5. SumOver(stride, W) \in Nat
    BY <1>2, <1>4, SumNat
  <1>6. GeomOf(j).bytes = SumOver(stride, W) /\ GeomOf(j).tensors = Cardinality(W)
    BY <1>1, <1>3 DEF GeomOf, SumOver
  <1> QED
    BY <1>2, <1>5, <1>6, FS_CardinalityType

\* A search looks at finitely many tokens.
LEMMA SearchTokensAre == ASSUME NEW j \in Jobs PROVE IsFiniteSet(DOMAIN SearchTokens(j))
  <1>1. PICK train : train = TrainTokens(j) /\ IsFiniteSet(DOMAIN train)
    BY TrainIs
  <1>2. CASE j.most = 0 \/ Len(train) <= j.most
    BY <1>1, <1>2 DEF SearchTokens
  <1>3. CASE ~(j.most = 0 \/ Len(train) <= j.most)
    <2>1. DOMAIN SearchTokens(j) = 1 .. j.most
      BY <1>1, <1>3 DEF SearchTokens
    <2> QED
      BY <2>1, ModelAssumption, FS_Interval
  <1> QED
    BY <1>2, <1>3

-----------------------------------------------------------------------------
(* What a set of slots costs *)

\* The slots where a group begins, and what each adds to what is read.
Groups(S, gap) == {x \in S : Begins(S, x, gap)}
Width(S, gap) == [x \in S |-> IF Begins(S, x, gap) THEN 1 ELSE Distance(S, x)]

\* What coact would have a token cost whose slots these are.
SetCost(S, geom, cm) ==
    LET gap == GapOf(geom, cm)
    IN  Cardinality(Groups(S, gap)) * geom.tensors * cm.fetch + SumOver(Width(S, gap), S) * geom.bytes * cm.byte

\* The same slot by slot, f to begin a group and q for each slot read.
SlotCost(S, gap, f, q) == [x \in S |-> IF Begins(S, x, gap) THEN f + q ELSE Distance(S, x) * q]

\* The slot below is the nearest, and farther away among fewer slots.
LEMMA DistanceIs ==
    ASSUME NEW S \in SUBSET Int, IsFiniteSet(S), NEW x \in S, Below(S, x) # {}
    PROVE  /\ Distance(S, x) \in Nat \ {0}
           /\ \A y \in Below(S, x) : Distance(S, x) <= x - y
           /\ \E y \in Below(S, x) : Distance(S, x) = x - y
  <1>1. PICK lower \in SUBSET Int : lower = Below(S, x) /\ lower # {} /\ lower \subseteq S
    BY DEF Below
  <1>2. PICK m : m = Max(lower)
    OBVIOUS
  <1>3. m \in lower /\ \A y \in lower : y <= m
    BY <1>1, <1>2, FS_Subset, MaxIs
  <1>4. m \in Int /\ x \in Int /\ m < x
    BY <1>1, <1>3 DEF Below
  <1>5. Distance(S, x) = x - m
    BY <1>1, <1>2 DEF Distance
  <1> QED
    BY <1>1, <1>3, <1>4, <1>5

\* Each slot adds a whole number of slots, and costs a whole number.
LEMMA WidthIs ==
    ASSUME NEW S \in SUBSET Int, IsFiniteSet(S), NEW gap, NEW x \in S
    PROVE  Width(S, gap)[x] \in Nat
  BY DistanceIs DEF Width, Begins

LEMMA SlotCostIs ==
    ASSUME NEW S \in SUBSET Int, IsFiniteSet(S), NEW gap, NEW f \in Nat, NEW q \in Nat, NEW x \in S
    PROVE  SlotCost(S, gap, f, q)[x] \in Nat
  <1>1. CASE Begins(S, x, gap)
    BY <1>1 DEF SlotCost
  <1>2. CASE ~Begins(S, x, gap)
    <2>1. PICK d \in Nat : d = Distance(S, x)
      BY <1>2, DistanceIs DEF Begins
    <2>2. d * q \in Nat
      OBVIOUS
    <2> QED
      BY <1>2, <2>1, <2>2 DEF SlotCost
  <1> QED
    BY <1>1, <1>2

\* The cost is the sum over the slots.
LEMMA SetCostIs ==
    ASSUME NEW S \in SUBSET Int, IsFiniteSet(S), NEW geom, NEW cm,
           geom.tensors \in Nat, geom.bytes \in Nat, cm.fetch \in Nat, cm.byte \in Nat
    PROVE  /\ SetCost(S, geom, cm) \in Nat
           /\ SetCost(S, geom, cm)
                = SumOver(SlotCost(S, GapOf(geom, cm), geom.tensors * cm.fetch, geom.bytes * cm.byte), S)
  <1>1. PICK tensors \in Nat, bytes \in Nat, fetch \in Nat, byte \in Nat :
            tensors = geom.tensors /\ bytes = geom.bytes /\ fetch = cm.fetch /\ byte = cm.byte
    OBVIOUS
  <1>16. PICK gap : gap = GapOf(geom, cm)
    OBVIOUS
  <1>2. PICK f \in Nat, q \in Nat : f = tensors * fetch /\ q = bytes * byte
    OBVIOUS
  <1>3. PICK width, begun, opening, reading, c :
            /\ width = Width(S, gap) /\ begun = [x \in S |-> IF Begins(S, x, gap) THEN 1 ELSE 0]
            /\ opening = [x \in S |-> f * begun[x]] /\ reading = [x \in S |-> q * width[x]]
            /\ c = SlotCost(S, gap, f, q)
    OBVIOUS
  <1>4. PICK groups \in Nat : groups = Cardinality(Groups(S, gap))
    BY FS_Subset, FS_CardinalityType DEF Groups
  <1>5. SumOver(begun, S) = groups
    <2>1. \A x \in S : begun[x] \in {0, 1}
      BY <1>3
    <2>2. PICK K : K = {x \in S : begun[x] = 1}
      OBVIOUS
    <2>3. K = Groups(S, gap)
      BY <1>3, <2>2 DEF Groups
    <2>4. SumOver(begun, S) = Cardinality(K)
      BY <2>1, <2>2, SumCount
    <2> QED
      BY <1>4, <2>3, <2>4
  <1>6. SumOver(opening, S) = f * groups
    <2>1. IsTimes(opening, f, begun, S)
      BY <1>3 DEF IsTimes
    <2>2. SumOver(opening, S) = f * SumOver(begun, S)
      BY <2>1, SumTimes
    <2> QED
      BY <1>5, <2>2
  <1>7. \A x \in S : width[x] \in Nat
    BY <1>3, WidthIs
  <1>8. PICK span \in Nat : span = SumOver(width, S)
    BY <1>7, SumNat
  <1>9. SumOver(reading, S) = q * span
    <2>1. IsTimes(reading, q, width, S)
      BY <1>3, <1>7 DEF IsTimes
    <2>2. SumOver(reading, S) = q * SumOver(width, S)
      BY <2>1, SumTimes
    <2> QED
      BY <1>8, <2>2
  <1>10. \A x \in S : opening[x] \in Nat /\ reading[x] \in Nat /\ c[x] = opening[x] + reading[x]
    <2> TAKE x \in S
    <2>1. PICK w \in Nat : w = width[x] /\ reading[x] = q * w
      BY <1>3, <1>7
    <2>2. q * w \in Nat
      OBVIOUS
    <2>3. CASE Begins(S, x, gap)
      <3>1. opening[x] = f /\ w = 1 /\ c[x] = f + q
        BY <1>3, <2>1, <2>3 DEF Width, SlotCost
      <3> QED
        BY <2>1, <3>1
    <2>4. CASE ~Begins(S, x, gap)
      <3>1. opening[x] = 0 /\ w = Distance(S, x) /\ c[x] = Distance(S, x) * q
        BY <1>3, <2>1, <2>4 DEF Width, SlotCost
      <3>2. w * q = q * w
        OBVIOUS
      <3> QED
        BY <2>1, <2>2, <3>1, <3>2
    <2> QED
      BY <2>3, <2>4
  <1>11. SumOver(c, S) = f * groups + q * span
    <2>1. IsPlus(c, opening, reading, S)
      BY <1>10 DEF IsPlus
    <2>2. SumOver(c, S) = SumOver(opening, S) + SumOver(reading, S)
      BY <2>1, SumPlus
    <2> QED
      BY <1>6, <1>9, <2>2
  <1>12. groups * tensors * fetch = (tensors * fetch) * groups /\ span * bytes * byte = (bytes * byte) * span
    OBVIOUS
  <1>13. SetCost(S, geom, cm) = groups * tensors * fetch + span * bytes * byte
    BY <1>1, <1>3, <1>4, <1>8, <1>16 DEF SetCost
  <1>14. SetCost(S, geom, cm) = f * groups + q * span
    BY ONLY <1>2, <1>12, <1>13
  <1>15. f * groups \in Nat /\ q * span \in Nat
    OBVIOUS
  <1> QED
    BY <1>1, <1>2, <1>3, <1>11, <1>14, <1>15, <1>16

\* Among more slots, none costs more, as long as reading over a gap is no dearer than a fetch.
LEMMA NearerCheaper ==
    ASSUME NEW S \in SUBSET Int, IsFiniteSet(S), NEW T \in SUBSET S, NEW x \in T,
           NEW gap \in Nat, NEW f \in Nat, NEW q \in Nat, gap * q <= f
    PROVE  SlotCost(S, gap, f, q)[x] <= SlotCost(T, gap, f, q)[x]
  <1>1. T \in SUBSET Int /\ IsFiniteSet(T) /\ x \in S /\ x \in Int /\ Below(T, x) \subseteq Below(S, x)
    BY FS_Subset DEF Below
  <1>2. (gap + 1) * q <= f + q /\ (gap + 1) * q \in Nat
    <2>1. (gap + 1) * q = gap * q + q /\ gap * q \in Nat
      OBVIOUS
    <2> QED
      BY <2>1
  <1>3. CASE Begins(S, x, gap)
    <2>1. Begins(T, x, gap)
      <3>1. CASE Below(T, x) = {}
        BY <3>1 DEF Begins
      <3>2. CASE Below(T, x) # {}
        <4>1. Below(S, x) # {} /\ Distance(S, x) - 1 > gap
          BY <1>1, <1>3, <3>2 DEF Begins
        <4>2. PICK y \in Below(T, x) : Distance(T, x) = x - y
          BY <1>1, <3>2, DistanceIs
        <4>3. Distance(S, x) <= x - y /\ Distance(S, x) \in Nat
          BY <1>1, <4>1, <4>2, DistanceIs
        <4>4. y \in Int
          BY <1>1, <4>2 DEF Below
        <4>5. Distance(T, x) - 1 > gap
          BY <1>1, <4>1, <4>2, <4>3, <4>4
        <4> QED
          BY <4>5 DEF Begins
      <3> QED
        BY <3>1, <3>2
    <2> QED
      BY <1>1, <1>3, <2>1 DEF SlotCost
  <1>4. CASE ~Begins(S, x, gap)
    <2>1. PICK d \in Nat : d = Distance(S, x) /\ d <= gap + 1 /\ SlotCost(S, gap, f, q)[x] = d * q
      <3>1. Below(S, x) # {} /\ ~(Distance(S, x) - 1 > gap)
        BY <1>4 DEF Begins
      <3>2. Distance(S, x) \in Nat
        BY <1>1, <3>1, DistanceIs
      <3> QED
        BY <1>1, <1>4, <3>1, <3>2 DEF SlotCost
    <2>2. CASE Begins(T, x, gap)
      <3>1. SlotCost(T, gap, f, q)[x] = f + q
        BY <2>2 DEF SlotCost
      <3>2. d * q \in Nat /\ d * q <= (gap + 1) * q
        BY <2>1, Scaled
      <3> QED
        BY <1>2, <2>1, <3>1, <3>2
    <2>3. CASE ~Begins(T, x, gap)
      <3>1. PICK e \in Nat : e = Distance(T, x) /\ d <= e
        <4>1. Below(T, x) # {}
          BY <2>3 DEF Begins
        <4>2. Distance(T, x) \in Nat
          BY <1>1, <4>1, DistanceIs
        <4>3. PICK y \in Below(T, x) : Distance(T, x) = x - y
          BY <1>1, <4>1, DistanceIs
        <4>4. Below(S, x) # {} /\ y \in Below(S, x)
          BY <1>1, <4>3
        <4>5. Distance(S, x) <= x - y
          BY <1>1, <4>4, DistanceIs
        <4> QED
          BY <2>1, <4>2, <4>3, <4>5
      <3>2. SlotCost(T, gap, f, q)[x] = e * q
        BY <2>3, <3>1 DEF SlotCost
      <3> QED
        BY <2>1, <3>1, <3>2, Scaled
    <2> QED
      BY <2>2, <2>3
  <1> QED
    BY <1>3, <1>4

\* The sum over a part and over the rest.
LEMMA SumParts ==
    ASSUME NEW S, IsFiniteSet(S), NEW w, Weighs(w, S), NEW A, A \subseteq S
    PROVE  SumOver(w, S) = SumOver(w, A) + SumOver(w, S \ A)
  <1>1. PICK P \in SUBSET S, Q \in SUBSET S : P = A /\ Q = S \ A
    OBVIOUS
  <1>2. P \cap Q = {} /\ P \cup Q = S /\ \A x \in S : w[x] \in Nat
    BY <1>1 DEF Weighs
  <1>3. SumOver(w, P \cup Q) = SumOver(w, P) + SumOver(w, Q)
    BY <1>2, SumUnion
  <1> QED
    BY <1>1, <1>2, <1>3

\* Reading two sets of slots at once costs no more than one after the other.
LEMMA SlotsTogether ==
    ASSUME NEW A \in SUBSET Int, IsFiniteSet(A), NEW C \in SUBSET Int, IsFiniteSet(C),
           NEW gap \in Nat, NEW f \in Nat, NEW q \in Nat, gap * q <= f
    PROVE  SumOver(SlotCost(A \cup C, gap, f, q), A \cup C)
              <= SumOver(SlotCost(A, gap, f, q), A) + SumOver(SlotCost(C, gap, f, q), C)
  <1>14. PICK S : S = A \cup C /\ S \in SUBSET Int /\ IsFiniteSet(S)
    BY FS_Union
  <1>1. S = A \cup C /\ S \in SUBSET Int /\ IsFiniteSet(S) /\ A \in SUBSET S /\ C \in SUBSET S
    BY <1>14
  <1>13. PICK D : D = C \ A
    OBVIOUS
  <1>2. D \in SUBSET S /\ D \in SUBSET C /\ IsFiniteSet(D) /\ A \cap D = {} /\ A \cup D = S
    BY <1>1, <1>13, FS_Subset
  <1>3. PICK w, u, v : w = SlotCost(S, gap, f, q) /\ u = SlotCost(A, gap, f, q) /\ v = SlotCost(C, gap, f, q)
    OBVIOUS
  <1>4. \A x \in S : w[x] \in Nat
    BY <1>1, <1>3, SlotCostIs
  <1>5. \A x \in A : u[x] \in Nat /\ w[x] <= u[x]
    BY <1>1, <1>3, SlotCostIs, NearerCheaper
  <1>6. \A x \in C : v[x] \in Nat /\ w[x] <= v[x]
    BY <1>1, <1>3, SlotCostIs, NearerCheaper
  <1>7. SumOver(w, S) = SumOver(w, A) + SumOver(w, D)
    <2>1. Weighs(w, S) /\ A \subseteq S /\ S \ A = D
      BY <1>1, <1>2, <1>4 DEF Weighs
    <2> QED
      BY <1>1, <2>1, SumParts
  <1>8. SumOver(w, A) <= SumOver(u, A)
    BY <1>1, <1>4, <1>5, SumCompare
  <1>9. SumOver(w, D) <= SumOver(v, D)
    BY <1>2, <1>4, <1>6, SumCompare
  <1>10. SumOver(v, D) <= SumOver(v, C)
    BY <1>2, <1>6, SumMonotone
  <1>11. /\ SumOver(w, A) \in Nat /\ SumOver(w, D) \in Nat /\ SumOver(u, A) \in Nat
         /\ SumOver(v, D) \in Nat /\ SumOver(v, C) \in Nat
    BY <1>1, <1>2, <1>4, <1>5, <1>6, SumNat
  <1>12. SumOver(w, S) <= SumOver(u, A) + SumOver(v, C)
    BY ONLY <1>7, <1>8, <1>9, <1>10, <1>11
  <1> QED
    BY <1>1, <1>3, <1>12

\* The largest gap that is read over costs no more than a fetch.
LEMMA GapPays ==
    ASSUME NEW geom, NEW cm, geom.tensors \in Nat, geom.bytes \in Nat, cm.fetch \in Nat, cm.byte \in Nat
    PROVE  /\ GapOf(geom, cm) \in Nat /\ geom.tensors * cm.fetch \in Nat /\ geom.bytes * cm.byte \in Nat
           /\ GapOf(geom, cm) * (geom.bytes * cm.byte) <= geom.tensors * cm.fetch
  <1>1. PICK tensors \in Nat, bytes \in Nat, fetch \in Nat, byte \in Nat :
            tensors = geom.tensors /\ bytes = geom.bytes /\ fetch = cm.fetch /\ byte = cm.byte
    OBVIOUS
  <1>2. PICK f \in Nat, q \in Nat : f = tensors * fetch /\ q = bytes * byte
    OBVIOUS
  <1>3. CASE byte = 0 \/ bytes = 0
    <2>1. q = 0
      <3>1. CASE byte = 0
        <4>1. bytes * 0 = 0
          OBVIOUS
        <4> QED
          BY <1>2, <3>1, <4>1
      <3>2. CASE bytes = 0
        <4>1. 0 * byte = 0
          OBVIOUS
        <4> QED
          BY <1>2, <3>2, <4>1
      <3> QED
        BY <1>3, <3>1, <3>2
    <2>2. GapOf(geom, cm) = 0
      BY <1>1, <1>3 DEF GapOf
    <2>3. 0 * q <= f
      BY <2>1
    <2> QED
      BY <1>1, <1>2, <2>2, <2>3
  <1>4. CASE ~(byte = 0 \/ bytes = 0)
    <2>1. q # 0
      BY <1>2, <1>4
    <2>2. PICK g \in Nat, h \in Nat : g = f \div q /\ f = q * g + h
      <3>1. f \div q \in Nat /\ f % q \in 0 .. q - 1 /\ f = q * (f \div q) + (f % q)
        BY <2>1, Division
      <3> QED
        BY <3>1
    <2>3. GapOf(geom, cm) = g
      BY <1>1, <1>2, <1>4, <2>2 DEF GapOf
    <2>4. g * q <= f
      <3>1. g * q = q * g /\ q * g \in Nat
        OBVIOUS
      <3> QED
        BY ONLY <2>2, <3>1, h \in Nat
    <2> QED
      BY <1>1, <1>2, <2>3, <2>4
  <1> QED
    BY <1>3, <1>4

\* A cost model for whole numbers.
Priced(geom, cm) == geom.tensors \in Nat /\ geom.bytes \in Nat /\ cm.fetch \in Nat /\ cm.byte \in Nat

\* Reading two sets of slots together costs no more than apart, at coact's own gap.
LEMMA Together ==
    ASSUME NEW A \in SUBSET Int, IsFiniteSet(A), NEW C \in SUBSET Int, IsFiniteSet(C),
           NEW geom, NEW cm, Priced(geom, cm)
    PROVE  SetCost(A \cup C, geom, cm) <= SetCost(A, geom, cm) + SetCost(C, geom, cm)
  <1>1. PICK gap, f, q : gap = GapOf(geom, cm) /\ f = geom.tensors * cm.fetch /\ q = geom.bytes * cm.byte
    OBVIOUS
  <1>2. gap \in Nat /\ f \in Nat /\ q \in Nat /\ gap * q <= f
    BY <1>1, GapPays DEF Priced
  <1>3. PICK S : S = A \cup C /\ S \in SUBSET Int /\ IsFiniteSet(S)
    BY FS_Union
  <1>4. /\ SetCost(S, geom, cm) = SumOver(SlotCost(S, gap, f, q), S)
        /\ SetCost(A, geom, cm) = SumOver(SlotCost(A, gap, f, q), A)
        /\ SetCost(C, geom, cm) = SumOver(SlotCost(C, gap, f, q), C)
    BY <1>1, <1>3, SetCostIs DEF Priced
  <1> QED
    BY <1>2, <1>3, <1>4, SlotsTogether

\* Nothing costs nothing.
LEMMA NothingCosts == ASSUME NEW geom, NEW cm, Priced(geom, cm) PROVE SetCost({}, geom, cm) = 0
  <1>1. PICK S : S = {} /\ S \in SUBSET Int /\ IsFiniteSet(S)
    BY FS_EmptySet
  <1>2. SetCost(S, geom, cm) = SumOver(SlotCost(S, GapOf(geom, cm), geom.tensors * cm.fetch, geom.bytes * cm.byte), S)
    BY <1>1, SetCostIs DEF Priced
  <1> QED
    BY <1>1, <1>2, SumEmpty

\* Sets of slots.
AreSlots(sets, X) == \A x \in X : sets[x] \in SUBSET Int /\ IsFiniteSet(sets[x])
Costed(t, sets, X, geom, cm) == \A x \in X : t[x] = SetCost(sets[x], geom, cm)

\* Nor do many sets read at once.
LEMMA AllTogether ==
    ASSUME NEW X, IsFiniteSet(X), NEW sets, AreSlots(sets, X), NEW geom, NEW cm, Priced(geom, cm),
           NEW t, Costed(t, sets, X, geom, cm)
    PROVE  /\ UNION {sets[x] : x \in X} \in SUBSET Int /\ IsFiniteSet(UNION {sets[x] : x \in X})
           /\ SetCost(UNION {sets[x] : x \in X}, geom, cm) <= SumOver(t, X)
  <1> DEFINE Of(s) == UNION {sets[x] : x \in s}
             Good(s) == Of(s) \in SUBSET Int /\ IsFiniteSet(Of(s)) /\ SetCost(Of(s), geom, cm) <= SumOver(t, s)
             Bad == {s \in SUBSET X : ~Good(s)}
  <1>1. SUFFICES ASSUME Bad # {} PROVE FALSE
    <2>1. X \in Bad \/ Good(X)
      OBVIOUS
    <2> QED
      BY <1>1, <2>1
  <1>2. PICK s \in Bad : \A z \in Bad : z \subseteq s => z = s
    <2>1. Bad \in SUBSET SUBSET X
      OBVIOUS
    <2> HIDE DEF Bad
    <2> QED
      BY <1>1, <2>1, MinimalSubset
  <1>3. s \in SUBSET X /\ ~Good(s)
    BY <1>2
  <1>4. \A x \in X : t[x] \in Nat
    BY SetCostIs DEF AreSlots, Costed, Priced
  <1>5. \A z \in SUBSET X : IsFiniteSet(z) /\ SumOver(t, z) \in Nat
    BY <1>4, FS_Subset, SumNat
  <1>6. s # {}
    <2>1. SUFFICES ASSUME s = {} PROVE FALSE
      OBVIOUS
    <2>2. Of(s) = {}
      BY <2>1
    <2>3. SetCost({}, geom, cm) = 0 /\ SumOver(t, {}) = 0 /\ IsFiniteSet({}) /\ {} \in SUBSET Int
      BY NothingCosts, SumEmpty, FS_EmptySet
    <2>4. Good(s)
      BY <2>1, <2>2, <2>3
    <2> QED
      BY <1>3, <2>4
  <1>7. PICK x \in s : TRUE
    BY <1>6
  <1>8. s \ {x} \in SUBSET X /\ s \ {x} # s /\ s \ {x} \subseteq s /\ x \in X
    BY <1>3, <1>7
  <1>9. Good(s \ {x})
    BY <1>2, <1>8
  <1>10. PICK A, C, S : A = Of(s \ {x}) /\ C = sets[x] /\ S = Of(s)
    OBVIOUS
  <1>11. S = A \cup C
    BY <1>7, <1>10
  <1>12. A \in SUBSET Int /\ IsFiniteSet(A) /\ SetCost(A, geom, cm) <= SumOver(t, s \ {x})
    BY <1>9, <1>10
  <1>13. C \in SUBSET Int /\ IsFiniteSet(C) /\ t[x] = SetCost(C, geom, cm)
    BY <1>8, <1>10 DEF AreSlots, Costed
  <1>14. S \in SUBSET Int /\ IsFiniteSet(S)
    BY ONLY <1>11, <1>12, <1>13, FS_Union
  <1>15. SetCost(S, geom, cm) <= SetCost(A, geom, cm) + SetCost(C, geom, cm)
    BY <1>11, <1>12, <1>13, Together
  <1>16. SetCost(S, geom, cm) \in Nat /\ SetCost(A, geom, cm) \in Nat /\ SetCost(C, geom, cm) \in Nat
    BY <1>12, <1>13, <1>14, SetCostIs DEF Priced
  <1>17. SumOver(t, s) = t[x] + SumOver(t, s \ {x})
    BY <1>3, <1>4, <1>5, <1>7, SumRemove
  <1>18. SumOver(t, s \ {x}) \in Nat
    BY <1>5, <1>8
  <1>19. SetCost(S, geom, cm) <= SumOver(t, s)
    BY ONLY <1>12, <1>13, <1>15, <1>16, <1>17, <1>18
  <1> QED
    BY <1>3, <1>10, <1>14, <1>19

\* The cost of a layout is the sum of what its tokens cost.
LEMMA EvaluateIs ==
    ASSUME NEW tokens, NEW order, NEW geom, NEW cm
    PROVE  Evaluate(tokens, order, geom, cm)
             = SumOver([k \in DOMAIN tokens |-> SetCost(SlotsOf(tokens[k], order), geom, cm)], DOMAIN tokens)
  <1>1. PICK gap : gap = GapOf(geom, cm)
    OBVIOUS
  <1>2. PICK plan : plan = [k \in DOMAIN tokens |-> Plan(tokens[k], order, gap)]
    OBVIOUS
  <1>3. PICK charge : charge = [k \in DOMAIN tokens |->
                    plan[k].groups * geom.tensors * cm.fetch + plan[k].span * geom.bytes * cm.byte]
    OBVIOUS
  <1>4. Evaluate(tokens, order, geom, cm) = SumOver(charge, DOMAIN tokens)
    BY <1>1, <1>2, <1>3 DEF Evaluate, SumOver
  <1>5. ASSUME NEW k \in DOMAIN tokens PROVE charge[k] = SetCost(SlotsOf(tokens[k], order), geom, cm)
    <2>1. PICK S : S = SlotsOf(tokens[k], order)
      OBVIOUS
    <2>2. Plan(tokens[k], order, gap) = [groups |-> Cardinality(Groups(S, gap)), span |-> SumOver(Width(S, gap), S)]
      BY <2>1 DEF Plan, Groups, Width, SumOver
    <2>3. plan[k].groups = Cardinality(Groups(S, gap)) /\ plan[k].span = SumOver(Width(S, gap), S)
      BY <1>2, <2>2
    <2>4. charge[k] = Cardinality(Groups(S, gap)) * geom.tensors * cm.fetch + SumOver(Width(S, gap), S) * geom.bytes * cm.byte
      BY <1>3, <2>3
    <2> QED
      BY <1>1, <2>1, <2>4 DEF SetCost
  <1>6. charge = [k \in DOMAIN tokens |-> SetCost(SlotsOf(tokens[k], order), geom, cm)]
    BY <1>3, <1>5
  <1> QED
    BY <1>4, <1>6

\* The cost that coact searches by is a whole number for every order, so that the search, which
\* is verified for such costs (CostAssumption), is verified for it.
THEOREM CostsAreNumbers == \A j \in Jobs : \A q \in Orders(j) : SearchCost(j, q) \in Nat
  <1> TAKE j \in Jobs
  <1> TAKE q \in Orders(j)
  <1>1. PICK tokens, geom, cm : tokens = SearchTokens(j) /\ geom = GeomOf(j) /\ cm = j.cm
    OBVIOUS
  <1>2. DOMAIN q = Slots(j) /\ IsFiniteSet(DOMAIN q) /\ DOMAIN q \in SUBSET Int
    <2>1. PICK n \in Nat : n = j.n
      BY JobsAssumption
    <2>2. DOMAIN q = 0 .. n - 1
      BY <2>1 DEF Orders, Slots
    <2> QED
      BY <2>1, <2>2, FS_Interval DEF Slots
  <1>3. PICK c : c = [k \in DOMAIN tokens |-> SetCost(SlotsOf(tokens[k], q), geom, cm)]
    OBVIOUS
  <1>4. geom.tensors \in Nat /\ geom.bytes \in Nat /\ cm.fetch \in Nat /\ cm.byte \in Nat
    BY <1>1, GeomIs, ModelAssumption
  <1>5. ASSUME NEW k \in DOMAIN tokens PROVE c[k] \in Nat
    <2>1. PICK S : S = SlotsOf(tokens[k], q)
      OBVIOUS
    <2>2. S \in SUBSET Int /\ IsFiniteSet(S)
      BY <1>2, <2>1, FS_Subset DEF SlotsOf
    <2>3. SetCost(S, geom, cm) \in Nat
      BY <1>4, <2>2, SetCostIs
    <2> QED
      BY <1>3, <2>1, <2>3
  <1>6. SumOver(c, DOMAIN tokens) \in Nat
    BY <1>1, <1>5, SearchTokensAre, SumNat
  <1>7. SearchCost(j, q) = SumOver(c, DOMAIN tokens)
    BY <1>1, <1>3, EvaluateIs DEF SearchCost
  <1> QED
    BY <1>6, <1>7

-----------------------------------------------------------------------------
(* The ranges of a batch *)

\* Emit numbers the ranges run by run, tensor by tensor.
RowOf(q, width) == ((q - 1) \div width) + 1
ColOf(q, width) == ((q - 1) % width) + 1

\* These numbers name every run and tensor once.
LEMMA GridIs ==
    ASSUME NEW rows \in Nat, NEW width \in Nat
    PROVE  /\ rows * width \in Nat
           /\ \A q \in 1 .. rows * width : /\ RowOf(q, width) \in 1 .. rows /\ ColOf(q, width) \in 1 .. width
                                          /\ q = (RowOf(q, width) - 1) * width + ColOf(q, width)
           /\ \A m \in 1 .. rows, w \in 1 .. width :
                  \E q \in 1 .. rows * width : RowOf(q, width) = m /\ ColOf(q, width) = w
  <1>1. rows * width \in Nat
    OBVIOUS
  <1>2. ASSUME NEW q \in 1 .. rows * width
        PROVE  /\ RowOf(q, width) \in 1 .. rows /\ ColOf(q, width) \in 1 .. width
               /\ q = (RowOf(q, width) - 1) * width + ColOf(q, width)
    <2>1. width # 0
      <3>1. SUFFICES ASSUME width = 0 PROVE FALSE
        OBVIOUS
      <3>2. rows * width = 0
        BY <3>1
      <3> QED
        BY <3>2
    <2>2. PICK d \in Nat, c \in 0 .. width - 1 :
              d = (q - 1) \div width /\ c = (q - 1) % width /\ q - 1 = width * d + c
      <3>1. q - 1 \in Nat /\ width \in Nat \ {0}
        BY <2>1
      <3> QED
        BY <3>1, Division
    <2>3. d < rows
      <3>1. SUFFICES ASSUME rows <= d PROVE FALSE
        BY <2>2
      <3>2. rows * width <= d * width
        BY <3>1, Scaled
      <3>3. width * d = d * width
        OBVIOUS
      <3> QED
        BY <1>1, <2>2, <3>2, <3>3
    <2>4. RowOf(q, width) = d + 1 /\ ColOf(q, width) = c + 1
      BY <2>2 DEF RowOf, ColOf
    <2>5. q = d * width + (c + 1)
      BY <2>2
    <2>6. (d + 1) - 1 = d
      OBVIOUS
    <2> QED
      BY <2>2, <2>3, <2>4, <2>5, <2>6
  <1>3. ASSUME NEW m \in 1 .. rows, NEW w \in 1 .. width
        PROVE  \E q \in 1 .. rows * width : RowOf(q, width) = m /\ ColOf(q, width) = w
    <2>1. PICK e \in Nat : e = (m - 1) * width
      OBVIOUS
    <2>2. m * width = e + width /\ m * width <= rows * width
      <3>1. m \in Nat /\ m <= rows
        OBVIOUS
      <3>2. m * width <= rows * width
        BY ONLY <3>1, Scaled, rows \in Nat, width \in Nat
      <3>3. (m - 1) * width = m * width - width
        OBVIOUS
      <3> QED
        BY <2>1, <3>2, <3>3
    <2>3. PICK q \in 1 .. rows * width : q = e + w
      BY <1>1, <2>2
    <2>4. RowOf(q, width) \in 1 .. rows /\ ColOf(q, width) \in 1 .. width /\ q = (RowOf(q, width) - 1) * width + ColOf(q, width)
      BY <1>2
    <2>5. PICK d \in Nat, c \in 1 .. width : d = RowOf(q, width) - 1 /\ c = ColOf(q, width)
      BY <2>4
    <2>6. d * width + c = (m - 1) * width + w
      BY <2>1, <2>3, <2>4, <2>5
    <2>7. d = m - 1
      <3>1. CASE d < m - 1
        <4>1. PICK g \in Nat : m - 1 = d + 1 + g
          BY <3>1
        <4>2. (m - 1) * width = d * width + width + g * width /\ g * width \in Nat /\ d * width \in Nat
          BY <4>1
        <4> QED
          BY <2>6, <4>2
      <3>2. CASE m - 1 < d
        <4>1. PICK g \in Nat : d = (m - 1) + 1 + g
          BY <3>2
        <4>2. d * width = (m - 1) * width + width + g * width /\ g * width \in Nat /\ (m - 1) * width \in Nat
          BY <4>1
        <4> QED
          BY <2>6, <4>2
      <3> QED
        BY <3>1, <3>2
    <2>8. c = w
      <3>1. d * width = e
        BY <2>1, <2>7
      <3>2. e + c = e + w
        BY <2>1, <2>6, <3>1
      <3> QED
        BY <3>2
    <2>9. RowOf(q, width) = m
      BY <2>4, <2>5, <2>7
    <2>10. ColOf(q, width) = w
      BY <2>5, <2>8
    <2> QED
      BY <2>9, <2>10
  <1> QED
    BY <1>1, <1>2, <1>3

RangeSet == [batch : Nat, offset : Nat, len : Nat]

\* The slots u to v of weight tensor x.
IsSlice(range, x, u, v) ==
    /\ range.offset = Offset(job.table, x) + u * Stride(job.table, x)
    /\ range.len = (v - u + 1) * Stride(job.table, x)

Apart(y, z) == y.offset + y.len <= z.offset \/ z.offset + z.len <= y.offset

\* What is right about the ranges of batch k: they are slices of weight tensors, cover the slots
\* of the batch in each, and lie apart.
Fetches(k) ==
    /\ \A z \in RangesOf(k) : \E x \in WeightsOf(job) : \E u, v \in Slots(job) : u <= v /\ IsSlice(ranges[z], x, u, v)
    /\ \A x \in WeightsOf(job) : \A slot \in BatchSlots(k - 1) :
           \E z \in RangesOf(k) : \E u, v \in Slots(job) : u <= slot /\ slot <= v /\ IsSlice(ranges[z], x, u, v)
    /\ \A y, z \in RangesOf(k) : y # z => Apart(ranges[y], ranges[z])

\* The reads of a set of slots: ascending intervals that cover it, from one of its slots to another.
ReadsFit(S) ==
    /\ reads \in Seq(Nat \X Nat)
    /\ \A m \in 1 .. Len(reads) : reads[m][1] \in S /\ reads[m][2] \in S /\ reads[m][1] <= reads[m][2]
    /\ \A m, l \in 1 .. Len(reads) : m < l => reads[m][2] < reads[l][1]
    /\ \A x \in S : \E m \in 1 .. Len(reads) : reads[m][1] <= x /\ x <= reads[m][2]

\* The model of the job has been opened.
Opened == job \in Jobs /\ Opens

\* What has been opened: slots, and weight tensors with a stride that are apart and in the file.
LEMMA OpenedIs ==
    ASSUME Opened
    PROVE  /\ IsTable(job.table) /\ Validate(job.table)
           /\ job.n \in Nat \ {0} /\ Slots(job) = 0 .. job.n - 1
           /\ \A x \in WeightsOf(job) : x \in Weights(job.table, job.n) /\ x \in DOMAIN job.table.tensors /\ HasStride(job.table, x)
           /\ WeightsOf(job) \in SUBSET Int /\ IsFiniteSet(WeightsOf(job))
  <1>1. IsTable(job.table)
    BY ModelAssumption DEF Opened, IsTable
  <1>2. IsFiniteSet(DOMAIN job.table.tensors) /\ DOMAIN job.table.tensors \in SUBSET Int
    BY <1>1, SoonerOrders
  <1>3. WeightsOf(job) \in SUBSET (DOMAIN job.table.tensors)
    BY DEF WeightsOf, Weights, ExpertTensors
  <1> QED
    BY <1>1, <1>2, <1>3, JobsAssumption, FS_Subset DEF Opened, Opens, WeightsOf, Slots

\* A slice lies in its tensor.
LEMMA SliceIs ==
    ASSUME Opened, NEW x \in WeightsOf(job),
           NEW u \in Slots(job), NEW v \in Slots(job), u <= v, NEW c, IsSlice(c, x, u, v)
    PROVE  LET s == Stride(job.table, x)
               o == Offset(job.table, x)
               e == job.table.dataOffset + End(job.table, x)
           IN  /\ s \in Nat /\ o \in Nat /\ e \in Nat /\ c.offset \in Nat /\ c.len \in Nat
               /\ o <= c.offset /\ c.offset + c.len <= e
               /\ c.offset = o + u * s /\ c.offset + c.len = o + (v + 1) * s
               /\ o + job.n * s = e
  <1>1. PICK t, n : t = job.table /\ n = job.n /\ IsTable(t) /\ n \in Nat \ {0}
    BY OpenedIs
  <1>2. x \in Weights(t, n) /\ HasStride(t, x) /\ x \in DOMAIN t.tensors
    BY <1>1, OpenedIs
  <1>3. u \in 0 .. n - 1 /\ v \in 0 .. n - 1
    BY <1>1, OpenedIs
  <1>4. PICK s, o, e : s = Stride(t, x) /\ o = Offset(t, x) /\ e = t.dataOffset + End(t, x)
    OBVIOUS
  <1>5. /\ s \in Nat /\ o + u * s \in Nat /\ (v - u + 1) * s \in Nat /\ o \in Nat
        /\ o <= o + u * s /\ (o + u * s) + (v - u + 1) * s = o + (v + 1) * s
        /\ (o + u * s) + (v - u + 1) * s <= e
        /\ o + n * s = e
    <2>1. RunLies(t, n, x, u, v)
      BY <1>1, <1>2, <1>3, RangeIs
    <2> QED
      BY ONLY <1>4, <2>1 DEF RunLies
  <1>6. e \in Nat
    <2>1. n * s \in Nat
      BY <1>1, <1>5
    <2> QED
      BY <1>5, <2>1
  <1>7. c.offset = o + u * s /\ c.len = (v - u + 1) * s
    BY <1>1, <1>4 DEF IsSlice
  <1> QED
    BY <1>1, <1>4, <1>5, <1>6, <1>7

\* Two slices are apart when the runs are, and when the tensors are two.
LEMMA SlicesApart ==
    ASSUME Opened, NEW x \in WeightsOf(job), NEW y \in WeightsOf(job),
           NEW u \in Slots(job), NEW v \in Slots(job), u <= v,
           NEW f \in Slots(job), NEW g \in Slots(job), f <= g,
           NEW c, IsSlice(c, x, u, v), NEW d, IsSlice(d, y, f, g),
           x # y \/ v < f \/ g < u
    PROVE  Apart(c, d)
  <1>1. PICK t, n : t = job.table /\ n = job.n /\ IsTable(t) /\ Validate(t) /\ n \in Nat \ {0}
    BY OpenedIs
  <1>2. /\ x \in Weights(t, n) /\ y \in Weights(t, n) /\ HasStride(t, x) /\ HasStride(t, y)
        /\ x \in DOMAIN t.tensors /\ y \in DOMAIN t.tensors /\ x \in Int /\ y \in Int
    BY <1>1, OpenedIs
  <1>3. u \in 0 .. n - 1 /\ v \in 0 .. n - 1 /\ f \in 0 .. n - 1 /\ g \in 0 .. n - 1
    BY <1>1, OpenedIs
  <1>4. PICK s \in Nat, o \in Nat, e \in Nat : /\ s = Stride(t, x) /\ o = Offset(t, x) /\ e = t.dataOffset + End(t, x)
                                               /\ c.offset \in Nat /\ c.len \in Nat /\ o <= c.offset
                                               /\ c.offset = o + u * s /\ c.offset + c.len = o + (v + 1) * s
                                               /\ c.offset + c.len <= e
    BY <1>1, SliceIs
  <1>5. PICK s2 \in Nat, o2 \in Nat, e2 \in Nat : /\ s2 = Stride(t, y) /\ o2 = Offset(t, y) /\ e2 = t.dataOffset + End(t, y)
                                                  /\ d.offset \in Nat /\ d.len \in Nat /\ o2 <= d.offset
                                                  /\ d.offset = o2 + f * s2 /\ d.offset + d.len = o2 + (g + 1) * s2
                                                  /\ d.offset + d.len <= e2
    BY <1>1, SliceIs
  <1>6. CASE x # y
    <2>1. End(t, x) <= t.tensors[y].rel \/ End(t, y) <= t.tensors[x].rel
      <3>1. Sooner(t, x, y) \/ Sooner(t, y, x)
        <4>1. t.tensors[x].rel \in Nat /\ t.tensors[y].rel \in Nat
          <5>1. \A z \in DOMAIN t.tensors : t.tensors[z].rel \in Nat
            BY <1>1, SoonerOrders
          <5> QED
            BY <1>2, <5>1
        <4> QED
          BY <1>2, <1>6, <4>1 DEF Sooner
      <3> QED
        BY <1>1, <1>2, <3>1, TensorsApart
    <2>2. e <= o2 \/ e2 <= o
      <3>1. PICK base \in Nat, r1 \in Nat, r2 \in Nat, l1 \in Nat, l2 \in Nat :
                /\ base = t.dataOffset /\ r1 = t.tensors[x].rel /\ r2 = t.tensors[y].rel
                /\ l1 = t.tensors[x].nbytes /\ l2 = t.tensors[y].nbytes
        BY <1>1, <1>2, SoonerOrders DEF IsTable
      <3>2. r1 + l1 <= r2 \/ r2 + l2 <= r1
        BY <2>1, <3>1 DEF End
      <3>3. e = base + (r1 + l1) /\ o = base + r1 /\ e2 = base + (r2 + l2) /\ o2 = base + r2
        BY <1>4, <1>5, <3>1 DEF End, Offset
      <3> QED
        BY <3>2, <3>3
    <2> QED
      BY <1>4, <1>5, <2>2 DEF Apart
  <1>7. CASE x = y
    <2>1. s2 = s /\ o2 = o
      BY <1>4, <1>5, <1>7
    <2>2. CASE v < f
      <3>1. v + 1 \in Nat /\ f \in Nat /\ v + 1 <= f
        BY <1>3, <2>2
      <3>2. (v + 1) * s <= f * s /\ (v + 1) * s \in Nat /\ f * s \in Nat
        BY <3>1, Scaled
      <3> QED
        BY <1>4, <1>5, <2>1, <3>2 DEF Apart
    <2>3. CASE g < u
      <3>1. g + 1 \in Nat /\ u \in Nat /\ g + 1 <= u
        BY <1>3, <2>3
      <3>2. (g + 1) * s <= u * s /\ (g + 1) * s \in Nat /\ u * s \in Nat
        BY <3>1, Scaled
      <3> QED
        BY <1>4, <1>5, <2>1, <3>2 DEF Apart
    <2> QED
      BY <1>7, <2>2, <2>3
  <1> QED
    BY <1>6, <1>7

-----------------------------------------------------------------------------
(* What the ranges of a batch are good for *)

\* A byte of a slot is in a slice that holds the slot.
LEMMA ByteInSlice ==
    ASSUME Opened, NEW x \in WeightsOf(job), NEW u \in Slots(job), NEW v \in Slots(job),
           NEW slot \in Slots(job), u <= slot, slot <= v, NEW c, IsSlice(c, x, u, v),
           NEW byte \in BytesOf(x, slot)
    PROVE  c.offset <= byte /\ byte < c.offset + c.len /\ byte \in Int
  <1>1. u \in Nat /\ v \in Nat /\ slot \in Nat /\ u <= v
    BY OpenedIs
  <1>2. PICK s \in Nat, o \in Nat : /\ s = Stride(job.table, x) /\ o = Offset(job.table, x)
                                  /\ c.offset \in Nat /\ c.len \in Nat
                                  /\ c.offset = o + u * s /\ c.offset + c.len = o + (v + 1) * s
    BY <1>1, SliceIs
  <1>3. PICK k \in Nat : k = slot * s
    BY <1>1
  <1>4. byte \in o + k .. o + k + s - 1
    BY <1>2, <1>3 DEF BytesOf
  <1>5. u * s <= k /\ u * s \in Nat
    BY <1>1, <1>3, Scaled
  <1>6. k + s <= (v + 1) * s /\ (v + 1) * s \in Nat
    <2>1. slot + 1 \in Nat /\ v + 1 \in Nat /\ slot + 1 <= v + 1
      BY <1>1
    <2>2. (slot + 1) * s <= (v + 1) * s /\ (v + 1) * s \in Nat
      BY <2>1, Scaled
    <2>3. (slot + 1) * s = k + s
      BY <1>1, <1>3
    <2> QED
      BY <2>2, <2>3
  <1> QED
    BY <1>2, <1>4, <1>5, <1>6

\* Ranges that are apart have no byte in common.
LEMMA ApartShareNone ==
    ASSUME NEW c \in RangeSet, NEW d \in RangeSet, Apart(c, d), NEW byte \in Int,
           c.offset <= byte, byte < c.offset + c.len
    PROVE  ~(d.offset <= byte /\ byte < d.offset + d.len)
  BY DEF RangeSet, Apart

\* What is asked for is in Nat.
LEMMA RangesAre ==
    ASSUME ranges \in Seq(RangeSet)
    PROVE  /\ DOMAIN ranges \in SUBSET Nat /\ IsFiniteSet(DOMAIN ranges)
           /\ \A z \in DOMAIN ranges : ranges[z] \in RangeSet
  <1>1. PICK n \in Nat : n = Len(ranges) /\ DOMAIN ranges = 1 .. n
    OBVIOUS
  <1>2. PICK R : R = RangeSet
    OBVIOUS
  <1>3. \A z \in DOMAIN ranges : ranges[z] \in R
    BY <1>2
  <1>4. IsFiniteSet(DOMAIN ranges) /\ DOMAIN ranges \in SUBSET Nat
    <2>1. PICK D : D = 1 .. n
      OBVIOUS
    <2>2. IsFiniteSet(D) /\ D \in SUBSET Nat
      BY <2>1, FS_Interval
    <2> QED
      BY <1>1, <2>1, <2>2
  <1> QED
    BY <1>2, <1>3, <1>4

\* Each byte wanted is read once.
LEMMA ReadOnceIs ==
    ASSUME Opened, ranges \in Seq(RangeSet), NEW k, Fetches(k), BatchSlots(k - 1) \subseteq Slots(job),
           NEW x \in WeightsOf(job), NEW slot \in BatchSlots(k - 1), NEW byte \in BytesOf(x, slot)
    PROVE  Cardinality({z \in RangesOf(k) : Reads(byte, z)}) = 1
  <1>1. PICK z \in RangesOf(k), u \in Slots(job), v \in Slots(job) : u <= slot /\ slot <= v /\ IsSlice(ranges[z], x, u, v)
    BY DEF Fetches
  <1>2. ranges[z].offset <= byte /\ byte < ranges[z].offset + ranges[z].len /\ byte \in Int
    BY <1>1, ByteInSlice
  <1>3. ASSUME NEW y \in RangesOf(k), Reads(byte, y) PROVE y = z
    <2>1. SUFFICES ASSUME y # z PROVE FALSE
      OBVIOUS
    <2>2. Apart(ranges[z], ranges[y])
      BY <2>1 DEF Fetches
    <2>3. ranges[z] \in RangeSet /\ ranges[y] \in RangeSet
      BY RangesAre DEF RangesOf
    <2>4. ~(ranges[y].offset <= byte /\ byte < ranges[y].offset + ranges[y].len)
      BY <1>2, <2>2, <2>3, ApartShareNone
    <2> QED
      BY <1>3, <2>4 DEF Reads
  <1>4. {y \in RangesOf(k) : Reads(byte, y)} = {z}
    BY <1>2, <1>3 DEF Reads
  <1> QED
    BY <1>4, FS_Singleton

\* What is read is part of experts' slices, and nothing else.
LEMMA ReadsInside ==
    ASSUME Opened, NEW x \in WeightsOf(job), NEW u \in Slots(job), NEW v \in Slots(job), u <= v,
           NEW c, IsSlice(c, x, u, v), NEW byte \in c.offset .. c.offset + c.len - 1
    PROVE  /\ byte < job.table.fileSize
           /\ \E slot \in Slots(job) : byte \in BytesOf(x, slot)
           /\ \A y \in DOMAIN job.table.tensors \ WeightsOf(job) :
                  byte < Offset(job.table, y) \/ byte >= job.table.dataOffset + End(job.table, y)
  <1>1. PICK s \in Nat, o \in Nat, e \in Nat :
            /\ s = Stride(job.table, x) /\ o = Offset(job.table, x) /\ e = job.table.dataOffset + End(job.table, x)
            /\ c.offset \in Nat /\ c.len \in Nat /\ o <= c.offset /\ c.offset + c.len <= e /\ o + job.n * s = e
    BY SliceIs
  <1>2. byte \in Nat /\ o <= byte /\ byte < e
    BY <1>1
  <1>3. PICK t, n : t = job.table /\ n = job.n /\ IsTable(t) /\ Validate(t) /\ n \in Nat \ {0} /\ Slots(job) = 0 .. n - 1
                    /\ x \in DOMAIN t.tensors
    BY OpenedIs
  <1>4. byte < t.fileSize
    <2>1. e <= t.fileSize
      BY <1>1, <1>3, TensorsInFile
    <2> QED
      BY <1>2, <1>3, <2>1 DEF IsTable
  <1>5. \E slot \in Slots(job) : byte \in BytesOf(x, slot)
    <2>1. PICK d \in Nat : d = byte - o
      BY <1>2
    <2>2. d < n * s
      BY <1>1, <1>2, <1>3, <2>1
    <2>3. PICK slot \in 0 .. n - 1 : slot * s <= d /\ d <= slot * s + s - 1
      BY <1>3, <2>2, SlotOfByte
    <2>4. PICK k \in Nat : k = slot * s
      BY <2>3
    <2>5. byte \in o + k .. o + k + s - 1
      BY <1>2, <2>1, <2>3, <2>4
    <2> QED
      BY <1>1, <1>3, <2>3, <2>4, <2>5 DEF BytesOf
  <1>6. ASSUME NEW y \in DOMAIN t.tensors, y # x
        PROVE  byte < Offset(t, y) \/ byte >= t.dataOffset + End(t, y)
    <2>1. PICK base \in Nat, r1 \in Nat, r2 \in Nat, l1 \in Nat, l2 \in Nat :
              /\ base = t.dataOffset /\ r1 = t.tensors[x].rel /\ r2 = t.tensors[y].rel
              /\ l1 = t.tensors[x].nbytes /\ l2 = t.tensors[y].nbytes
      BY <1>3, SoonerOrders DEF IsTable
    <2>2. x \in Int /\ y \in Int
      BY <1>3, SoonerOrders
    <2>3. Sooner(t, x, y) \/ Sooner(t, y, x)
      BY <1>6, <2>1, <2>2 DEF Sooner
    <2>4. End(t, x) <= r2 \/ End(t, y) <= r1
      BY <1>3, <2>1, <2>3, TensorsApart
    <2>5. /\ End(t, x) = r1 + l1 /\ End(t, y) = r2 + l2 /\ Offset(t, x) = base + r1 /\ Offset(t, y) = base + r2
          /\ t.dataOffset = base
      BY <2>1 DEF End, Offset
    <2>6. e = base + (r1 + l1) /\ o = base + r1
      BY <1>1, <1>3, <2>5
    <2> QED
      BY <1>2, <2>4, <2>5, <2>6
  <1> QED
    BY <1>3, <1>4, <1>5, <1>6

\* The batches fetched, all of them, are what is wanted.
LEMMA AllFetched ==
    ASSUME Opened, ranges \in Seq(RangeSet), IsOrder(job, layout),
           \A k \in 1 .. BatchCount : Fetches(k), \A z \in DOMAIN ranges : ranges[z].batch \in 1 .. BatchCount
    PROVE  BytesWanted
  <1>1. \A k : BatchSlots(k) \subseteq Slots(job)
    BY DEF BatchSlots, SlotsOf, IsOrder
  <1>2. ASSUME NEW k \in 1 .. BatchCount, NEW x \in WeightsOf(job), NEW slot \in BatchSlots(k - 1), NEW byte \in BytesOf(x, slot)
        PROVE  Cardinality({z \in RangesOf(k) : Reads(byte, z)}) = 1
    BY <1>1, ReadOnceIs
  <1>3. ASSUME NEW k \in 1 .. BatchCount, NEW y \in RangesOf(k), NEW z \in RangesOf(k), y < z,
               NEW byte \in ranges[y].offset .. ranges[y].offset + ranges[y].len - 1
        PROVE  ~Reads(byte, z)
    <2>1. ranges[y] \in RangeSet /\ ranges[z] \in RangeSet /\ y \in Nat /\ z \in Nat
      BY RangesAre DEF RangesOf
    <2>2. y # z
      BY <1>3, <2>1
    <2>3. Apart(ranges[y], ranges[z])
      BY <2>2 DEF Fetches
    <2>4. byte \in Int /\ ranges[y].offset <= byte /\ byte < ranges[y].offset + ranges[y].len
      BY <2>1 DEF RangeSet
    <2> QED
      BY <2>1, <2>3, <2>4, ApartShareNone DEF Reads
  <1>4. ASSUME NEW z \in DOMAIN ranges, NEW byte \in ranges[z].offset .. ranges[z].offset + ranges[z].len - 1
        PROVE  /\ byte < job.table.fileSize
               /\ \E x \in WeightsOf(job) : \E slot \in Slots(job) : byte \in BytesOf(x, slot)
               /\ \A x \in DOMAIN job.table.tensors \ WeightsOf(job) :
                      byte < Offset(job.table, x) \/ byte >= job.table.dataOffset + End(job.table, x)
    <2>1. PICK k \in 1 .. BatchCount : z \in RangesOf(k)
      BY DEF RangesOf
    <2>2. PICK x \in WeightsOf(job), u \in Slots(job), v \in Slots(job) : u <= v /\ IsSlice(ranges[z], x, u, v)
      BY <2>1 DEF Fetches
    <2> QED
      BY <2>2, ReadsInside
  <1> QED
    BY <1>2, <1>3, <1>4 DEF BytesWanted

-----------------------------------------------------------------------------
(* What emit adds *)

\* The ranges of the batch: each read in each weight tensor.
Fresh ==
    [q \in 1 .. Len(reads) * Len(WeightList) |->
        RangeOf(reads[RowOf(q, Len(WeightList))], WeightList[ColOf(q, Len(WeightList))])]

\* A list of a finite set has all of it.
LEMMA ListsAll ==
    ASSUME NEW S, IsFiniteSet(S), NEW q, Lists(q, S)
    PROVE  Len(q) \in Nat /\ (\A k \in 1 .. Len(q) : q[k] \in S) /\ \A x \in S : \E k \in 1 .. Len(q) : q[k] = x
  <1>1. q \in Seq(S) /\ Len(q) = Cardinality(S) /\ Len(q) \in Nat /\ \A k, m \in 1 .. Len(q) : q[k] = q[m] => k = m
    BY DEF Lists
  <1>2. \A k \in 1 .. Len(q) : q[k] \in S
    BY <1>1
  <1>3. PICK D, f : D = 1 .. Len(q) /\ f = [k \in D |-> q[k]]
    OBVIOUS
  <1>4. IsFiniteSet(D) /\ Cardinality(D) = Len(q)
    BY <1>1, <1>3, FS_Interval
  <1>5. f \in Injection(D, S)
    BY <1>1, <1>2, <1>3 DEF Injection, IsInjective
  <1>6. f \in Surjection(D, S)
    BY <1>1, <1>4, <1>5, FS_Injection
  <1> QED
    BY <1>1, <1>2, <1>3, <1>6 DEF Surjection

\* The weight tensors are all listed once.
LEMMA WeightListIs ==
    ASSUME Opened
    PROVE  /\ Len(WeightList) \in Nat /\ Len(WeightList) = Cardinality(WeightsOf(job))
           /\ \A w \in 1 .. Len(WeightList) : WeightList[w] \in WeightsOf(job)
           /\ \A w, l \in 1 .. Len(WeightList) : WeightList[w] = WeightList[l] => w = l
           /\ \A x \in WeightsOf(job) : \E w \in 1 .. Len(WeightList) : WeightList[w] = x
  <1>1. PICK q, W : q = WeightList /\ W = WeightsOf(job) /\ IsFiniteSet(W) /\ Lists(q, W)
    BY OpenedIs, InOrderLists DEF WeightList
  <1>2. q \in Seq(W) /\ Len(q) = Cardinality(W) /\ Len(q) \in Nat /\ \A k, m \in 1 .. Len(q) : q[k] = q[m] => k = m
    BY <1>1 DEF Lists
  <1> QED
    BY <1>1, <1>2, ListsAll

\* What a read of the batch asks for in a tensor.
LEMMA FreshIs ==
    ASSUME Opened, b \in Nat, NEW S \in SUBSET Slots(job), ReadsFit(S)
    PROVE  /\ Fresh \in Seq(RangeSet)
           /\ \A q \in 1 .. Len(Fresh) :
                  /\ Fresh[q].batch = b
                  /\ RowOf(q, Len(WeightList)) \in 1 .. Len(reads) /\ ColOf(q, Len(WeightList)) \in 1 .. Len(WeightList)
                  /\ LET run == reads[RowOf(q, Len(WeightList))]
                     IN  IsSlice(Fresh[q], WeightList[ColOf(q, Len(WeightList))], run[1], run[2])
           /\ \A m \in 1 .. Len(reads), w \in 1 .. Len(WeightList) :
                  \E q \in 1 .. Len(Fresh) : RowOf(q, Len(WeightList)) = m /\ ColOf(q, Len(WeightList)) = w
           /\ \A q, l \in 1 .. Len(Fresh) :
                  /\ RowOf(q, Len(WeightList)) = RowOf(l, Len(WeightList))
                  /\ ColOf(q, Len(WeightList)) = ColOf(l, Len(WeightList))
                  => q = l
           /\ Len(Fresh) = Len(reads) * Len(WeightList)
  <1>1. PICK rows \in Nat, width \in Nat : rows = Len(reads) /\ width = Len(WeightList)
    BY WeightListIs DEF ReadsFit
  <1>2. /\ rows * width \in Nat
        /\ \A q \in 1 .. rows * width : /\ RowOf(q, width) \in 1 .. rows /\ ColOf(q, width) \in 1 .. width
                                       /\ q = (RowOf(q, width) - 1) * width + ColOf(q, width)
        /\ \A m \in 1 .. rows, w \in 1 .. width :
               \E q \in 1 .. rows * width : RowOf(q, width) = m /\ ColOf(q, width) = w
    BY GridIs
  <1>3. PICK N \in Nat : N = rows * width
    BY <1>2
  <1>4. PICK f : f = Fresh /\ f = [q \in 1 .. N |-> RangeOf(reads[RowOf(q, width)], WeightList[ColOf(q, width)])]
    BY <1>1, <1>3 DEF Fresh
  <1>5. ASSUME NEW q \in 1 .. N
        PROVE  /\ f[q] \in RangeSet /\ f[q].batch = b
               /\ IsSlice(f[q], WeightList[ColOf(q, width)], reads[RowOf(q, width)][1], reads[RowOf(q, width)][2])
    <2>1. PICK m \in 1 .. rows, w \in 1 .. width : m = RowOf(q, width) /\ w = ColOf(q, width)
      BY <1>2, <1>3
    <2>2. PICK x \in WeightsOf(job) : x = WeightList[w]
      BY <1>1, WeightListIs
    <2>3. PICK u \in Slots(job), v \in Slots(job) : u = reads[m][1] /\ v = reads[m][2] /\ u <= v
      BY <1>1 DEF ReadsFit
    <2>4. f[q] = RangeOf(reads[m], x)
      BY <1>4, <2>1, <2>2
    <2>5. f[q] = [batch |-> b, offset |-> Offset(job.table, x) + u * Stride(job.table, x),
                  len |-> (v - u + 1) * Stride(job.table, x)]
      BY <2>3, <2>4 DEF RangeOf
    <2>6. f[q].batch = b /\ IsSlice(f[q], x, u, v)
      BY <2>5 DEF IsSlice
    <2>7. f[q].offset \in Nat /\ f[q].len \in Nat
      BY <2>3, <2>6, SliceIs
    <2>8. f[q] \in RangeSet
      BY <2>5, <2>7 DEF RangeSet
    <2> QED
      BY <2>1, <2>2, <2>3, <2>6, <2>8
  <1>6. f \in Seq(RangeSet) /\ Len(f) = N
    BY <1>4, <1>5
  <1>7. \A q, l \in 1 .. N : RowOf(q, width) = RowOf(l, width) /\ ColOf(q, width) = ColOf(l, width) => q = l
    BY <1>2, <1>3
  <1> QED
    BY <1>1, <1>2, <1>3, <1>4, <1>5, <1>6, <1>7

\* Emit appends them.
LEMMA EmitAdds ==
    ASSUME Emit, ranges \in Seq(RangeSet), Opened, b \in Nat, NEW S \in SUBSET Slots(job), ReadsFit(S)
    PROVE  /\ ranges' = ranges \o Fresh /\ ranges' \in Seq(RangeSet) /\ Len(ranges') = Len(ranges) + Len(Fresh)
           /\ Len(ranges) \in Nat /\ Len(Fresh) \in Nat
           /\ \A z \in 1 .. Len(ranges) : ranges'[z] = ranges[z]
           /\ \A q \in 1 .. Len(Fresh) : ranges'[Len(ranges) + q] = Fresh[q]
  <1>1. ranges' = ranges \o Fresh
    BY DEF Emit, Fresh, RowOf, ColOf
  <1>2. PICK R, g, f : R = RangeSet /\ g = ranges /\ f = Fresh /\ g \in Seq(R) /\ f \in Seq(R) /\ g \o f = ranges'
    BY <1>1, FreshIs
  <1>3. /\ g \o f \in Seq(R) /\ Len(g \o f) = Len(g) + Len(f)
        /\ \A z \in 1 .. Len(g) + Len(f) : (g \o f)[z] = IF z <= Len(g) THEN g[z] ELSE f[z - Len(g)]
    BY ONLY <1>2, ConcatProperties
  <1>4. PICK l \in Nat, n \in Nat : l = Len(g) /\ n = Len(f)
    BY <1>2
  <1>5. ASSUME NEW z \in 1 .. l PROVE (g \o f)[z] = g[z]
    BY <1>3, <1>4
  <1>6. ASSUME NEW q \in 1 .. n PROVE (g \o f)[l + q] = f[q]
    <2>1. l + q \in 1 .. l + n /\ ~(l + q <= l) /\ (l + q) - l = q
      OBVIOUS
    <2> QED
      BY <1>3, <1>4, <2>1
  <1> QED
    BY <1>1, <1>2, <1>3, <1>4, <1>5, <1>6

\* The ranges of other batches stay; those of this one are the new ones.
LEMMA EmitBatches ==
    ASSUME Emit, ranges \in Seq(RangeSet), Opened, b \in Nat, NEW S \in SUBSET Slots(job), ReadsFit(S),
           RangesOf(b) = {}
    PROVE  /\ \A k : k # b => RangesOf(k)' = RangesOf(k) /\ \A z \in RangesOf(k) : ranges'[z] = ranges[z]
           /\ \A z \in RangesOf(b)' : \E q \in 1 .. Len(Fresh) : z = Len(ranges) + q /\ ranges'[z] = Fresh[q]
           /\ \A q \in 1 .. Len(Fresh) : Len(ranges) + q \in RangesOf(b)' /\ ranges'[Len(ranges) + q] = Fresh[q]
           /\ \A z \in DOMAIN ranges' : (z \in DOMAIN ranges /\ ranges'[z] = ranges[z]) \/ ranges'[z].batch = b
  <1>1. PICK l \in Nat, n \in Nat :
            /\ l = Len(ranges) /\ n = Len(Fresh)
            /\ DOMAIN ranges = 1 .. l /\ DOMAIN ranges' = 1 .. l + n
            /\ \A z \in 1 .. l : ranges'[z] = ranges[z]
            /\ \A q \in 1 .. n : ranges'[l + q] = Fresh[q] /\ Fresh[q].batch = b
    <2>1. PICK R, g, h : R = RangeSet /\ g = ranges /\ h = ranges' /\ g \in Seq(R) /\ h \in Seq(R) /\ Len(h) = Len(g) + Len(Fresh)
      BY EmitAdds
    <2>2. DOMAIN g = 1 .. Len(g) /\ DOMAIN h = 1 .. Len(h)
      BY <2>1
    <2> QED
      BY <2>1, <2>2, EmitAdds, FreshIs
  <1>2. \A z \in 1 .. l + n : z \in 1 .. l \/ \E q \in 1 .. n : z = l + q
    <2> TAKE z \in 1 .. l + n
    <2>1. CASE z <= l
      BY <2>1
    <2>2. CASE z > l
      <3>1. z - l \in 1 .. n /\ z = l + (z - l)
        BY <2>2
      <3> QED
        BY <3>1
    <2> QED
      BY <2>1, <2>2
  <1>3. \A z \in 1 .. l : z \in 1 .. l + n
    OBVIOUS
  <1>4. \A q \in 1 .. n : l + q \in 1 .. l + n /\ l + q \notin 1 .. l
    OBVIOUS
  <1>5. b' = b
    BY DEF Emit
  <1>7. \A k : RangesOf(k) = {z \in 1 .. l : ranges[z].batch = k}
    BY <1>1 DEF RangesOf
  <1>8. ASSUME NEW k, k # b PROVE RangesOf(k)' = RangesOf(k) /\ \A z \in RangesOf(k) : ranges'[z] = ranges[z]
    <2>1. \A z \in 1 .. l + n : ranges'[z].batch = k <=> (z \in 1 .. l /\ ranges[z].batch = k)
      <3> TAKE z \in 1 .. l + n
      <3>1. CASE z \in 1 .. l
        BY <1>1, <3>1
      <3>2. CASE z \notin 1 .. l
        <4>1. ranges'[z].batch = b
          BY <1>1, <1>2, <3>2
        <4> QED
          BY <1>8, <3>2, <4>1
      <3> QED
        BY <3>1, <3>2
    <2>2. {z \in 1 .. l + n : ranges'[z].batch = k} = {z \in 1 .. l : ranges[z].batch = k}
      BY <1>3, <2>1
    <2>3. RangesOf(k)' = RangesOf(k)
      BY <1>1, <2>2 DEF RangesOf
    <2> QED
      BY <1>1, <1>7, <2>3
  <1>9. RangesOf(b)' = {z \in 1 .. l + n : ranges'[z].batch = b}
    BY <1>1, <1>5 DEF RangesOf
  <1>10. ASSUME NEW z \in RangesOf(b)' PROVE \E q \in 1 .. n : z = l + q /\ ranges'[z] = Fresh[q]
    <2>1. z \notin 1 .. l
      BY <1>1, <1>7, <1>9, <1>10
    <2> QED
      BY <1>1, <1>2, <1>9, <2>1
  <1>11. \A q \in 1 .. n : l + q \in RangesOf(b)' /\ ranges'[l + q] = Fresh[q]
    BY <1>1, <1>4, <1>9
  <1>12. \A z \in 1 .. l + n : (z \in 1 .. l /\ ranges'[z] = ranges[z]) \/ ranges'[z].batch = b
    BY <1>1, <1>2
  <1> QED
    BY <1>1, <1>8, <1>10, <1>11, <1>12

\* Reads of two runs are apart, whatever the tensors, and so are those of one run in two tensors.
LEMMA FreshApart ==
    ASSUME Opened, b \in Nat, NEW S \in SUBSET Slots(job), ReadsFit(S),
           NEW q \in 1 .. Len(Fresh), NEW l \in 1 .. Len(Fresh), q # l
    PROVE  Apart(Fresh[q], Fresh[l])
  <1>1. PICK width \in Nat, rows \in Nat : width = Len(WeightList) /\ rows = Len(reads)
    <2>1. reads \in Seq(Nat \X Nat)
      BY DEF ReadsFit
    <2>2. Len(reads) \in Nat
      BY <2>1
    <2>3. Len(WeightList) \in Nat
      BY WeightListIs
    <2> QED
      BY <2>2, <2>3
  <1>2. PICK m \in 1 .. rows, w \in 1 .. width :
            /\ m = RowOf(q, width) /\ w = ColOf(q, width)
            /\ IsSlice(Fresh[q], WeightList[w], reads[m][1], reads[m][2])
    BY <1>1, FreshIs
  <1>3. PICK m2 \in 1 .. rows, w2 \in 1 .. width :
            /\ m2 = RowOf(l, width) /\ w2 = ColOf(l, width)
            /\ IsSlice(Fresh[l], WeightList[w2], reads[m2][1], reads[m2][2])
    BY <1>1, FreshIs
  <1>4. m # m2 \/ w # w2
    BY <1>1, <1>2, <1>3, FreshIs
  <1>5. WeightList[w] \in WeightsOf(job) /\ WeightList[w2] \in WeightsOf(job) /\ (w # w2 => WeightList[w] # WeightList[w2])
    BY <1>1, WeightListIs
  <1>6. /\ reads[m][1] \in Slots(job) /\ reads[m][2] \in Slots(job) /\ reads[m][1] <= reads[m][2]
        /\ reads[m2][1] \in Slots(job) /\ reads[m2][2] \in Slots(job) /\ reads[m2][1] <= reads[m2][2]
        /\ (m < m2 => reads[m][2] < reads[m2][1]) /\ (m2 < m => reads[m2][2] < reads[m][1])
    BY <1>1 DEF ReadsFit
  <1>7. m # m2 => m < m2 \/ m2 < m
    OBVIOUS
  <1> QED
    BY <1>2, <1>3, <1>4, <1>5, <1>6, <1>7, SlicesApart

\* What is asked for in a batch is what the batch needs, and the other batches stay as they are.
LEMMA EmitFetches ==
    ASSUME Emit, Opened, ranges \in Seq(RangeSet), b \in Nat, BatchSlots(b - 1) \subseteq Slots(job),
           ReadsFit(BatchSlots(b - 1)), RangesOf(b) = {}, NEW k, k = b \/ Fetches(k)
    PROVE  Fetches(k)'
  <1>1. PICK S \in SUBSET Slots(job) : S = BatchSlots(b - 1) /\ ReadsFit(S)
    OBVIOUS
  <1>2. /\ \A m : m # b => RangesOf(m)' = RangesOf(m) /\ \A z \in RangesOf(m) : ranges'[z] = ranges[z]
        /\ \A z \in RangesOf(b)' : \E q \in 1 .. Len(Fresh) : z = Len(ranges) + q /\ ranges'[z] = Fresh[q]
        /\ \A q \in 1 .. Len(Fresh) : Len(ranges) + q \in RangesOf(b)' /\ ranges'[Len(ranges) + q] = Fresh[q]
    BY <1>1, EmitBatches
  <1>3. /\ job' = job /\ layout' = layout /\ replay' = replay /\ b' = b
        /\ BatchSlots(k - 1)' = BatchSlots(k - 1)
    BY DEF Emit, searchVars, BatchSlots, BatchTokens
  <1>4. \A c, x, u, v : IsSlice(c, x, u, v)' <=> IsSlice(c, x, u, v)
    BY <1>3 DEF IsSlice
  <1>5. WeightsOf(job)' = WeightsOf(job) /\ Slots(job)' = Slots(job)
    BY <1>3
  <1>6. CASE k # b
    <2>1. Fetches(k) /\ RangesOf(k)' = RangesOf(k) /\ \A z \in RangesOf(k) : ranges'[z] = ranges[z]
      BY <1>2, <1>6
    <2> QED
      BY <1>3, <2>1 DEF Fetches, IsSlice
  <1>7. CASE k = b
    <2>1. RangesOf(k)' = RangesOf(b)'
      BY <1>3, <1>7 DEF RangesOf
    <2>2. PICK width \in Nat, rows \in Nat : width = Len(WeightList) /\ rows = Len(reads)
      BY WeightListIs DEF ReadsFit
    <2>3. ASSUME NEW z \in RangesOf(b)'
          PROVE  \E x \in WeightsOf(job) : \E u, v \in Slots(job) : u <= v /\ IsSlice(ranges'[z], x, u, v)
      <3>1. PICK q \in 1 .. Len(Fresh) : ranges'[z] = Fresh[q]
        BY <1>2
      <3>2. PICK m \in 1 .. rows, w \in 1 .. width : IsSlice(Fresh[q], WeightList[w], reads[m][1], reads[m][2])
        BY <1>1, <2>2, FreshIs
      <3>3. WeightList[w] \in WeightsOf(job)
        BY <2>2, WeightListIs
      <3>4. reads[m][1] \in Slots(job) /\ reads[m][2] \in Slots(job) /\ reads[m][1] <= reads[m][2]
        BY <1>1, <2>2 DEF ReadsFit
      <3> QED
        BY <3>1, <3>2, <3>3, <3>4
    <2>4. ASSUME NEW x \in WeightsOf(job), NEW slot \in S
          PROVE  \E z \in RangesOf(b)' : \E u, v \in Slots(job) : u <= slot /\ slot <= v /\ IsSlice(ranges'[z], x, u, v)
      <3>1. PICK m \in 1 .. rows : /\ reads[m][1] <= slot /\ slot <= reads[m][2]
                                   /\ reads[m][1] \in Slots(job) /\ reads[m][2] \in Slots(job)
        BY <1>1, <2>2 DEF ReadsFit
      <3>2. PICK w \in 1 .. width : WeightList[w] = x
        BY <2>2, WeightListIs
      <3>3. PICK q \in 1 .. Len(Fresh) : RowOf(q, width) = m /\ ColOf(q, width) = w
        BY <1>1, <2>2, FreshIs
      <3>4. IsSlice(Fresh[q], x, reads[m][1], reads[m][2])
        <4>1. \A l \in 1 .. Len(Fresh) :
                  IsSlice(Fresh[l], WeightList[ColOf(l, width)], reads[RowOf(l, width)][1], reads[RowOf(l, width)][2])
          BY <1>1, <2>2, FreshIs
        <4> QED
          BY <3>2, <3>3, <4>1
      <3>5. Len(ranges) + q \in RangesOf(b)' /\ ranges'[Len(ranges) + q] = Fresh[q]
        BY <1>2
      <3> QED
        BY <3>1, <3>4, <3>5
    <2>5. ASSUME NEW y \in RangesOf(b)', NEW z \in RangesOf(b)', y # z PROVE Apart(ranges'[y], ranges'[z])
      <3>1. PICK q \in 1 .. Len(Fresh) : y = Len(ranges) + q /\ ranges'[y] = Fresh[q]
        BY <1>2
      <3>2. PICK l \in 1 .. Len(Fresh) : z = Len(ranges) + l /\ ranges'[z] = Fresh[l]
        BY <1>2
      <3>3. q # l
        BY <2>5, <3>1, <3>2
      <3> QED
        BY <1>1, <3>1, <3>2, <3>3, FreshApart
    <2>6. S = BatchSlots(k - 1)'
      BY <1>1, <1>3, <1>7
    <2> QED
      BY <1>3, <1>4, <1>5, <2>1, <2>3, <2>4, <2>5, <2>6 DEF Fetches, IsSlice, Apart
  <1> QED
    BY <1>6, <1>7

-----------------------------------------------------------------------------
(* The replay *)

GP == INSTANCE GroupRunsProofs WITH Inputs <- {}, Costs <- {}, Limits <- {0}

\* Nothing is being grouped.
Rested == pc = "done" /\ runs = << >> /\ reads = << >> /\ r = 1

\* The batches whose reads have been asked for.
Finished == IF pc = "done" /\ runs = << >> THEN b ELSE b - 1

\* The slots of the batch are being grouped, or have been and not yet been asked for.
Grouping ==
    /\ GP!Sure
    /\ b # 0
    /\ slots = InOrder(BatchSlots(b - 1)) /\ BatchSlots(b - 1) # {}
    /\ cost = GroupCost
    /\ pc = "done" => runs # << >>

Replaying ==
    /\ Opened /\ replay \in Replays /\ IsOrder(job, layout)
    /\ b \in Nat
    /\ Rested \/ Grouping
    /\ ranges \in Seq(RangeSet)
    /\ \A z \in DOMAIN ranges : ranges[z].batch \in 1 .. Finished
    /\ \A k \in 1 .. Finished : Fetches(k)

PathInv ==
    /\ phase \in {"open", "search", "replay", "refused", "replayed"}
    /\ job \in Jobs
    /\ limit = 0 /\ start \in Nat /\ prev \in Nat /\ a \in Nat
    /\ phase = "search" => Opens
    /\ phase \in {"open", "search", "refused"} => Rested
    /\ phase \in {"replay", "replayed"} => Replaying
    /\ phase = "replayed" => Rested /\ b = BatchCount

\* The loop is that of GroupRuns.
LEMMA SameLoop == G!Next <=> GP!Next
  BY DEF G!Next, G!Empty, G!Begin, G!Bridge, G!Cut, G!LastRun, G!SplitRead, G!Finish, G!Gap, G!MaxGap, G!input, G!ReadEnd,
         GP!Next, GP!Empty, GP!Begin, GP!Bridge, GP!Cut, GP!LastRun, GP!SplitRead, GP!Finish, GP!Gap, GP!MaxGap, GP!input, GP!ReadEnd

\* The slots of a batch.
LEMMA BatchIs ==
    ASSUME Opened, IsOrder(job, layout), NEW k
    PROVE  BatchSlots(k) \subseteq Slots(job) /\ BatchSlots(k) \in SUBSET Nat /\ IsFiniteSet(BatchSlots(k))
  <1>1. BatchSlots(k) \subseteq Slots(job)
    BY DEF BatchSlots, SlotsOf, IsOrder
  <1>2. PICK n \in Nat \ {0} : Slots(job) = 0 .. n - 1
    BY OpenedIs
  <1>3. PICK D : D = 0 .. n - 1
    OBVIOUS
  <1>4. IsFiniteSet(D) /\ D \in SUBSET Nat
    BY <1>3, FS_Interval
  <1> QED
    BY <1>1, <1>2, <1>3, <1>4, FS_Subset

\* The cost model of the grouping.
LEMMA GroupCostIs ==
    ASSUME job \in Jobs, replay \in Replays
    PROVE  GroupCost.fetch \in Nat /\ GroupCost.byte \in Nat
  <1>1. CASE replay.gap = NoGap
    <2>1. PICK tensors \in Nat, bytes \in Nat, fetch \in Nat, byte \in Nat :
              tensors = GeomOf(job).tensors /\ bytes = GeomOf(job).bytes /\ fetch = job.cm.fetch /\ byte = job.cm.byte
      BY GeomIs, ModelAssumption
    <2>2. tensors * fetch \in Nat /\ bytes * byte \in Nat
      OBVIOUS
    <2> QED
      BY <1>1, <2>1, <2>2 DEF GroupCost
  <1>2. CASE replay.gap # NoGap
    <2>1. replay.gap \in Nat
      BY <1>2, ReplaysAssumption
    <2> QED
      BY <1>2, <2>1 DEF GroupCost
  <1> QED
    BY <1>1, <1>2

\* What the loop comes to, as GroupRunsProofs has it.
LEMMA LoopResult == ASSUME GP!Sure, pc = "done", limit = 0, Len(slots) # 0 PROVE GP!Outcome
  <1>1. {0} \subseteq Nat
    OBVIOUS
  <1>2. (\A c \in {} : c.fetch \in Nat /\ c.byte \in Nat) /\ (\A q \in {} : q \in Seq(Nat) /\ GP!IsIncreasing(q))
    OBVIOUS
  <1> QED
    BY <1>1, <1>2, GP!Result, Zenon

\* What the grouping of a batch comes to.
LEMMA GroupingIs ==
    ASSUME Replaying, Grouping, limit = 0, pc = "done"
    PROVE  ReadsFit(BatchSlots(b - 1)) /\ runs # << >>
  <1>1. PICK S : S = BatchSlots(b - 1) /\ S \in SUBSET Nat /\ IsFiniteSet(S)
    BY BatchIs DEF Replaying
  <1>2. slots = InOrder(S) /\ S # {}
    BY <1>1 DEF Grouping
  <1>3. PICK q, n : q = slots /\ n = Len(q) /\ Lists(q, S) /\ n \in Nat /\ n # 0
    <2>1. Lists(slots, S)
      BY <1>1, <1>2, InOrderLists
    <2>2. Len(slots) = Cardinality(S) /\ Len(slots) \in Nat
      BY <2>1 DEF Lists
    <2>3. Len(slots) # 0
      BY <1>1, <1>2, <2>2, FS_EmptySet
    <2> QED
      BY <2>1, <2>2, <2>3
  <1>4. (\A j \in 1 .. n : q[j] \in S) /\ \A x \in S : \E j \in 1 .. n : q[j] = x
    BY <1>1, <1>3, ListsAll
  <1>5. GP!Sure /\ n = Len(slots)
    BY <1>3 DEF Grouping
  <1>6. /\ reads \in Seq(Nat \X Nat)
        /\ \A m \in 1 .. Len(reads) : reads[m][1] \in GP!Wanted /\ reads[m][2] \in GP!Wanted /\ reads[m][1] <= reads[m][2]
        /\ \A m, l \in 1 .. Len(reads) : m < l => reads[m][2] < reads[l][1]
        /\ \A j \in 1 .. n : \E m \in 1 .. Len(reads) : reads[m][1] <= slots[j] /\ slots[j] <= reads[m][2]
        /\ runs # << >>
    <2>1. GP!Outcome
      BY <1>3, <1>5, LoopResult
    <2> QED
      BY <1>3, <2>1 DEF GP!Outcome
  <1>7. GP!Wanted = S
    <2>1. GP!Wanted = {slots[j] : j \in 1 .. n}
      BY <1>3 DEF GP!Wanted
    <2> QED
      BY <1>3, <1>4, <2>1
  <1>8. \A x \in S : \E m \in 1 .. Len(reads) : reads[m][1] <= x /\ x <= reads[m][2]
    <2> TAKE x \in S
    <2>1. PICK j \in 1 .. n : slots[j] = x
      BY <1>3, <1>4
    <2> QED
      BY <1>6, <2>1
  <1>9. ReadsFit(S)
    BY <1>6, <1>7, <1>8 DEF ReadsFit
  <1> QED
    BY <1>1, <1>6, <1>9

\* Steps that leave the batches, their slots and their ranges alone.
Unmoved == UNCHANGED <<job, replay, layout, ranges>>

\* They keep the batches as they are.
LEMMA UnmovedKeeps ==
    ASSUME Unmoved
    PROVE  /\ Opened => Opened'
           /\ IsOrder(job, layout) => IsOrder(job, layout)'
           /\ BatchCount' = BatchCount
           /\ GroupCost' = GroupCost
           /\ \A k : BatchSlots(k)' = BatchSlots(k) /\ (Fetches(k) => Fetches(k)')
  <1>1. job' = job /\ replay' = replay /\ layout' = layout /\ ranges' = ranges
    BY DEF Unmoved
  <1>2. BatchCount' = BatchCount
    BY <1>1 DEF BatchCount
  <1>3. GroupCost' = GroupCost
    BY <1>1 DEF GroupCost
  <1>4. \A k : BatchSlots(k)' = BatchSlots(k)
    BY <1>1 DEF BatchSlots, BatchTokens
  <1>5. ASSUME NEW k, Fetches(k) PROVE Fetches(k)'
    <2>1. RangesOf(k)' = RangesOf(k)
      BY <1>1 DEF RangesOf
    <2>2. BatchSlots(k - 1)' = BatchSlots(k - 1)
      BY <1>4
    <2> QED
      BY <1>1, <1>5, <2>1, <2>2 DEF Fetches, IsSlice
  <1>6. (Opened => Opened') /\ (IsOrder(job, layout) => IsOrder(job, layout)')
    BY <1>1 DEF Opened, Opens, IsOrder
  <1> QED
    BY <1>2, <1>3, <1>4, <1>5, <1>6

\* What changes when a batch has nothing to read.
LEMMA NothingToFetch ==
    ASSUME NEW k, RangesOf(k) = {}, BatchSlots(k - 1) = {}
    PROVE  Fetches(k)
  BY DEF Fetches

\* The invariant holds at the start, and every step keeps it.
LEMMA PathStarts == Init => PathInv
  BY DEF Init, SearchInit, PathInv, Rested

LEMMA OpenKeeps == ASSUME PathInv, Open PROVE PathInv'
  <1>1. phase = "open" /\ (phase' = "search" \/ phase' = "refused") /\ (phase' = "search" => Opens)
        /\ UNCHANGED <<searchVars, replayVars>>
    BY DEF Open
  <1>2. job' = job /\ pc' = pc /\ runs' = runs /\ reads' = reads /\ r' = r
        /\ limit' = limit /\ start' = start /\ prev' = prev /\ a' = a
    BY <1>1 DEF searchVars, replayVars, groupVars
  <1>3. Opens => Opens'
    BY <1>2 DEF Opens
  <1> QED
    BY <1>1, <1>2, <1>3 DEF PathInv, Rested

LEMMA SearchKeeps == ASSUME PathInv, Search PROVE PathInv'
  <1>1. phase = "search" /\ SearchNext /\ UNCHANGED <<phase, replayVars>>
    BY DEF Search
  <1>2. job' = job
    BY <1>1 DEF SearchNext, Seed, TrySwap, StartMoves, TryMove, EndSweep
  <1>3. phase' = phase /\ pc' = pc /\ runs' = runs /\ reads' = reads /\ r' = r
        /\ limit' = limit /\ start' = start /\ prev' = prev /\ a' = a
    BY <1>1 DEF replayVars, groupVars
  <1>4. Opens => Opens'
    BY <1>2 DEF Opens
  <1> QED
    BY <1>1, <1>2, <1>3, <1>4 DEF PathInv, Rested

\* Every layout saved is an order.
LEMMA SavedAreOrders ==
    ASSUME IInv, stage = "done", NEW order \in Saved
    PROVE  IsOrder(job, order)
  <1>1. job \in Jobs /\ IsOrder(job, p) /\ mincut \in Bisected(job)
    BY DEF IInv, Held
  <1>2. PICK n : n = job.n /\ n \in Nat \ {0} /\ Slots(job) = 0 .. n - 1
    BY <1>1, JobsAssumption DEF Slots
  <1>3. IsOrder(job, FrequencyOrder(job)) /\ IsOrder(job, Chain(job)) /\ IsOrder(job, mincut)
    BY <1>1, FrequencyIsOrder, ChainIsOrder, SeedsAssumption
  <1>4. IsOrder(job, [x \in Slots(job) |-> x])
    BY <1>2 DEF IsOrder
  <1>5. IsOrder(job, [x \in Slots(job) |-> job.n - 1 - x])
    BY <1>2 DEF IsOrder
  <1> QED
    BY <1>1, <1>3, <1>4, <1>5 DEF Saved

LEMMA StartReplayKeeps == ASSUME PathInv, IInv, StartReplay PROVE PathInv'
  <1>1. /\ phase = "search" /\ stage = "done" /\ phase' = "replay"
        /\ b' = 0 /\ ranges' = << >>
        /\ job' = job /\ pc' = pc /\ runs' = runs /\ reads' = reads /\ r' = r
        /\ limit' = limit /\ start' = start /\ prev' = prev /\ a' = a
    BY DEF StartReplay, searchVars, groupVars
  <1>2. Rested /\ Opens /\ job \in Jobs /\ limit = 0 /\ start \in Nat /\ prev \in Nat /\ a \in Nat
    BY <1>1 DEF PathInv
  <1>3. PICK order \in Saved, args \in Replays : layout' = order /\ replay' = args
    BY DEF StartReplay
  <1>4. IsOrder(job, layout)'
    <2>1. IsOrder(job, order)
      BY <1>1, SavedAreOrders
    <2> QED
      BY <1>1, <1>3, <2>1
  <1>5. Opened'
    BY <1>1, <1>2 DEF Opened, Opens
  <1>6. Rested' /\ Finished' = 0
    BY <1>1, <1>2 DEF Rested, Finished
  <1>7. Replaying'
    <2>1. b' \in Nat /\ ranges' \in Seq(RangeSet) /\ DOMAIN ranges' = {} /\ 1 .. 0 = {}
      BY <1>1
    <2>2. replay' \in Replays
      BY <1>3
    <2> QED
      BY <1>4, <1>5, <1>6, <2>1, <2>2 DEF Replaying
  <1> QED
    BY <1>1, <1>2, <1>6, <1>7 DEF PathInv

LEMMA StartBatchKeeps == ASSUME PathInv, StartBatch PROVE PathInv'
  <1>1. /\ phase = "replay" /\ pc = "done" /\ runs = << >> /\ b' = b + 1
        /\ UNCHANGED <<searchVars, phase, replay, layout, ranges>>
        /\ IF BatchSlots(b) = {} THEN UNCHANGED groupVars
           ELSE /\ slots' = InOrder(BatchSlots(b)) /\ cost' = GroupCost
                /\ i' = 1 /\ pc' = "begin"
                /\ UNCHANGED <<limit, start, prev, runs, r, a, reads>>
    BY DEF StartBatch
  <1>2. /\ job \in Jobs /\ limit = 0 /\ start \in Nat /\ prev \in Nat /\ a \in Nat
        /\ Replaying /\ b \in Nat /\ ranges \in Seq(RangeSet)
        /\ Opened /\ replay \in Replays /\ IsOrder(job, layout)
    BY <1>1 DEF PathInv, Replaying
  <1>3. Rested
    BY <1>1, <1>2 DEF Replaying, Grouping
  <1>4. Finished = b
    BY <1>3 DEF Rested, Finished
  <1>5. Unmoved /\ phase' = phase /\ job' = job /\ ranges' = ranges /\ limit' = 0 /\ start' = start /\ prev' = prev /\ a' = a
    BY <1>1, <1>2 DEF Unmoved, searchVars, groupVars
  <1>6. /\ Opened' /\ IsOrder(job, layout)' /\ GroupCost' = GroupCost
        /\ \A k : BatchSlots(k)' = BatchSlots(k) /\ (Fetches(k) => Fetches(k)')
    BY <1>2, <1>5, UnmovedKeeps
  <1>7. /\ \A z \in DOMAIN ranges : ranges[z].batch \in 1 .. b
        /\ \A k \in 1 .. b : Fetches(k)
    BY <1>2, <1>4 DEF Replaying
  <1>8. b' \in Nat /\ replay' \in Replays /\ ranges' \in Seq(RangeSet) /\ b' # 0 /\ b' - 1 = b
    BY <1>1, <1>2
  <1>9. CASE BatchSlots(b) = {}
    <2>1. Rested' /\ Finished' = b + 1
      BY <1>1, <1>3, <1>9 DEF Rested, Finished, groupVars
    <2>2. \A z \in DOMAIN ranges' : ranges'[z].batch \in 1 .. Finished'
      BY <1>2, <1>5, <1>7, <2>1
    <2>3. ASSUME NEW k, k = b + 1 PROVE Fetches(k)'
      <3>1. k - 1 = b
        BY <1>2, <2>3
      <3>2. RangesOf(k) = {}
        BY <1>2, <1>7, <2>3 DEF RangesOf
      <3>3. BatchSlots(k - 1) = {}
        BY <1>9, <3>1
      <3> QED
        BY <1>6, <3>2, <3>3, NothingToFetch
    <2>4. \A k \in 1 .. Finished' : Fetches(k)'
      <3> SUFFICES ASSUME NEW k \in 1 .. b + 1 PROVE Fetches(k)'
        BY <2>1
      <3>1. CASE k \in 1 .. b
        BY <1>6, <1>7, <3>1
      <3>2. CASE k = b + 1
        BY <2>3, <3>2
      <3> QED
        BY <1>2, <3>1, <3>2
    <2> QED
      BY <1>1, <1>2, <1>5, <1>6, <1>8, <2>1, <2>2, <2>4 DEF PathInv, Replaying
  <1>10. CASE BatchSlots(b) # {}
    <2>1. /\ slots' = InOrder(BatchSlots(b)) /\ cost' = GroupCost /\ i' = 1 /\ pc' = "begin"
          /\ runs' = << >> /\ reads' = << >> /\ r' = 1
      BY <1>1, <1>3, <1>10 DEF Rested
    <2>2. slots' \in Seq(Nat) /\ GP!IsIncreasing(slots')
      <3>1. PICK S : S = BatchSlots(b) /\ S \in SUBSET Nat /\ IsFiniteSet(S)
        BY <1>2, BatchIs
      <3>2. PICK q : q = InOrder(S) /\ slots' = q /\ Lists(q, S)
                     /\ \A k, m \in 1 .. Cardinality(S) : k < m => q[k] < q[m]
        BY <2>1, <3>1, InOrderLists
      <3>3. q \in Seq(S) /\ Len(q) = Cardinality(S)
        BY <3>2 DEF Lists
      <3>4. q \in Seq(Nat)
        BY <3>1, <3>3
      <3>5. GP!IsIncreasing(q)
        BY <3>2, <3>3 DEF GP!IsIncreasing
      <3> QED
        BY <3>2, <3>4, <3>5
    <2>3. cost'.fetch \in Nat /\ cost'.byte \in Nat
      BY <1>2, <2>1, GroupCostIs
    <2>4. GP!Sure'
      <3>1. start' \in Nat /\ prev' \in Nat /\ a' \in Nat /\ limit' \in Nat
        BY <1>2, <1>5
      <3>2. {0} \subseteq Nat
        OBVIOUS
      <3>3. (\A c \in {} : c.fetch \in Nat /\ c.byte \in Nat) /\ (\A q \in {} : q \in Seq(Nat) /\ GP!IsIncreasing(q))
        OBVIOUS
      <3> QED
        BY <2>1, <2>2, <2>3, <3>1, <3>2, <3>3, GP!StartsSure, Zenon
    <2>5. BatchSlots(b - 1)' = BatchSlots(b)
      BY <1>1, <1>5, <1>8 DEF BatchSlots, BatchTokens, Unmoved
    <2>6. Grouping'
      <3>1. slots' = InOrder(BatchSlots(b - 1)') /\ BatchSlots(b - 1)' # {} /\ cost' = GroupCost'
        BY <1>6, <1>10, <2>1, <2>5
      <3> QED
        BY <1>8, <2>1, <2>4, <3>1 DEF Grouping
    <2>7. Finished' = b
      BY <1>8, <2>1 DEF Finished
    <2>8. (\A z \in DOMAIN ranges' : ranges'[z].batch \in 1 .. Finished') /\ \A k \in 1 .. Finished' : Fetches(k)'
      BY <1>5, <1>6, <1>7, <2>7
    <2> QED
      BY <1>1, <1>2, <1>5, <1>6, <1>8, <2>6, <2>8 DEF PathInv, Replaying
  <1> QED
    BY <1>9, <1>10

\* A step of the loop leaves the slots grouped and the costs alone; there is none at its end.
LEMMA LoopSteps ==
    ASSUME GP!Next
    PROVE  slots' = slots /\ cost' = cost /\ limit' = limit /\ pc # "done"
  BY DEF GP!Next, GP!Empty, GP!Begin, GP!Bridge, GP!Cut, GP!LastRun, GP!SplitRead, GP!Finish, GP!input

LEMMA GroupKeeps == ASSUME PathInv, Group PROVE PathInv' /\ Finished' = Finished
  <1>1. phase = "replay" /\ GP!Next /\ UNCHANGED <<searchVars, phase, replay, layout, b, ranges>>
    BY SameLoop DEF Group
  <1>2. slots' = slots /\ cost' = cost /\ limit' = limit /\ pc # "done"
    BY <1>1, LoopSteps
  <1>3. /\ job \in Jobs /\ limit = 0
        /\ Replaying /\ b \in Nat /\ ranges \in Seq(RangeSet)
        /\ Opened /\ replay \in Replays /\ IsOrder(job, layout)
    BY <1>1 DEF PathInv, Replaying
  <1>4. Grouping
    BY <1>2, <1>3 DEF Replaying, Rested
  <1>5. GP!Sure'
    <2>1. {0} \subseteq Nat
      OBVIOUS
    <2>2. (\A c \in {} : c.fetch \in Nat /\ c.byte \in Nat) /\ (\A q \in {} : q \in Seq(Nat) /\ GP!IsIncreasing(q))
      OBVIOUS
    <2> QED
      BY <1>1, <1>4, <2>1, <2>2, GP!StaysSure DEF Grouping
  <1>6. start' \in Nat /\ prev' \in Nat /\ a' \in Nat
    BY <1>5 DEF GP!Sure, GP!IInv, GP!TypeOK
  <1>7. Unmoved /\ phase' = phase /\ job' = job /\ b' = b /\ replay' = replay /\ ranges' = ranges
    BY <1>1 DEF Unmoved, searchVars
  <1>8. /\ Opened' /\ IsOrder(job, layout)' /\ GroupCost' = GroupCost
        /\ \A k : BatchSlots(k)' = BatchSlots(k) /\ (Fetches(k) => Fetches(k)')
    BY <1>3, <1>7, UnmovedKeeps
  <1>9. b # 0 /\ slots = InOrder(BatchSlots(b - 1)) /\ BatchSlots(b - 1) # {} /\ cost = GroupCost
    BY <1>4 DEF Grouping
  <1>10. slots # << >>
    <2>1. PICK S : S = BatchSlots(b - 1) /\ S \in SUBSET Nat /\ IsFiniteSet(S)
      BY <1>3, BatchIs
    <2>2. Len(slots) = Cardinality(S)
      BY <1>9, <2>1, InOrderLists DEF Lists
    <2>3. Cardinality(S) # 0
      BY <1>9, <2>1, FS_EmptySet
    <2> QED
      BY <2>2, <2>3
  <1>11. pc' = "done" => runs' # << >>
    BY <1>2, <1>5, <1>10 DEF GP!Sure, GP!Complete
  <1>12. Grouping'
    <2>1. BatchSlots(b - 1)' = BatchSlots(b - 1)
      BY <1>7, <1>8
    <2> QED
      BY <1>2, <1>5, <1>7, <1>8, <1>9, <1>11, <2>1 DEF Grouping
  <1>13. Finished = b - 1 /\ Finished' = b - 1
    BY <1>2, <1>7, <1>11 DEF Finished
  <1>14. (\A z \in DOMAIN ranges' : ranges'[z].batch \in 1 .. Finished') /\ \A k \in 1 .. Finished' : Fetches(k)'
    BY <1>3, <1>7, <1>8, <1>13 DEF Replaying
  <1> QED
    BY <1>1, <1>2, <1>3, <1>6, <1>7, <1>8, <1>12, <1>13, <1>14 DEF PathInv, Replaying

LEMMA EmitKeeps == ASSUME PathInv, Emit PROVE PathInv'
  <1>1. /\ phase = "replay" /\ pc = "done" /\ runs # << >>
        /\ runs' = << >> /\ reads' = << >> /\ r' = 1
        /\ phase' = phase /\ job' = job /\ replay' = replay /\ layout' = layout /\ b' = b /\ pc' = pc
        /\ limit' = limit /\ start' = start /\ prev' = prev /\ a' = a
    BY DEF Emit, searchVars
  <1>2. /\ job \in Jobs /\ limit = 0 /\ start \in Nat /\ prev \in Nat /\ a \in Nat
        /\ Replaying /\ b \in Nat /\ ranges \in Seq(RangeSet)
        /\ Opened /\ replay \in Replays /\ IsOrder(job, layout)
    BY <1>1 DEF PathInv, Replaying
  <1>3. Grouping
    BY <1>1, <1>2 DEF Replaying, Rested
  <1>4. b # 0 /\ Finished = b - 1
    BY <1>1, <1>3 DEF Grouping, Finished
  <1>5. /\ \A z \in DOMAIN ranges : ranges[z].batch \in 1 .. b - 1
        /\ \A k \in 1 .. b - 1 : Fetches(k)
    BY <1>2, <1>4 DEF Replaying
  <1>6. RangesOf(b) = {}
    BY <1>2, <1>5 DEF RangesOf
  <1>7. ReadsFit(BatchSlots(b - 1))
    BY <1>1, <1>2, <1>3, GroupingIs
  <1>8. PICK S : S = BatchSlots(b - 1) /\ S \in SUBSET Slots(job) /\ ReadsFit(S)
    BY <1>2, <1>7, BatchIs
  <1>9. /\ ranges' \in Seq(RangeSet)
        /\ \A z \in DOMAIN ranges' : (z \in DOMAIN ranges /\ ranges'[z] = ranges[z]) \/ ranges'[z].batch = b
    BY <1>2, <1>6, <1>8, EmitAdds, EmitBatches
  <1>10. Rested' /\ Finished' = b
    BY <1>1 DEF Rested, Finished
  <1>11. \A z \in DOMAIN ranges' : ranges'[z].batch \in 1 .. b
    BY <1>2, <1>4, <1>5, <1>9
  <1>12. ASSUME NEW k \in 1 .. b PROVE Fetches(k)'
    <2>1. k = b \/ Fetches(k)
      BY <1>2, <1>4, <1>5
    <2>2. BatchSlots(b - 1) \subseteq Slots(job)
      BY <1>2, BatchIs
    <2> QED
      BY <1>2, <1>6, <1>7, <2>1, <2>2, EmitFetches
  <1>13. Opened' /\ IsOrder(job, layout)'
    BY <1>1, <1>2 DEF Opened, Opens, IsOrder
  <1>14. Replaying'
    BY <1>1, <1>2, <1>9, <1>10, <1>11, <1>12, <1>13 DEF Replaying
  <1> QED
    BY <1>1, <1>2, <1>10, <1>14 DEF PathInv

\* Steps that leave everything but the phase alone.
LEMMA StandsStill ==
    ASSUME Replaying, searchVars' = searchVars, replayVars' = replayVars
    PROVE  Replaying' /\ (Rested => Rested')
  <1>1. /\ job' = job /\ replay' = replay /\ layout' = layout /\ b' = b /\ ranges' = ranges
        /\ slots' = slots /\ cost' = cost /\ limit' = limit /\ i' = i /\ start' = start /\ prev' = prev
        /\ runs' = runs /\ r' = r /\ a' = a /\ reads' = reads /\ pc' = pc
    BY DEF searchVars, replayVars, groupVars
  <1>2. Unmoved
    BY <1>1 DEF Unmoved
  <1>3. /\ Opened' /\ IsOrder(job, layout)' /\ GroupCost' = GroupCost
        /\ \A k : BatchSlots(k)' = BatchSlots(k) /\ (Fetches(k) => Fetches(k)')
    BY <1>2, UnmovedKeeps DEF Replaying
  <1>4. Rested => Rested'
    BY <1>1 DEF Rested
  <1>5. Finished' = Finished
    BY <1>1 DEF Finished
  <1>6. Grouping => Grouping'
    <2>1. GP!Sure => GP!Sure'
      <3>1. UNCHANGED GP!vars
        BY <1>1 DEF GP!vars
      <3>2. {0} \subseteq Nat
        OBVIOUS
      <3>3. (\A c \in {} : c.fetch \in Nat /\ c.byte \in Nat) /\ (\A q \in {} : q \in Seq(Nat) /\ GP!IsIncreasing(q))
        OBVIOUS
      <3> QED
        BY <3>1, <3>2, <3>3, GP!SureStill
    <2>2. BatchSlots(b - 1)' = BatchSlots(b - 1)
      BY <1>1, <1>3
    <2> QED
      BY <1>1, <1>3, <2>1, <2>2 DEF Grouping
  <1>7. (\A z \in DOMAIN ranges' : ranges'[z].batch \in 1 .. Finished') /\ \A k \in 1 .. Finished' : Fetches(k)'
    BY <1>1, <1>3, <1>5 DEF Replaying
  <1> QED
    BY <1>1, <1>3, <1>4, <1>6, <1>7 DEF Replaying

LEMMA EndReplayKeeps == ASSUME PathInv, EndReplay PROVE PathInv'
  <1>1. /\ phase = "replay" /\ pc = "done" /\ runs = << >> /\ b = BatchCount /\ phase' = "replayed"
        /\ searchVars' = searchVars /\ replayVars' = replayVars
    BY DEF EndReplay
  <1>2. /\ job' = job /\ replay' = replay /\ b' = b /\ limit' = limit /\ start' = start /\ prev' = prev /\ a' = a
    BY <1>1 DEF searchVars, replayVars, groupVars
  <1>3. Replaying
    BY <1>1 DEF PathInv
  <1>4. Rested
    BY <1>1, <1>3 DEF Replaying, Grouping
  <1>5. Replaying' /\ Rested'
    BY <1>1, <1>3, <1>4, StandsStill
  <1>6. b' = BatchCount'
    BY <1>1, <1>2 DEF BatchCount
  <1> QED
    BY <1>1, <1>2, <1>5, <1>6 DEF PathInv

LEMMA PathStill == ASSUME PathInv, UNCHANGED vars PROVE PathInv'
  <1>1. searchVars' = searchVars /\ phase' = phase /\ replayVars' = replayVars
    BY DEF vars
  <1>2. /\ job' = job /\ replay' = replay /\ b' = b /\ limit' = limit /\ start' = start /\ prev' = prev /\ a' = a
        /\ pc' = pc /\ runs' = runs /\ reads' = reads /\ r' = r
    BY <1>1 DEF searchVars, replayVars, groupVars
  <1>3. Opens => Opens'
    BY <1>2 DEF Opens
  <1>4. (Rested => Rested') /\ BatchCount' = BatchCount
    BY <1>2 DEF Rested, BatchCount
  <1>5. Replaying => Replaying'
    BY <1>1, StandsStill
  <1> QED
    BY <1>1, <1>2, <1>3, <1>4, <1>5 DEF PathInv

\* PathInv is an invariant.
LEMMA PathInvariance == Spec => []PathInv
  <1>1. PathInv /\ IInv /\ [Next]_vars => PathInv'
    BY OpenKeeps, SearchKeeps, StartReplayKeeps, StartBatchKeeps, GroupKeeps, EmitKeeps, EndReplayKeeps, PathStill DEF Next
  <1> QED
    BY <1>1, PathStarts, SearchesTheorem, Invariance, PTL DEF Spec

\* Once the replay is over, each byte of an expert that a batch routed to has been read once in
\* each weight tensor, and nothing but experts' slices has been read (build_ranges under any
\* layout saved, whatever the trace, the table and the replay's arguments).
THEOREM BytesWantedTheorem == Spec => []BytesWanted
  <1>1. ASSUME PathInv PROVE BytesWanted
    <2>1. CASE phase # "replayed"
      BY <2>1 DEF BytesWanted
    <2>2. CASE phase = "replayed"
      <3>1. Replaying /\ Rested /\ b = BatchCount
        BY <1>1, <2>2 DEF PathInv
      <3>2. Finished = BatchCount
        BY <3>1 DEF Rested, Finished
      <3> QED
        BY <3>1, <3>2, AllFetched DEF Replaying
    <2> QED
      BY <2>1, <2>2
  <1> QED
    BY <1>1, PathInvariance, PTL

-----------------------------------------------------------------------------
(* What the grouping of a batch costs *)

\* The sums and sizes of the instance are the same as here.
LEMMA SameSum == ASSUME NEW w, NEW S PROVE GP!SumOver(w, S) = SumOver(w, S)
  BY DEF GP!SumOver, SumOver, GP!MapThenSumSet, MapThenSumSet, GP!MapThenFoldSet, MapThenFoldSet

LEMMA SameCardinality == ASSUME NEW S PROVE GP!Cardinality(S) = Cardinality(S)
  BY DEF GP!Cardinality, Cardinality, GP!IsFiniteSet, IsFiniteSet

\* A list of a set in ascending order.
Ascending(q, S) ==
    /\ Lists(q, S)
    /\ \A k, m \in 1 .. Cardinality(S) : k < m => q[k] < q[m]

\* In such a list the slot below is the one before.
Succeeds(q, S, j) ==
    /\ Len(q) \in Nat /\ q[j] \in S /\ q[j] \in Nat
    /\ j = 1 => Below(S, q[j]) = {}
    /\ j # 1 => /\ Below(S, q[j]) # {} /\ Distance(S, q[j]) = q[j] - q[j - 1]
                /\ j - 1 \in 1 .. Len(q) /\ q[j - 1] \in Nat

\* A list in order has the slot below just before.
LEMMA BelowInList ==
    ASSUME NEW S \in SUBSET Nat, IsFiniteSet(S), NEW q, Ascending(q, S), NEW j \in 1 .. Len(q)
    PROVE  Succeeds(q, S, j)
  <1>7. PICK n : n = Len(q) /\ j \in 1 .. n
    OBVIOUS
  <1>1. n \in Nat /\ n = Cardinality(S) /\ \A k, m \in 1 .. n : k < m => q[k] < q[m]
    BY <1>7, ListsAll DEF Ascending, Lists
  <1>2. (\A k \in 1 .. n : q[k] \in S) /\ \A x \in S : \E k \in 1 .. n : q[k] = x
    BY <1>7, ListsAll DEF Ascending
  <1>3. \A k \in 1 .. n : q[k] \in Nat
    BY <1>2
  <1>4. \A y \in Below(S, q[j]) : \E k \in 1 .. n : q[k] = y /\ k < j
    <2> TAKE y \in Below(S, q[j])
    <2>1. y \in S /\ y < q[j]
      BY DEF Below
    <2>2. PICK k \in 1 .. n : q[k] = y
      BY <1>2, <2>1
    <2>3. k < j
      <3>1. SUFFICES ASSUME k >= j PROVE FALSE
        BY <1>1
      <3>2. q[j] <= q[k]
        BY <1>1, <1>3, <3>1
      <3> QED
        BY <1>7, <1>3, <2>1, <2>2, <3>2
    <2> QED
      BY <2>2, <2>3
  <1>5. CASE j = 1
    <2>1. Below(S, q[j]) = {}
      BY <1>1, <1>4, <1>5
    <2> QED
      BY <1>1, <1>2, <1>3, <1>5, <1>7, <2>1 DEF Succeeds
  <1>6. CASE j # 1
    <2>1. j - 1 \in 1 .. n /\ q[j - 1] \in S /\ q[j - 1] \in Nat /\ q[j - 1] < q[j]
      BY <1>7, <1>1, <1>2, <1>3, <1>6
    <2>2. q[j - 1] \in Below(S, q[j])
      BY <2>1 DEF Below
    <2>3. S \in SUBSET Int /\ q[j] \in S
      BY <1>7, <1>2
    <2>4. PICK d : d = Distance(S, q[j])
      OBVIOUS
    <2>5. d \in Nat /\ d <= q[j] - q[j - 1]
      BY <2>2, <2>3, <2>4, DistanceIs
    <2>6. PICK y \in Below(S, q[j]) : d = q[j] - y
      BY <2>2, <2>3, <2>4, DistanceIs
    <2>7. PICK k \in 1 .. n : q[k] = y /\ k < j
      BY <1>4, <2>6
    <2>8. q[k] <= q[j - 1]
      <3>1. CASE k = j - 1
        BY <2>1, <3>1
      <3>2. CASE k # j - 1
        <4>1. k < j - 1
          BY <1>1, <2>7, <3>2
        <4> QED
          BY <1>1, <1>3, <2>1, <4>1
      <3> QED
        BY <3>1, <3>2
    <2>9. d = q[j] - q[j - 1]
      BY <1>7, <1>3, <2>1, <2>5, <2>6, <2>7, <2>8
    <2> QED
      BY <1>1, <1>2, <1>3, <1>6, <1>7, <2>1, <2>2, <2>4, <2>9 DEF Succeeds
  <1> QED
    BY <1>5, <1>6

\* Whether the loop begins a run with a slot is whether coact begins a group with it.
LEMMA LoopBegins ==
    ASSUME NEW S \in SUBSET Nat, IsFiniteSet(S), Ascending(slots, S), NEW gap, gap = GP!Gap,
           NEW n, n = Len(slots), NEW j \in 1 .. n
    PROVE  /\ slots[j] \in S
           /\ GP!Starts(j) <=> Begins(S, slots[j], gap)
           /\ GP!Widths[j] = Width(S, gap)[slots[j]] /\ GP!Widths[j] \in Nat
  <1>1. /\ n \in Nat /\ slots[j] \in S /\ slots[j] \in Nat
        /\ j = 1 => Below(S, slots[j]) = {}
        /\ j # 1 => /\ Below(S, slots[j]) # {} /\ Distance(S, slots[j]) = slots[j] - slots[j - 1]
                    /\ j - 1 \in 1 .. n /\ slots[j - 1] \in Nat
    <2>1. Succeeds(slots, S, j)
      BY BelowInList
    <2> QED
      BY <2>1 DEF Succeeds
  <1>2. CASE j = 1
    <2>1. GP!Starts(j) /\ Begins(S, slots[j], gap)
      BY <1>1, <1>2 DEF GP!Starts, Begins
    <2>2. GP!Widths[j] = 1
      BY <1>2, <2>1 DEF GP!Widths
    <2>3. Width(S, gap)[slots[j]] = 1
      BY <1>1, <2>1 DEF Width
    <2> QED
      BY <1>1, <2>1, <2>2, <2>3
  <1>3. CASE j # 1
    <2>1. PICK d : d = Distance(S, slots[j]) /\ d = slots[j] - slots[j - 1]
      BY <1>1, <1>3
    <2>2. GP!Gaps[j - 1] = slots[j] - slots[j - 1] - 1
      <3>1. j - 1 \in 1 .. n - 1 /\ (j - 1) + 1 = j
        BY <1>1, <1>3
      <3> QED
        BY <3>1 DEF GP!Gaps
    <2>3. d \in Nat
      <3>1. S \in SUBSET Int /\ slots[j] \in S /\ Below(S, slots[j]) # {}
        BY <1>1, <1>3
      <3> QED
        BY <2>1, <3>1, DistanceIs
    <2>4. GP!Gaps[j - 1] = d - 1 /\ GP!Gaps[j - 1] + 1 = d
      BY <1>1, <1>3, <2>1, <2>2
    <2>5. GP!Starts(j) <=> d - 1 > gap
      BY <1>3, <2>4 DEF GP!Starts
    <2>6. Begins(S, slots[j], gap) <=> d - 1 > gap
      BY <1>1, <1>3, <2>1 DEF Begins
    <2>7. GP!Widths[j] = IF GP!Starts(j) THEN 1 ELSE d
      BY <2>4 DEF GP!Widths
    <2>8. Width(S, gap)[slots[j]] = IF Begins(S, slots[j], gap) THEN 1 ELSE d
      BY <1>1, <2>1 DEF Width
    <2> QED
      BY <1>1, <2>3, <2>5, <2>6, <2>7, <2>8
  <1> QED
    BY <1>2, <1>3

\* The runs are coact's groups, and read what these span.
LEMMA LoopCosts ==
    ASSUME NEW S \in SUBSET Nat, IsFiniteSet(S), Ascending(slots, S), Len(slots) # 0, NEW gap, gap = GP!Gap,
           GP!Sure, pc = "done", limit = 0
    PROVE  /\ Len(reads) = Cardinality(Groups(S, gap))
           /\ SumOver([m \in DOMAIN reads |-> reads[m][2] - reads[m][1] + 1], DOMAIN reads) = SumOver(Width(S, gap), S)
  <1>1. PICK n, D : n = Len(slots) /\ D = 1 .. n
    OBVIOUS
  <1>2. n \in Nat /\ IsFiniteSet(D) /\ (\A k \in D : slots[k] \in S) /\ \A x \in S : \E k \in D : slots[k] = x
    <2>1. n \in Nat /\ (\A k \in 1 .. n : slots[k] \in S) /\ \A x \in S : \E k \in 1 .. n : slots[k] = x
      BY <1>1, ListsAll DEF Ascending
    <2> QED
      BY <1>1, <2>1, FS_Interval
  <1>3. \A k, m \in D : slots[k] = slots[m] => k = m
    BY <1>1 DEF Ascending, Lists
  <1>4. \A j \in D : /\ GP!Starts(j) <=> Begins(S, slots[j], gap)
                     /\ GP!Widths[j] = Width(S, gap)[slots[j]] /\ GP!Widths[j] \in Nat
    BY <1>1, LoopBegins
  <1>5. {slots[j] : j \in D} = S
    BY <1>2
  <1>6. SumOver(Width(S, gap), S) = SumOver(GP!Widths, D)
    <2>1. Carries(slots, D, GP!Widths, Width(S, gap))
      BY <1>3, <1>4 DEF Carries
    <2>2. SumOver(Width(S, gap), {slots[j] : j \in D}) = SumOver(GP!Widths, D)
      BY <1>2, <2>1, SumImage
    <2> QED
      BY <1>5, <2>2
  <1>7. PICK begun, opened : /\ begun = [x \in S |-> IF Begins(S, x, gap) THEN 1 ELSE 0]
                             /\ opened = [j \in D |-> IF GP!Starts(j) THEN 1 ELSE 0]
    OBVIOUS
  <1>8. SumOver(begun, S) = SumOver(opened, D)
    <2>1. Carries(slots, D, opened, begun)
      <3>1. \A j \in D : opened[j] \in Nat /\ begun[slots[j]] = opened[j]
        BY <1>2, <1>4, <1>7
      <3> QED
        BY <1>3, <3>1 DEF Carries
    <2>2. SumOver(begun, {slots[j] : j \in D}) = SumOver(opened, D)
      BY <1>2, <2>1, SumImage
    <2> QED
      BY <1>5, <2>2
  <1>9. SumOver(begun, S) = Cardinality(Groups(S, gap))
    <2>1. \A x \in S : begun[x] \in {0, 1}
      BY <1>7
    <2>2. PICK K : K = {x \in S : begun[x] = 1}
      OBVIOUS
    <2>3. K = Groups(S, gap)
      BY <1>7, <2>2 DEF Groups
    <2>4. SumOver(begun, S) = Cardinality(K)
      BY <2>1, <2>2, SumCount
    <2> QED
      BY <2>3, <2>4
  <1>10. SumOver(opened, D) = Cardinality({j \in D : GP!Starts(j)})
    <2>1. \A x \in D : opened[x] \in {0, 1}
      BY <1>7
    <2>2. PICK K : K = {x \in D : opened[x] = 1}
      OBVIOUS
    <2>3. K = {j \in D : GP!Starts(j)}
      BY <1>7, <2>2
    <2>4. SumOver(opened, D) = Cardinality(K)
      BY <1>2, <2>1, <2>2, SumCount
    <2> QED
      BY <2>3, <2>4
  <1>11. GP!Outcome
    BY LoopResult
  <1>12. /\ Len(reads) = Cardinality({j \in D : GP!Starts(j)})
         /\ GP!SumOver([m \in DOMAIN reads |-> reads[m][2] - reads[m][1] + 1], DOMAIN reads) = GP!SumOver(GP!Widths, D)
    <2>1. PICK K : K = {j \in 1 .. Len(slots) : GP!Starts(j)}
      OBVIOUS
    <2>2. /\ Len(reads) = GP!Cardinality(K)
          /\ GP!SumOver([m \in DOMAIN reads |-> reads[m][2] - reads[m][1] + 1], DOMAIN reads)
                = GP!SumOver(GP!Widths, 1 .. Len(slots))
      BY <1>11, <2>1 DEF GP!Outcome
    <2>3. Len(reads) = Cardinality(K)
      BY <2>2, SameCardinality
    <2> QED
      BY <1>1, <2>1, <2>2, <2>3
  <1>13. PICK sizes : sizes = [m \in DOMAIN reads |-> reads[m][2] - reads[m][1] + 1]
    OBVIOUS
  <1>14. GP!SumOver(sizes, DOMAIN reads) = GP!SumOver(GP!Widths, D)
    BY <1>12, <1>13
  <1>15. SumOver(sizes, DOMAIN reads) = SumOver(GP!Widths, D)
    BY <1>14, SameSum
  <1>16. SumOver(sizes, DOMAIN reads) = SumOver(Width(S, gap), S)
    BY <1>6, <1>15
  <1>17. Len(reads) = Cardinality(Groups(S, gap))
    BY <1>8, <1>9, <1>10, <1>12
  <1> QED
    BY <1>13, <1>16, <1>17

-----------------------------------------------------------------------------
(* What the reads of a batch cost *)

\* The length of each read, and what its transfer costs.
Sizes == [m \in DOMAIN reads |-> reads[m][2] - reads[m][1] + 1]
Strides == [w \in 1 .. Len(WeightList) |-> Stride(job.table, WeightList[w])]
Transfers == [q \in 1 .. Len(Fresh) |-> Fresh[q].len * job.cm.byte]

\* Strides are whole numbers.
LEMMA StrideIs ==
    ASSUME Opened, NEW x \in WeightsOf(job)
    PROVE  Stride(job.table, x) \in Nat
  <1>1. PICK n \in Nat \ {0} : Slots(job) = 0 .. n - 1
    BY OpenedIs
  <1>2. 0 \in Slots(job)
    BY <1>1
  <1>3. PICK c : c = [offset |-> Offset(job.table, x) + 0 * Stride(job.table, x),
                      len |-> (0 - 0 + 1) * Stride(job.table, x)]
    OBVIOUS
  <1>4. IsSlice(c, x, 0, 0)
    BY <1>3 DEF IsSlice
  <1> QED
    BY <1>2, <1>4, SliceIs

\* Taken down the list, the strides are those of the weight tensors.
LEMMA StridesSum ==
    ASSUME Opened
    PROVE  /\ GeomOf(job).tensors = Len(WeightList)
           /\ SumOver(Strides, 1 .. Len(WeightList)) = GeomOf(job).bytes
           /\ \A w \in 1 .. Len(WeightList) : Strides[w] \in Nat
  <1>1. PICK n, C, W : n = Len(WeightList) /\ n \in Nat /\ C = 1 .. n /\ W = WeightsOf(job)
    BY WeightListIs
  <1>2. /\ n = Cardinality(W) /\ (\A w \in C : WeightList[w] \in W)
        /\ (\A w, l \in C : WeightList[w] = WeightList[l] => w = l)
        /\ \A x \in W : \E w \in C : WeightList[w] = x
    BY <1>1, WeightListIs
  <1>3. PICK stride : stride = [x \in W |-> Stride(job.table, x)]
    OBVIOUS
  <1>4. GeomOf(job).tensors = Cardinality(W) /\ GeomOf(job).bytes = SumOver(stride, W)
    BY <1>1, <1>3 DEF GeomOf, SumOver
  <1>5. \A w \in C : Strides[w] \in Nat /\ stride[WeightList[w]] = Strides[w]
    BY <1>1, <1>2, <1>3, StrideIs DEF Strides
  <1>6. Carries(WeightList, C, Strides, stride)
    BY <1>2, <1>5 DEF Carries
  <1>7. IsFiniteSet(C)
    BY <1>1, FS_Interval
  <1>8. SumOver(stride, {WeightList[w] : w \in C}) = SumOver(Strides, C)
    BY <1>6, <1>7, SumImage
  <1>9. {WeightList[w] : w \in C} = W
    BY <1>2
  <1> QED
    BY <1>1, <1>2, <1>4, <1>5, <1>8, <1>9

\* Each read is issued once in every weight tensor, and transfers the slots it spans in each.
LEMMA FreshSum ==
    ASSUME Opened, b \in Nat, NEW S \in SUBSET Slots(job), ReadsFit(S)
    PROVE  /\ Len(Fresh) = Len(reads) * GeomOf(job).tensors
           /\ \A q \in 1 .. Len(Fresh) : Transfers[q] \in Nat
           /\ \A m \in DOMAIN reads : Sizes[m] \in Nat
           /\ SumOver(Transfers, 1 .. Len(Fresh)) = job.cm.byte * (SumOver(Sizes, DOMAIN reads) * GeomOf(job).bytes)
  <1>1. PICK rows \in Nat, width \in Nat, N \in Nat :
            rows = Len(reads) /\ width = Len(WeightList) /\ N = Len(Fresh) /\ N = rows * width
    <2>1. Len(reads) \in Nat
      BY DEF ReadsFit
    <2>2. Len(WeightList) \in Nat
      BY WeightListIs
    <2>3. Len(Fresh) = Len(reads) * Len(WeightList)
      BY FreshIs
    <2>4. PICK x \in Nat, y \in Nat : x = Len(reads) /\ y = Len(WeightList)
      BY <2>1, <2>2
    <2>5. x * y \in Nat
      OBVIOUS
    <2> QED
      BY <2>3, <2>4, <2>5
  <1>2. PICK R, C, D : R = 1 .. rows /\ C = 1 .. width /\ D = 1 .. N
    OBVIOUS
  <1>3. IsFiniteSet(R) /\ IsFiniteSet(C) /\ IsFiniteSet(D) /\ DOMAIN reads = R
    <2>1. \A n \in Nat : \A I : I = 1 .. n => IsFiniteSet(I)
      BY FS_Interval
    <2>2. reads \in Seq(Nat \X Nat)
      BY DEF ReadsFit
    <2>3. DOMAIN reads = 1 .. Len(reads)
      BY <2>2
    <2> QED
      BY <1>1, <1>2, <2>1, <2>3
  <1>4. PICK byte \in Nat : byte = job.cm.byte
    BY ModelAssumption DEF Opened
  <1>5. \A m \in R : Sizes[m] \in Nat /\ Sizes[m] = reads[m][2] - reads[m][1] + 1
    <2> TAKE m \in R
    <2>1. reads[m][1] \in S /\ reads[m][2] \in S /\ reads[m][1] <= reads[m][2]
      BY <1>1, <1>2 DEF ReadsFit
    <2>2. reads[m][1] \in Int /\ reads[m][2] \in Int
      BY <2>1, OpenedIs
    <2>3. reads[m][2] - reads[m][1] + 1 \in Nat
      BY <2>1, <2>2
    <2> QED
      BY <1>3, <2>3 DEF Sizes
  <1>6. /\ GeomOf(job).tensors = width /\ SumOver(Strides, C) = GeomOf(job).bytes
        /\ \A w \in C : Strides[w] \in Nat
    BY <1>1, <1>2, StridesSum
  <1>7. PICK f, lens, cells :
            /\ f = [q \in D |-> <<RowOf(q, width), ColOf(q, width)>>]
            /\ lens = [q \in D |-> Fresh[q].len]
            /\ cells = [e \in R \X C |-> Sizes[e[1]] * Strides[e[2]]]
    OBVIOUS
  <1>8. ASSUME NEW q \in D
        PROVE  /\ f[q] \in R \X C /\ lens[q] \in Nat /\ cells[f[q]] = lens[q] /\ Transfers[q] = lens[q] * byte
    <2>1. PICK m \in R, w \in C : m = RowOf(q, width) /\ w = ColOf(q, width)
      BY <1>1, <1>2, FreshIs
    <2>2. IsSlice(Fresh[q], WeightList[w], reads[m][1], reads[m][2])
      BY <1>1, <1>2, <2>1, FreshIs
    <2>3. Fresh[q].len = Sizes[m] * Strides[w]
      BY <1>1, <1>2, <1>5, <2>2 DEF IsSlice, Strides
    <2>4. PICK x \in Nat, y \in Nat : x = Sizes[m] /\ y = Strides[w]
      BY <1>5, <1>6
    <2>5. x * y \in Nat
      OBVIOUS
    <2>6. f[q] = <<m, w>> /\ cells[<<m, w>>] = Sizes[m] * Strides[w]
      BY <1>7, <2>1
    <2>7. lens[q] = Fresh[q].len
      BY <1>7
    <2>8. Transfers[q] = Fresh[q].len * byte
      BY <1>1, <1>2, <1>4 DEF Transfers
    <2> QED
      BY <2>3, <2>4, <2>5, <2>6, <2>7, <2>8
  <1>9. \A q, l \in D : f[q] = f[l] => q = l
    <2> TAKE q, l \in D
    <2>1. f[q] = f[l] => RowOf(q, width) = RowOf(l, width) /\ ColOf(q, width) = ColOf(l, width)
      BY <1>7
    <2> QED
      BY <1>1, <1>2, <2>1, FreshIs
  <1>10. {f[q] : q \in D} = R \X C
    <2>1. \A q \in D : f[q] \in R \X C
      BY <1>8
    <2>2. \A e \in R \X C : \E q \in D : f[q] = e
      <3> TAKE e \in R \X C
      <3>1. PICK m \in R, w \in C : e = <<m, w>>
        OBVIOUS
      <3>2. PICK q \in D : RowOf(q, width) = m /\ ColOf(q, width) = w
        BY <1>1, <1>2, FreshIs
      <3>3. f[q] = <<m, w>>
        BY <1>7, <3>2
      <3> QED
        BY <3>1, <3>3
    <2> QED
      BY <2>1, <2>2
  <1>11. SumOver(cells, R \X C) = SumOver(lens, D)
    <2>1. Carries(f, D, lens, cells)
      BY <1>8, <1>9 DEF Carries
    <2>2. SumOver(cells, {f[q] : q \in D}) = SumOver(lens, D)
      BY <1>3, <2>1, SumImage
    <2> QED
      BY <1>10, <2>2
  <1>12. SumOver(cells, R \X C) = SumOver(Sizes, R) * SumOver(Strides, C)
    <2>1. Multiplies(cells, Sizes, Strides, R, C)
      <3>1. \A x \in R, y \in C : <<x, y>> \in R \X C /\ <<x, y>>[1] = x /\ <<x, y>>[2] = y
        OBVIOUS
      <3>2. \A x \in R, y \in C : cells[<<x, y>>] = Sizes[x] * Strides[y]
        BY <1>7, <3>1
      <3> QED
        BY <1>5, <1>6, <3>2 DEF Multiplies
    <2>2. (\A x \in R : Sizes[x] \in Nat) /\ \A y \in C : Strides[y] \in Nat
      BY <1>5, <1>6
    <2> QED
      BY <1>3, <2>1, <2>2, SumProduct
  <1>13. SumOver(Transfers, D) = byte * SumOver(lens, D)
    <2>1. \A q \in D : lens[q] \in Nat /\ Transfers[q] = byte * lens[q]
      <3> TAKE q \in D
      <3>1. PICK x \in Nat : x = lens[q]
        BY <1>8
      <3>2. x * byte = byte * x
        OBVIOUS
      <3> QED
        BY <1>8, <3>1, <3>2
    <2>2. IsTimes(Transfers, byte, lens, D)
      BY <2>1 DEF IsTimes
    <2> QED
      BY <1>3, <2>2, SumTimes
  <1>14. \A q \in D : Transfers[q] \in Nat
    <2> TAKE q \in D
    <2>1. PICK x \in Nat : x = lens[q]
      BY <1>8
    <2>2. x * byte \in Nat
      OBVIOUS
    <2> QED
      BY <1>8, <2>1, <2>2
  <1>15. SumOver(Transfers, D) = byte * (SumOver(Sizes, R) * GeomOf(job).bytes)
    BY <1>6, <1>11, <1>12, <1>13
  <1> QED
    BY <1>1, <1>2, <1>3, <1>4, <1>5, <1>6, <1>14, <1>15

\* Where --max-gap is not given, the gap fetchbench reads over is the one coact counts with.
LEMMA SameGap ==
    ASSUME job \in Jobs, replay.gap = NoGap, cost = GroupCost
    PROVE  GP!Gap = GapOf(GeomOf(job), job.cm)
  <1>1. PICK tensors \in Nat, bytes \in Nat, fetch \in Nat, byte \in Nat :
            tensors = GeomOf(job).tensors /\ bytes = GeomOf(job).bytes /\ fetch = job.cm.fetch /\ byte = job.cm.byte
    BY GeomIs, ModelAssumption
  <1>2. cost.fetch = tensors * fetch /\ cost.byte = bytes * byte
    BY <1>1 DEF GroupCost
  <1>3. bytes * byte = 0 <=> byte = 0 \/ bytes = 0
    <2>1. CASE byte = 0
      <3>1. bytes * 0 = 0
        OBVIOUS
      <3> QED
        BY <2>1, <3>1
    <2>2. CASE bytes = 0
      <3>1. 0 * byte = 0
        OBVIOUS
      <3> QED
        BY <2>2, <3>1
    <2>3. CASE byte # 0 /\ bytes # 0
      <3>1. bytes >= 1 /\ byte >= 1
        BY <2>3
      <3>2. 1 * byte <= bytes * byte /\ bytes * byte \in Nat
        BY <3>1, Scaled
      <3> QED
        BY <2>3, <3>1, <3>2
    <2> QED
      BY <2>1, <2>2, <2>3
  <1>4. GP!Gap = IF bytes * byte = 0 THEN 0 ELSE (tensors * fetch) \div (bytes * byte)
    BY <1>2 DEF GP!Gap, GP!MaxGap
  <1>5. GapOf(GeomOf(job), job.cm) = IF byte = 0 \/ bytes = 0 THEN 0 ELSE (tensors * fetch) \div (bytes * byte)
    BY <1>1 DEF GapOf
  <1> QED
    BY <1>3, <1>4, <1>5

\* What the reads of the batch cost is what coact has its slots cost.
LEMMA BatchPays ==
    ASSUME Opened, b \in Nat, replay.gap = NoGap, Grouping, limit = 0, pc = "done",
           NEW S \in SUBSET Slots(job), S = BatchSlots(b - 1), S # {}, ReadsFit(S)
    PROVE  /\ Len(Fresh) * job.cm.fetch + SumOver(Transfers, 1 .. Len(Fresh)) = SetCost(S, GeomOf(job), job.cm)
           /\ Len(Fresh) \in Nat /\ SumOver(Transfers, 1 .. Len(Fresh)) \in Nat
  <1>1. PICK tensors \in Nat, bytes \in Nat, fetch \in Nat, byte \in Nat :
            tensors = GeomOf(job).tensors /\ bytes = GeomOf(job).bytes /\ fetch = job.cm.fetch /\ byte = job.cm.byte
    BY GeomIs, ModelAssumption DEF Opened
  <1>2. S \in SUBSET Nat /\ IsFiniteSet(S)
    <2>1. PICK D : Slots(job) = D /\ D = 0 .. job.n - 1 /\ job.n \in Nat
      BY OpenedIs
    <2>2. IsFiniteSet(D) /\ D \in SUBSET Nat
      BY <2>1, FS_Interval
    <2> QED
      BY <2>1, <2>2, FS_Subset
  <1>3. Ascending(slots, S) /\ slots = InOrder(S)
    BY <1>2, InOrderLists DEF Grouping, Ascending
  <1>4. Len(slots) # 0
    <2>1. Len(slots) = Cardinality(S)
      BY <1>3 DEF Ascending, Lists
    <2> QED
      BY <1>2, <2>1, FS_EmptySet
  <1>5. PICK gap : gap = GapOf(GeomOf(job), job.cm) /\ gap = GP!Gap
    BY SameGap DEF Opened, Grouping
  <1>6. /\ Len(reads) = Cardinality(Groups(S, gap))
        /\ SumOver(Sizes, DOMAIN reads) = SumOver(Width(S, gap), S)
    <2>1. GP!Sure
      BY DEF Grouping
    <2>2. /\ Len(reads) = Cardinality(Groups(S, gap))
          /\ SumOver([m \in DOMAIN reads |-> reads[m][2] - reads[m][1] + 1], DOMAIN reads) = SumOver(Width(S, gap), S)
      BY <1>2, <1>3, <1>4, <1>5, <2>1, LoopCosts
    <2> QED
      BY <2>2 DEF Sizes
  <1>7. PICK rows \in Nat : rows = Len(reads)
    BY DEF ReadsFit
  <1>8. PICK span \in Nat : span = SumOver(Width(S, gap), S)
    <2>1. \A x \in S : Width(S, gap)[x] \in Nat
      BY <1>2, WidthIs
    <2> QED
      BY <1>2, <2>1, SumNat
  <1>9. Len(Fresh) = rows * tensors /\ SumOver(Transfers, 1 .. Len(Fresh)) = byte * (span * bytes)
    BY <1>1, <1>6, <1>7, <1>8, FreshSum
  <1>10. SetCost(S, GeomOf(job), job.cm) = rows * tensors * fetch + span * bytes * byte
    BY <1>1, <1>5, <1>6, <1>7, <1>8 DEF SetCost
  <1>11. byte * (span * bytes) = span * bytes * byte /\ rows * tensors \in Nat /\ byte * (span * bytes) \in Nat
    OBVIOUS
  <1> QED
    BY <1>1, <1>9, <1>10, <1>11

\* What has been issued.
Spent == [x \in DOMAIN ranges |-> ranges[x].len * job.cm.byte]

\* That is what Issued adds up.
LEMMA IssuedIs ==
    ASSUME ranges \in Seq(RangeSet), job \in Jobs
    PROVE  /\ Issued = Len(ranges) * job.cm.fetch + SumOver(Spent, DOMAIN ranges)
           /\ SumOver(Spent, DOMAIN ranges) \in Nat /\ Issued \in Nat
           /\ \A x \in DOMAIN ranges : Spent[x] \in Nat
  <1>1. Issued = Len(ranges) * job.cm.fetch + SumOver(Spent, DOMAIN ranges)
    BY DEF Issued, Spent, SumOver
  <1>2. PICK byte \in Nat, fetch \in Nat, l \in Nat : byte = job.cm.byte /\ fetch = job.cm.fetch /\ l = Len(ranges)
    BY ModelAssumption
  <1>3. \A x \in DOMAIN ranges : Spent[x] \in Nat
    <2> TAKE x \in DOMAIN ranges
    <2>1. PICK len \in Nat : len = ranges[x].len
      BY RangesAre DEF RangeSet
    <2>2. len * byte \in Nat
      OBVIOUS
    <2> QED
      BY <1>2, <2>1, <2>2 DEF Spent
  <1>4. PICK m \in Nat : m = SumOver(Spent, DOMAIN ranges)
    BY <1>3, RangesAre, SumNat
  <1>5. l * fetch + m \in Nat
    <2>1. l * fetch \in Nat
      OBVIOUS
    <2> QED
      BY <2>1
  <1> QED
    BY <1>1, <1>2, <1>3, <1>4, <1>5

\* Emit adds what the reads of the batch cost.
LEMMA EmitPays ==
    ASSUME Emit, ranges \in Seq(RangeSet), Opened, b \in Nat, replay.gap = NoGap, Grouping, limit = 0, pc = "done",
           NEW S \in SUBSET Slots(job), S = BatchSlots(b - 1), S # {}, ReadsFit(S)
    PROVE  Issued' = Issued + SetCost(S, GeomOf(job), job.cm)
  <1>16. PICK after : after = ranges'
    OBVIOUS
  <1>1. PICK l \in Nat, n \in Nat :
            /\ l = Len(ranges) /\ n = Len(Fresh) /\ after = ranges'
            /\ DOMAIN ranges = 1 .. l /\ DOMAIN after = 1 .. l + n /\ Len(after) = l + n
            /\ \A z \in 1 .. l : after[z] = ranges[z]
            /\ \A q \in 1 .. n : after[l + q] = Fresh[q]
    <2>1. PICK R, g, h : R = RangeSet /\ g = ranges /\ h = ranges' /\ g \in Seq(R) /\ h \in Seq(R) /\ Len(h) = Len(g) + Len(Fresh)
      BY EmitAdds
    <2>2. DOMAIN g = 1 .. Len(g) /\ DOMAIN h = 1 .. Len(h)
      BY <2>1
    <2>3. PICK l \in Nat, n \in Nat : l = Len(ranges) /\ n = Len(Fresh)
      BY EmitAdds
    <2>4. Len(h) = l + n /\ DOMAIN ranges = 1 .. l /\ DOMAIN h = 1 .. l + n
      BY <2>1, <2>2, <2>3
    <2>5. (\A z \in 1 .. l : h[z] = ranges[z]) /\ \A q \in 1 .. n : h[l + q] = Fresh[q]
      BY <2>1, <2>3, EmitAdds
    <2> QED
      BY <1>16, <2>1, <2>3, <2>4, <2>5
  <1>2. PICK fetch \in Nat, byte \in Nat : fetch = job.cm.fetch /\ byte = job.cm.byte
    BY ModelAssumption DEF Opened
  <1>3. PICK t, E, D, A : t = [x \in E |-> after[x].len * byte] /\ E = 1 .. l + n /\ A = 1 .. l /\ D = 1 .. n
    OBVIOUS
  <1>4. Issued' = (l + n) * fetch + SumOver(t, E)
    <2>1. job' = job
      BY DEF Emit, searchVars
    <2>2. PICK transfer : transfer = Spent'
      OBVIOUS
    <2>3. Issued' = Len(ranges') * job'.cm.fetch + SumOver(transfer, DOMAIN ranges')
      <3>1. Issued' = Len(ranges') * job'.cm.fetch + SumOver(Spent, DOMAIN ranges)'
        BY DEF Issued, Spent, SumOver
      <3>2. SumOver(Spent, DOMAIN ranges)' = SumOver(transfer, DOMAIN ranges')
        BY <2>2
      <3> QED
        BY <3>1, <3>2
    <2>4. transfer = t
      BY <1>1, <1>2, <1>3, <2>1, <2>2 DEF Spent
    <2> QED
      BY <1>1, <1>2, <1>3, <2>1, <2>3, <2>4
  <1>5. /\ Issued = l * fetch + SumOver(Spent, A) /\ SumOver(Spent, A) \in Nat
        /\ \A x \in A : Spent[x] \in Nat
    BY <1>1, <1>2, <1>3, IssuedIs DEF Opened
  <1>6. IsFiniteSet(E) /\ IsFiniteSet(A) /\ IsFiniteSet(D) /\ A \subseteq E
    <2>1. \A m \in Nat : \A I : I = 1 .. m => IsFiniteSet(I)
      BY FS_Interval
    <2> QED
      BY <1>3, <2>1
  <1>7. \A x \in A : t[x] = Spent[x]
    BY <1>1, <1>2, <1>3, <1>6 DEF Spent
  <1>8. \A q \in D : Transfers[q] \in Nat /\ l + q \in E \ A /\ t[l + q] = Transfers[q]
    <2> TAKE q \in D
    <2>1. l + q \in E \ A
      BY <1>3
    <2>2. Transfers[q] = Fresh[q].len * byte /\ Transfers[q] \in Nat
      BY <1>1, <1>2, <1>3, FreshSum DEF Transfers
    <2> QED
      BY <1>1, <1>3, <2>1, <2>2
  <1>9. \A x \in E \ A : x - l \in D /\ x = l + (x - l)
    BY <1>3
  <1>10. Weighs(t, E)
    <2>1. ASSUME NEW x \in E PROVE t[x] \in Nat
      <3>1. CASE x \in A
        BY <1>5, <1>7, <3>1
      <3>2. CASE x \notin A
        <4>1. PICK q \in D : q = x - l /\ x = l + q
          BY <1>9, <3>2
        <4> QED
          BY <1>8, <4>1
      <3> QED
        BY <3>1, <3>2
    <2> QED
      BY <2>1 DEF Weighs
  <1>11. SumOver(t, E) = SumOver(t, A) + SumOver(t, E \ A)
    BY <1>6, <1>10, SumParts
  <1>12. SumOver(t, A) = SumOver(Spent, A)
    <2>1. \A x \in A : t[x] = Spent[x] /\ t[x] \in Nat
      BY <1>5, <1>7
    <2> QED
      BY <1>6, <2>1, SumEqual
  <1>13. SumOver(t, E \ A) = SumOver(Transfers, D)
    <2>1. PICK g : g = [q \in D |-> l + q]
      OBVIOUS
    <2>2. \A q, m \in D : g[q] = g[m] => q = m
      BY <1>3, <2>1
    <2>3. \A q \in D : Transfers[q] \in Nat /\ t[g[q]] = Transfers[q]
      BY <1>8, <2>1
    <2>4. Carries(g, D, Transfers, t)
      BY <2>2, <2>3 DEF Carries
    <2>5. SumOver(t, {g[q] : q \in D}) = SumOver(Transfers, D)
      BY <1>6, <2>4, SumImage
    <2>6. {g[q] : q \in D} = E \ A
      <3>1. \A q \in D : g[q] \in E \ A
        BY <1>8, <2>1
      <3>2. \A x \in E \ A : \E q \in D : g[q] = x
        BY <1>9, <2>1
      <3> QED
        BY <3>1, <3>2
    <2> QED
      BY <2>5, <2>6
  <1>14. /\ n * fetch + SumOver(Transfers, D) = SetCost(S, GeomOf(job), job.cm)
         /\ SumOver(Transfers, D) \in Nat
    BY <1>1, <1>2, <1>3, BatchPays
  <1>15. (l + n) * fetch = l * fetch + n * fetch /\ l * fetch \in Nat /\ n * fetch \in Nat
    OBVIOUS
  <1> QED
    BY ONLY <1>4, <1>5, <1>11, <1>12, <1>13, <1>14, <1>15

-----------------------------------------------------------------------------
(* The account of a replay *)

\* What coact has each token of the trace cost, and the tokens up to m that are replayed.
Charges == [x \in DOMAIN job.trace |-> SetCost(SlotsOf(job.trace[x], layout), GeomOf(job), job.cm)]
Done(m) == {x \in DOMAIN job.trace : x <= m /\ x <= replay.tokens}

\* The trace of a job opened, its tokens' slots and what they cost.
LEMMA ChargesAre ==
    ASSUME Opened, IsOrder(job, layout)
    PROVE  /\ Priced(GeomOf(job), job.cm)
           /\ DOMAIN job.trace \in SUBSET (Nat \ {0}) /\ IsFiniteSet(DOMAIN job.trace)
           /\ \A x \in DOMAIN job.trace :
                  /\ SlotsOf(job.trace[x], layout) \in SUBSET Int /\ IsFiniteSet(SlotsOf(job.trace[x], layout))
                  /\ Charges[x] \in Nat
  <1>1. Priced(GeomOf(job), job.cm)
    BY GeomIs, ModelAssumption DEF Opened, Priced
  <1>2. PICK D : D = DOMAIN job.trace /\ \E l \in Nat : D = 1 .. l
    <2>1. job.trace \in Seq(SUBSET Slots(job))
      BY TraceAssumption DEF Opened
    <2> QED
      BY <2>1
  <1>3. D \in SUBSET (Nat \ {0}) /\ IsFiniteSet(D)
    BY <1>2, FS_Interval
  <1>4. PICK H : H = Slots(job) /\ H = 0 .. job.n - 1 /\ job.n \in Nat
    BY OpenedIs
  <1>5. H \in SUBSET Int /\ IsFiniteSet(H)
    BY <1>4, FS_Interval
  <1>6. ASSUME NEW x \in D
        PROVE  /\ SlotsOf(job.trace[x], layout) \in SUBSET Int /\ IsFiniteSet(SlotsOf(job.trace[x], layout))
               /\ Charges[x] \in Nat
    <2>1. PICK S : S = SlotsOf(job.trace[x], layout)
      OBVIOUS
    <2>2. S \in SUBSET H
      BY <1>4, <2>1 DEF SlotsOf, IsOrder
    <2>3. S \in SUBSET Int /\ IsFiniteSet(S)
      BY <1>5, <2>2, FS_Subset
    <2>4. SetCost(S, GeomOf(job), job.cm) \in Nat
      BY <1>1, <2>3, SetCostIs DEF Priced
    <2> QED
      BY <1>2, <2>1, <2>3, <2>4 DEF Charges
  <1> QED
    BY <1>1, <1>2, <1>3, <1>6

\* A batch more: its tokens are replayed too, and its slots cost no more than they do one by one.
LEMMA BatchCharged ==
    ASSUME Opened, IsOrder(job, layout), NEW k \in Nat, NEW size \in Nat \ {0}, replay.batch = size
    PROVE  /\ SumOver(Charges, Done((k + 1) * size)) = SumOver(Charges, Done(k * size)) + SumOver(Charges, BatchTokens(k))
           /\ SumOver(Charges, Done(k * size)) \in Nat /\ SumOver(Charges, BatchTokens(k)) \in Nat
           /\ SetCost(BatchSlots(k), GeomOf(job), job.cm) \in Nat
           /\ SetCost(BatchSlots(k), GeomOf(job), job.cm) <= SumOver(Charges, BatchTokens(k))
           /\ size = 1 => SetCost(BatchSlots(k), GeomOf(job), job.cm) = SumOver(Charges, BatchTokens(k))
  <1>1. /\ Priced(GeomOf(job), job.cm)
        /\ DOMAIN job.trace \in SUBSET (Nat \ {0}) /\ IsFiniteSet(DOMAIN job.trace)
        /\ \A x \in DOMAIN job.trace :
               /\ SlotsOf(job.trace[x], layout) \in SUBSET Int /\ IsFiniteSet(SlotsOf(job.trace[x], layout))
               /\ Charges[x] \in Nat
    BY ChargesAre
  <1>2. PICK from \in Nat, to \in Nat : from = k * size /\ to = (k + 1) * size /\ to = from + size
    <2>1. k * size \in Nat /\ (k + 1) * size = k * size + size
      OBVIOUS
    <2> QED
      BY <2>1
  <1>3. PICK D, old, new, both : /\ D = DOMAIN job.trace /\ old = Done(from) /\ new = BatchTokens(k) /\ both = Done(to)
    OBVIOUS
  <1>4. old \in SUBSET D /\ new \in SUBSET D /\ both \in SUBSET D
    BY <1>3 DEF Done, BatchTokens
  <1>5. new = {x \in D : from < x /\ x <= to /\ x <= replay.tokens}
    BY <1>2, <1>3 DEF BatchTokens
  <1>6. old \cap new = {} /\ old \cup new = both
    <2>1. D \in SUBSET Nat
      BY <1>1, <1>3
    <2>2. \A x \in D : x <= to <=> x <= from \/ (from < x /\ x <= to)
      BY <1>2, <2>1
    <2>3. \A x \in D : ~(x <= from /\ from < x)
      BY <1>2, <2>1
    <2> QED
      BY <1>3, <1>5, <2>2, <2>3 DEF Done
  <1>7. SumOver(Charges, both) = SumOver(Charges, old) + SumOver(Charges, new)
    <2>1. \A x \in D : Charges[x] \in Nat
      BY <1>1, <1>3
    <2>2. SumOver(Charges, old \cup new) = SumOver(Charges, old) + SumOver(Charges, new)
      BY <1>1, <1>3, <1>4, <1>6, <2>1, SumUnion
    <2> QED
      BY <1>6, <2>2
  <1>8. IsFiniteSet(new) /\ SumOver(Charges, old) \in Nat /\ SumOver(Charges, new) \in Nat
    <2>1. \A z \in SUBSET D : IsFiniteSet(z)
      BY <1>1, <1>3, FS_Subset
    <2>2. \A z \in SUBSET D : SumOver(Charges, z) \in Nat
      BY <1>1, <1>3, <2>1, SumNat
    <2> QED
      BY <1>4, <2>1, <2>2
  <1>9. PICK sets : sets = [x \in D |-> SlotsOf(job.trace[x], layout)]
    OBVIOUS
  <1>10. BatchSlots(k) = UNION {sets[x] : x \in new}
    BY <1>3, <1>4, <1>9 DEF BatchSlots
  <1>11. AreSlots(sets, new) /\ Costed(Charges, sets, new, GeomOf(job), job.cm)
    BY <1>1, <1>3, <1>4, <1>9 DEF AreSlots, Costed, Charges
  <1>12. PICK S, geom, cm : S = UNION {sets[x] : x \in new} /\ geom = GeomOf(job) /\ cm = job.cm
    OBVIOUS
  <1>13. S \in SUBSET Int /\ IsFiniteSet(S) /\ SetCost(S, geom, cm) <= SumOver(Charges, new)
    BY <1>1, <1>8, <1>11, <1>12, AllTogether
  <1>14. SetCost(S, geom, cm) \in Nat
    BY <1>1, <1>12, <1>13, SetCostIs DEF Priced
  <1>15. ASSUME size = 1 PROVE SetCost(S, geom, cm) = SumOver(Charges, new)
    <2>1. \A x \in new : x = to
      <3> TAKE x \in new
      <3>1. x \in Nat /\ from < x /\ x <= to
        BY <1>1, <1>3, <1>4, <1>5
      <3> QED
        BY <1>2, <1>15, <3>1
    <2>2. CASE new = {}
      <3>1. S = {}
        BY <1>12, <2>2
      <3> QED
        BY <1>1, <1>12, <2>2, <3>1, NothingCosts, SumEmpty, Zenon
    <2>3. CASE new # {}
      <3>1. to \in new /\ new = {to} /\ to \in D
        BY <1>4, <2>1, <2>3
      <3>2. S = sets[to]
        BY <1>12, <3>1
      <3>3. Charges[to] = SetCost(S, geom, cm) /\ Charges[to] \in Nat
        BY <1>1, <1>3, <1>11, <1>12, <3>1, <3>2 DEF Costed
      <3>4. SumOver(Charges, {} \cup {to}) = SumOver(Charges, {}) + Charges[to]
        <4>1. IsFiniteSet({}) /\ to \notin {} /\ \A x \in {} : Charges[x] \in Nat
          BY FS_EmptySet
        <4> QED
          BY <3>3, <4>1, SumAdd
      <3>5. SumOver(Charges, {}) = 0 /\ {} \cup {to} = new
        BY <3>1, SumEmpty
      <3>6. SumOver(Charges, new) = 0 + Charges[to]
        BY <3>4, <3>5, Zenon
      <3>7. PICK c \in Nat : c = Charges[to]
        BY <3>3
      <3>8. 0 + c = c
        OBVIOUS
      <3> QED
        BY <3>3, <3>6, <3>7, <3>8, Zenon
    <2> QED
      BY <2>2, <2>3
  <1> QED
    BY <1>2, <1>3, <1>7, <1>8, <1>10, <1>12, <1>13, <1>14, <1>15

\* Where the gap is coact's, what has been issued for the batches finished is no more than what coact
\* has their tokens cost, and just that where every token is a batch.
Account == SumOver(Charges, Done(Finished * replay.batch))
Paid ==
    replay.gap = NoGap /\ replay.batch # 0 =>
        /\ Issued <= Account
        /\ replay.batch = 1 => Issued = Account

Ledger == phase \in {"replay", "replayed"} => Paid

\* What has been issued depends on the reads and the cost model only.
LEMMA IssuedStays ==
    ASSUME job' = job, ranges' = ranges
    PROVE  Issued' = Issued
  <1>1. Issued = Len(ranges) * job.cm.fetch + SumOver(Spent, DOMAIN ranges)
    BY DEF Issued, Spent, SumOver
  <1>2. Issued' = Len(ranges') * job'.cm.fetch + SumOver(Spent, DOMAIN ranges)'
    BY DEF Issued, Spent, SumOver
  <1>3. PICK spent : spent = Spent /\ spent = Spent'
    BY DEF Spent
  <1>4. SumOver(Spent, DOMAIN ranges)' = SumOver(spent, DOMAIN ranges')
    BY <1>3
  <1> QED
    BY <1>1, <1>2, <1>3, <1>4

\* A step that neither reads nor finishes a batch leaves the account as it is.
LEMMA PaidStays ==
    ASSUME Paid, Unmoved, Finished' = Finished
    PROVE  Paid'
  <1>1. job' = job /\ replay' = replay /\ layout' = layout /\ ranges' = ranges
    BY DEF Unmoved
  <1>2. Issued' = Issued
    BY <1>1, IssuedStays
  <1>3. Account' = Account
    <2>1. Charges' = Charges
      BY <1>1 DEF Charges
    <2>2. PICK m : m = Finished * replay.batch /\ m = (Finished * replay.batch)'
      BY <1>1
    <2>3. Done(Finished * replay.batch) = Done(m) /\ Done(Finished * replay.batch)' = Done(m)
      BY <1>1, <2>2 DEF Done
    <2> QED
      BY <2>1, <2>3 DEF Account
  <1> QED
    BY <1>1, <1>2, <1>3 DEF Paid

\* A batch is finished whose reads cost what coact has its slots cost.
LEMMA PaidGrows ==
    ASSUME Paid, Opened, replay \in Replays, IsOrder(job, layout), ranges \in Seq(RangeSet),
           job' = job, replay' = replay, layout' = layout,
           NEW k \in Nat, Finished = k, Finished' = k + 1,
           replay.gap = NoGap => Issued' = Issued + SetCost(BatchSlots(k), GeomOf(job), job.cm)
    PROVE  Paid'
  <1>1. CASE ~(replay.gap = NoGap /\ replay.batch # 0)
    BY <1>1 DEF Paid
  <1>2. CASE replay.gap = NoGap /\ replay.batch # 0
    <2>1. PICK size \in Nat \ {0} : size = replay.batch
      BY <1>2, ReplaysAssumption
    <2>2. Account = SumOver(Charges, Done(k * size))
      BY <2>1 DEF Account
    <2>3. Account' = SumOver(Charges, Done((k + 1) * size))
      BY <2>1 DEF Account, Charges, Done
    <2>4. PICK before \in Nat, after \in Nat, old \in Nat, new \in Nat :
              /\ before = SumOver(Charges, Done(k * size)) /\ after = SumOver(Charges, Done((k + 1) * size))
              /\ new = SetCost(BatchSlots(k), GeomOf(job), job.cm) /\ old = Issued
              /\ before + new <= after /\ (size = 1 => before + new = after)
      <3>1. /\ SumOver(Charges, Done((k + 1) * size)) = SumOver(Charges, Done(k * size)) + SumOver(Charges, BatchTokens(k))
            /\ SumOver(Charges, Done(k * size)) \in Nat /\ SumOver(Charges, BatchTokens(k)) \in Nat
            /\ SetCost(BatchSlots(k), GeomOf(job), job.cm) \in Nat
            /\ SetCost(BatchSlots(k), GeomOf(job), job.cm) <= SumOver(Charges, BatchTokens(k))
            /\ size = 1 => SetCost(BatchSlots(k), GeomOf(job), job.cm) = SumOver(Charges, BatchTokens(k))
        BY <2>1, BatchCharged
      <3>2. Issued \in Nat
        BY IssuedIs DEF Opened
      <3>3. PICK before \in Nat, part \in Nat, new \in Nat :
              /\ before = SumOver(Charges, Done(k * size)) /\ part = SumOver(Charges, BatchTokens(k))
              /\ new = SetCost(BatchSlots(k), GeomOf(job), job.cm)
        BY <3>1
      <3>4. PICK after \in Nat : after = before + part
        OBVIOUS
      <3>5. after = SumOver(Charges, Done((k + 1) * size)) /\ new <= part /\ (size = 1 => new = part)
        BY <3>1, <3>3, <3>4
      <3>6. before + new <= after /\ (size = 1 => before + new = after)
        BY <3>4, <3>5
      <3> QED
        BY <3>2, <3>3, <3>5, <3>6
    <2>5. old <= before /\ (size = 1 => old = before) /\ Issued' = old + new
      BY <1>2, <2>1, <2>2, <2>4 DEF Paid
    <2>6. old + new <= after /\ (size = 1 => old + new = after)
      BY <2>4, <2>5
    <2>7. Account' = after /\ replay'.batch = size
      BY <2>1, <2>3, <2>4
    <2> QED
      BY <2>5, <2>6, <2>7 DEF Paid
  <1> QED
    BY <1>1, <1>2

\* Every step keeps the account.
LEMMA StartReplayPays == ASSUME PathInv, PathInv', StartReplay PROVE Paid'
  <1>1. /\ phase = "search" /\ phase' = "replay" /\ b' = 0 /\ ranges' = << >>
        /\ job' = job /\ pc' = pc /\ runs' = runs
    BY DEF StartReplay, searchVars, groupVars
  <1>2. Rested /\ job \in Jobs /\ Opened
    BY <1>1 DEF PathInv, Opened
  <1>3. Finished' = 0
    BY <1>1, <1>2 DEF Rested, Finished
  <1>4. PICK fetch \in Nat : fetch = job.cm.fetch
    BY <1>2, ModelAssumption
  <1>5. Issued' = 0
    <2>1. PICK spent : spent = Spent'
      OBVIOUS
    <2>2. Issued' = Len(ranges') * job'.cm.fetch + SumOver(spent, DOMAIN ranges')
      <3>1. Issued' = Len(ranges') * job'.cm.fetch + SumOver(Spent, DOMAIN ranges)'
        BY DEF Issued, Spent, SumOver
      <3>2. SumOver(Spent, DOMAIN ranges)' = SumOver(spent, DOMAIN ranges')
        BY <2>1
      <3> QED
        BY <3>1, <3>2
    <2>3. Len(ranges') = 0 /\ DOMAIN ranges' = {}
      BY <1>1
    <2>4. SumOver(spent, {}) = 0
      BY SumEmpty
    <2>5. 0 * fetch + 0 = 0
      OBVIOUS
    <2>6. Issued' = 0 * fetch + 0
      BY <1>1, <1>4, <2>2, <2>3, <2>4
    <2> QED
      BY <2>5, <2>6
  <1>6. replay'.batch \in Nat
    <2>1. replay' \in Replays
      BY DEF StartReplay
    <2> QED
      BY <2>1, ReplaysAssumption
  <1>7. Account' = 0
    <2>1. PICK m, charges, D : m = Finished' * replay'.batch /\ charges = Charges' /\ D = Done(Finished * replay.batch)'
      OBVIOUS
    <2>2. m = 0
      BY <1>3, <1>6, <2>1
    <2>3. DOMAIN job.trace \in SUBSET (Nat \ {0})
      <3>1. job.trace \in Seq(SUBSET Slots(job))
        BY <1>2, TraceAssumption
      <3> QED
        BY <3>1
    <2>4. D \subseteq {x \in DOMAIN job.trace : x <= m}
      BY <1>1, <2>1 DEF Done
    <2>5. D = {}
      BY <2>2, <2>3, <2>4
    <2>6. SumOver(charges, {}) = 0
      BY SumEmpty
    <2> QED
      BY <2>1, <2>5, <2>6 DEF Account
  <1> QED
    BY <1>5, <1>7 DEF Paid

LEMMA StartBatchPays == ASSUME PathInv, Paid, StartBatch PROVE Paid'
  <1>1. /\ phase = "replay" /\ pc = "done" /\ runs = << >> /\ b' = b + 1
        /\ UNCHANGED <<searchVars, phase, replay, layout, ranges>>
        /\ IF BatchSlots(b) = {} THEN UNCHANGED groupVars
           ELSE /\ slots' = InOrder(BatchSlots(b)) /\ cost' = GroupCost
                /\ i' = 1 /\ pc' = "begin"
                /\ UNCHANGED <<limit, start, prev, runs, r, a, reads>>
    BY DEF StartBatch
  <1>2. /\ job \in Jobs /\ Replaying /\ b \in Nat /\ ranges \in Seq(RangeSet)
        /\ Opened /\ replay \in Replays /\ IsOrder(job, layout)
    BY <1>1 DEF PathInv, Replaying
  <1>3. Unmoved /\ job' = job /\ replay' = replay /\ layout' = layout /\ ranges' = ranges
    BY <1>1 DEF Unmoved, searchVars
  <1>4. Finished = b
    BY <1>1 DEF Finished
  <1>5. CASE BatchSlots(b) = {}
    <2>1. Finished' = b + 1
      BY <1>1, <1>5 DEF Finished, groupVars
    <2>2. PICK old \in Nat : old = Issued /\ Issued' = old
      <3>1. Issued' = Issued
        <4>1. job' = job /\ ranges' = ranges
          BY <1>3
        <4> QED
          BY <4>1, IssuedStays
      <3>2. Issued \in Nat
        BY <1>2, IssuedIs
      <3> QED
        BY <3>1, <3>2
    <2>3. SetCost(BatchSlots(b), GeomOf(job), job.cm) = 0
      <3>1. Priced(GeomOf(job), job.cm)
        BY <1>2, ChargesAre
      <3>2. SetCost({}, GeomOf(job), job.cm) = 0
        BY <3>1, NothingCosts
      <3> QED
        BY <1>5, <3>2
    <2>4. old = old + 0
      OBVIOUS
    <2>5. Issued' = Issued + SetCost(BatchSlots(b), GeomOf(job), job.cm)
      BY <2>2, <2>3, <2>4
    <2> QED
      BY <1>2, <1>3, <1>4, <2>1, <2>5, PaidGrows
  <1>6. CASE BatchSlots(b) # {}
    <2>1. Finished' = b
      BY <1>1, <1>2, <1>6 DEF Finished
    <2> QED
      BY <1>3, <1>4, <2>1, PaidStays
  <1> QED
    BY <1>5, <1>6

LEMMA EmitLedger == ASSUME PathInv, Paid, Emit PROVE Paid'
  <1>1. /\ phase = "replay" /\ pc = "done" /\ runs # << >> /\ runs' = << >>
        /\ job' = job /\ replay' = replay /\ layout' = layout /\ b' = b /\ pc' = pc
    BY DEF Emit, searchVars
  <1>2. /\ job \in Jobs /\ limit = 0
        /\ Replaying /\ b \in Nat /\ ranges \in Seq(RangeSet)
        /\ Opened /\ replay \in Replays /\ IsOrder(job, layout)
    BY <1>1 DEF PathInv, Replaying
  <1>3. Grouping
    BY <1>1, <1>2 DEF Replaying, Rested
  <1>4. PICK k \in Nat : k = b - 1 /\ b = k + 1
    BY <1>2, <1>3 DEF Grouping
  <1>5. Finished = k /\ Finished' = k + 1
    BY <1>1, <1>4 DEF Finished
  <1>6. PICK S : S = BatchSlots(k) /\ S \in SUBSET Slots(job) /\ S # {} /\ ReadsFit(S) /\ S = BatchSlots(b - 1)
    <2>1. ReadsFit(BatchSlots(b - 1)) /\ BatchSlots(b - 1) # {}
      BY <1>1, <1>2, <1>3, GroupingIs DEF Grouping
    <2>2. BatchSlots(b - 1) \subseteq Slots(job)
      BY <1>2, BatchIs
    <2> QED
      BY <1>4, <2>1, <2>2
  <1>7. replay.gap = NoGap => Issued' = Issued + SetCost(S, GeomOf(job), job.cm)
    BY <1>1, <1>2, <1>3, <1>6, EmitPays
  <1> QED
    BY <1>1, <1>2, <1>5, <1>6, <1>7, PaidGrows

LEMMA LedgerKept == ASSUME PathInv, PathInv', Ledger, [Next]_vars PROVE Ledger'
  <1>1. CASE Open
    BY <1>1 DEF Open, Ledger
  <1>2. CASE Search
    BY <1>2 DEF Search, Ledger
  <1>3. CASE StartReplay
    BY <1>3, StartReplayPays DEF Ledger
  <1>4. CASE StartBatch
    <2>1. phase = "replay"
      BY <1>4 DEF StartBatch
    <2> QED
      BY <1>4, <2>1, StartBatchPays DEF Ledger
  <1>5. CASE Group
    <2>1. phase = "replay" /\ Unmoved
      BY <1>5 DEF Group, Unmoved, searchVars
    <2>2. Finished' = Finished
      BY <1>5, GroupKeeps
    <2> QED
      BY <2>1, <2>2, PaidStays DEF Ledger
  <1>6. CASE Emit
    <2>1. phase = "replay"
      BY <1>6 DEF Emit
    <2> QED
      BY <1>6, <2>1, EmitLedger DEF Ledger
  <1>7. CASE EndReplay \/ UNCHANGED vars
    <2>1. /\ job' = job /\ replay' = replay /\ layout' = layout /\ ranges' = ranges
          /\ b' = b /\ pc' = pc /\ runs' = runs /\ (phase = "replay" \/ phase' = phase)
      BY <1>7 DEF EndReplay, vars, searchVars, replayVars, groupVars
    <2>2. Unmoved /\ Finished' = Finished
      BY <2>1 DEF Unmoved, Finished
    <2>3. Paid => Paid'
      BY <2>2, PaidStays
    <2> QED
      BY <2>1, <2>3 DEF Ledger
  <1> QED
    BY <1>1, <1>2, <1>3, <1>4, <1>5, <1>6, <1>7 DEF Next

\* The account is right throughout.
LEMMA LedgerInvariance == Spec => []Ledger
  <1>1. Init => Ledger
    BY DEF Init, Ledger
  <1> QED
    BY <1>1, LedgerKept, PathInvariance, PTL DEF Spec

\* The smaller of two numbers.
LEMMA MinOfTwo ==
    ASSUME NEW x \in Nat, NEW y \in Nat
    PROVE  Min({x, y}) = IF x <= y THEN x ELSE y
  <1>1. PICK least \in Nat : least = (IF x <= y THEN x ELSE y)
    OBVIOUS
  <1>2. least \in {x, y} /\ \A z \in {x, y} : least <= z
    BY <1>1
  <1>3. \A m : (m \in {x, y} /\ \A z \in {x, y} : m <= z) => m = least
    BY <1>1
  <1> QED
    BY <1>1, <1>2, <1>3 DEF Min

\* The batches are enough for all the tokens that are replayed.
LEMMA BatchesReach ==
    ASSUME NEW size \in Nat \ {0}, replay.batch = size, NEW tokens \in Nat, replay.tokens = tokens
    PROVE  tokens <= BatchCount * size /\ BatchCount * size \in Nat
  <1>1. Max({replay.batch, 1}) = size
    <2>1. PICK D : D = {size, 1} /\ D \in SUBSET Int /\ D # {} /\ IsFiniteSet(D)
      <3>1. IsFiniteSet({size, 1})
        <4>1. IsFiniteSet({size}) /\ {size} \cup {1} = {size, 1}
          BY FS_Singleton
        <4> QED
          BY <4>1, FS_AddElement
      <3> QED
        BY <3>1
    <2>2. PICK m : m = Max(D) /\ m \in D /\ \A x \in D : x <= m
      BY <2>1, MaxIs
    <2>3. m = size
      BY <2>1, <2>2
    <2> QED
      BY <2>1, <2>2, <2>3
  <1>2. PICK q \in Nat, h \in Nat : q = BatchCount /\ h <= size - 1 /\ tokens + size - 1 = size * q + h
    <2>1. PICK m \in Nat : m = tokens + size - 1
      OBVIOUS
    <2>2. m \div size \in Nat /\ m % size \in 0 .. size - 1 /\ m = size * (m \div size) + (m % size)
      BY Division
    <2>3. BatchCount = m \div size
      BY <1>1, <2>1 DEF BatchCount
    <2> QED
      BY <2>1, <2>2, <2>3
  <1>3. PICK t \in Nat : t = q * size /\ t = size * q
    <2>1. q * size = size * q /\ q * size \in Nat
      OBVIOUS
    <2> QED
      BY <2>1
  <1>4. tokens <= t
    BY <1>2, <1>3
  <1> QED
    BY <1>2, <1>3, <1>4

\* What coact predicts for the tokens replayed.
LEMMA PredictedIs ==
    ASSUME Opened, IsOrder(job, layout), NEW tokens \in Nat, replay.tokens = tokens,
           NEW reach \in Nat, tokens <= reach
    PROVE  Predicted = SumOver(Charges, Done(reach)) /\ Predicted \in Nat
  <1>11. PICK trace : trace = job.trace
    OBVIOUS
  <1>1. PICK l \in Nat : trace = job.trace /\ l = Len(trace) /\ DOMAIN trace = 1 .. l
    <2>1. job.trace \in Seq(SUBSET Slots(job))
      BY TraceAssumption DEF Opened
    <2> QED
      BY <1>11, <2>1
  <1>2. PICK m \in Nat : m = Min({replay.tokens, Len(job.trace)}) /\ m = (IF tokens <= l THEN tokens ELSE l)
    BY <1>1, MinOfTwo
  <1>3. PICK sub : sub = SubSeq(trace, 1, m) /\ DOMAIN sub = 1 .. m /\ \A k \in 1 .. m : sub[k] = trace[k]
    <2>1. PICK T : \A k \in 1 .. m : trace[k] \in T
      <3>1. \A k \in 1 .. m : trace[k] \in {trace[z] : z \in 1 .. m}
        OBVIOUS
      <3> QED
        BY <3>1
    <2>2. /\ SubSeq(trace, 1, m) \in Seq(T)
          /\ Len(SubSeq(trace, 1, m)) = IF 1 <= m THEN m - 1 + 1 ELSE 0
          /\ \A k \in 1 .. m - 1 + 1 : SubSeq(trace, 1, m)[k] = trace[1 + k - 1]
      BY <2>1, SubSeqProperties
    <2>3. PICK sub : sub = SubSeq(trace, 1, m)
      OBVIOUS
    <2>4. sub \in Seq(T) /\ Len(sub) = m
      BY <2>2, <2>3
    <2>5. \A k \in 1 .. m : k \in 1 .. m - 1 + 1 /\ 1 + k - 1 = k
      OBVIOUS
    <2>6. \A k \in 1 .. m : sub[k] = trace[k]
      BY <2>2, <2>3, <2>5
    <2> QED
      BY <2>3, <2>4, <2>6
  <1>4. Done(reach) = 1 .. m
    <2>1. Done(reach) = {x \in 1 .. l : x <= reach /\ x <= tokens}
      BY <1>1 DEF Done
    <2> QED
      BY <1>2, <2>1
  <1>5. PICK charge : charge = [k \in 1 .. m |-> SetCost(SlotsOf(sub[k], layout), GeomOf(job), job.cm)]
    OBVIOUS
  <1>6. Predicted = SumOver(charge, 1 .. m)
    <2>1. Predicted = Evaluate(sub, layout, GeomOf(job), job.cm)
      BY <1>1, <1>2, <1>3 DEF Predicted
    <2>2. Evaluate(sub, layout, GeomOf(job), job.cm)
             = SumOver([k \in DOMAIN sub |-> SetCost(SlotsOf(sub[k], layout), GeomOf(job), job.cm)], DOMAIN sub)
      BY EvaluateIs
    <2>3. charge = [k \in DOMAIN sub |-> SetCost(SlotsOf(sub[k], layout), GeomOf(job), job.cm)]
      BY <1>3, <1>5
    <2> QED
      BY <1>3, <2>1, <2>2, <2>3, Zenon
  <1>7. \A k \in 1 .. m : charge[k] = Charges[k] /\ Charges[k] \in Nat
    <2> TAKE k \in 1 .. m
    <2>1. k \in DOMAIN job.trace
      <3>1. m <= l
        BY <1>2
      <3>2. k \in 1 .. l
        BY <3>1
      <3> QED
        BY <1>1, <3>2
    <2> QED
      BY <1>1, <1>3, <1>5, <2>1, ChargesAre DEF Charges
  <1>8. PICK D : D = 1 .. m /\ IsFiniteSet(D)
    BY FS_Interval
  <1>9. SumOver(charge, D) = SumOver(Charges, D)
    <2>1. \A k \in D : charge[k] = Charges[k] /\ charge[k] \in Nat
      BY <1>7, <1>8
    <2> QED
      BY <1>8, <2>1, SumEqual
  <1>10. SumOver(Charges, D) \in Nat
    <2>1. \A k \in D : Charges[k] \in Nat
      BY <1>7, <1>8
    <2> QED
      BY <1>8, <2>1, SumNat
  <1> QED
    BY <1>4, <1>6, <1>8, <1>9, <1>10

\* The replay reads what coact laid out, where coact's layout says it is, and pays no more than
\* coact counted (build_ranges and the cost model of cost.rs, for every model file, trace, batch
\* size and layout saved).
THEOREM FetchedAsPlannedTheorem == Spec => []FetchedAsPlanned
  <1>1. ASSUME PathInv, Ledger PROVE PredictionKept
    <2> SUFFICES ASSUME phase = "replayed", replay.gap = NoGap
                 PROVE  /\ replay.batch = 1 => Issued = Predicted
                        /\ replay.batch > 1 => Issued <= Predicted
      BY DEF PredictionKept
    <2>1. /\ Replaying /\ Rested /\ b = BatchCount /\ Paid
          /\ Opened /\ replay \in Replays /\ IsOrder(job, layout)
      BY <1>1 DEF PathInv, Ledger, Replaying
    <2>2. Finished = BatchCount
      BY <2>1 DEF Rested, Finished
    <2>3. CASE replay.batch = 0
      BY <2>3
    <2>4. CASE replay.batch # 0
      <3>1. PICK size \in Nat \ {0}, tokens \in Nat : size = replay.batch /\ tokens = replay.tokens
        BY <2>1, <2>4, ReplaysAssumption
      <3>2. PICK reach \in Nat : reach = BatchCount * size /\ tokens <= reach
        BY <3>1, BatchesReach
      <3>3. Predicted = SumOver(Charges, Done(reach))
        BY <2>1, <3>1, <3>2, PredictedIs
      <3>4. Account = Predicted
        BY <2>2, <3>1, <3>2, <3>3 DEF Account
      <3>5. Issued <= Account /\ (replay.batch = 1 => Issued = Account)
        BY <2>1, <2>4 DEF Paid
      <3> QED
        BY <3>4, <3>5
    <2> QED
      BY <2>3, <2>4
  <1> QED
    BY <1>1, PathInvariance, LedgerInvariance, BytesWantedTheorem, PTL DEF FetchedAsPlanned
=============================================================================
