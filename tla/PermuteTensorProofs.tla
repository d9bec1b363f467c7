------------------------ MODULE PermuteTensorProofs ------------------------
(***************************************************************************)
(* Proofs about PermuteTensor for every number of slots, every permutation *)
(* and every content.                                                      *)
(*                                                                         *)
(* The inductive invariant follows the cycles.  Outside a cycle `visited`  *)
(* is closed under d in both directions; inside one it is closed except    *)
(* for one open edge, from the last slot visited to the slot the loop      *)
(* fills next, called Head below.  d being injective, Head has not been    *)
(* visited unless it is the start of the cycle, hence still holds its old  *)
(* block: that is why no block is overwritten before it has been copied.   *)
(*                                                                         *)
(* What a failure leaves behind is described a second time, by CycleOrder, *)
(* in terms of the cycles of d alone.  Trail relates the two: the slots    *)
(* written are those of the cycles before the current one and a prefix of  *)
(* the path around that one.                                               *)
(***************************************************************************)
EXTENDS PermuteTensor, FiniteFacts

InCycle == pc \in {"follow", "write"}
Head == IF pc = "write" THEN d[cur] ELSE cur

\* The process has not failed: failing changes only pc and a torn slot.
Live == pc \in {"scan", "follow", "write", "done"}

\* `visited` and `written` differ by the slot in transit, and the slots the
\* outer loop has passed are visited.
Progressing ==
    /\ written = IF pc = "write" THEN visited \ {cur} ELSE visited
    /\ \A x \in Slots : x < s => x \in visited
    /\ pc = "done" => s = N

Contents ==
    \A x \in Slots : file[x] = IF x \in written THEN old[d[x]] ELSE old[x]

VisitedClosed ==
    pc \in {"scan", "done"} =>
        \A x \in Slots : x \in visited <=> d[x] \in visited

\* The chain from s to Head, and the two blocks in memory.
Chain ==
    InCycle =>
        /\ s < N /\ d[s] # s
        /\ cur \in Slots
        /\ saved = old[s]
        /\ Head \notin visited
        /\ Head # s => s \in visited
        /\ \A x \in visited : d[x] \in visited \cup {Head}
        /\ \A x \in Slots : d[x] \in visited /\ d[x] # s => x \in visited
        /\ \A x \in Slots : d[x] = Head /\ Head # s => x \in visited

InTransit ==
    pc = "write" => cur \in visited /\ block = old[d[cur]] /\ d[cur] # s

Counted == moved = Cardinality({x \in written : d[x] # x})

Core ==
    /\ TypeOK
    /\ Live => Progressing /\ Contents /\ VisitedClosed /\ Chain /\ InTransit /\ Counted

IInv == Core /\ PartlyPermuted /\ AtMostOneLost

-----------------------------------------------------------------------------
(* The slots are a finite set, so the moved ones can be counted. *)

\* There are finitely many slots.
LEMMA SlotsFinite == IsFiniteSet(Slots)
  BY NAssumption, FS_Interval DEF Slots

\* A slot that moves, newly written, adds one to the count; one that was
\* written already, or is a fixed point, adds nothing.
LEMMA CountOneMore ==
  ASSUME NEW W \in SUBSET Slots, NEW x \in Slots,
         NEW p \in [Slots -> Slots]
  PROVE  /\ x \notin W /\ p[x] # x =>
               Cardinality({y \in W \cup {x} : p[y] # y}) =
               Cardinality({y \in W : p[y] # y}) + 1
         /\ x \in W \/ p[x] = x =>
               {y \in W \cup {x} : p[y] # y} = {y \in W : p[y] # y}
<1> DEFINE M == {y \in W : p[y] # y}
<1>1. IsFiniteSet(M)
  BY SlotsFinite, FS_Subset
<1>2. ASSUME x \notin W, p[x] # x
      PROVE  Cardinality({y \in W \cup {x} : p[y] # y}) = Cardinality(M) + 1
  <2>1. {y \in W \cup {x} : p[y] # y} = M \cup {x}
    BY <1>2
  <2>2. x \notin M
    BY <1>2
  <2> QED
    BY <1>1, <2>1, <2>2, FS_AddElement
<1>3. ASSUME x \in W \/ p[x] = x
      PROVE  {y \in W \cup {x} : p[y] # y} = M
  BY <1>3
<1> QED
  BY <1>2, <1>3

-----------------------------------------------------------------------------
(* The invariant, one lemma per action. *)

\* The first state is one the loop may be in.
LEMMA InitCore == Init => Core
<1> SUFFICES ASSUME Init PROVE Core
  OBVIOUS
<1>1. TypeOK
  BY NAssumption DEF Init, TypeOK, Slots
<1>2. Counted
  <2>1. {x \in written : d[x] # x} = {}
    BY DEF Init
  <2> QED
    BY <2>1, FS_EmptySet DEF Init, Counted
<1>3. Progressing /\ Contents /\ VisitedClosed /\ Chain /\ InTransit
  BY NAssumption DEF Init, Progressing, Contents, VisitedClosed, Chain, InTransit,
     InCycle, Slots
<1> QED
  BY <1>1, <1>2, <1>3 DEF Core

LEMMA SkipCore == Core /\ Skip => Core'
<1> SUFFICES ASSUME Core, Skip PROVE Core'
  OBVIOUS
<1> USE DEF Skip, inputs
<1>0. /\ TypeOK /\ Progressing /\ Contents /\ VisitedClosed /\ Counted
      /\ pc = "scan" /\ pc' = "scan" /\ s \in Slots /\ written = visited
  <2>1. TypeOK /\ Live
    BY DEF Core, Live
  <2>2. s \in Slots
    BY <2>1, NAssumption DEF TypeOK, Slots
  <2> QED
    BY <2>1, <2>2 DEF Core, Progressing
<1>1. TypeOK'
  <2>1. s' \in 0 .. N
    BY <1>0, NAssumption DEF Slots
  <2> QED
    BY <1>0, <2>1 DEF TypeOK
<1>2. Progressing'
  BY <1>0, NAssumption DEF Progressing, TypeOK, Slots
<1>3. Contents'
  BY <1>0 DEF Contents, TypeOK
<1>4. VisitedClosed'
  BY <1>0 DEF VisitedClosed, TypeOK, IsPermutation
<1>5. Chain' /\ InTransit'
  BY <1>0 DEF Chain, InTransit, InCycle
<1>6. Counted'
  <2>1. {x \in written \cup {s} : d[x] # x} = {x \in written : d[x] # x}
    BY <1>0, CountOneMore DEF TypeOK
  <2> QED
    BY <1>0, <2>1 DEF Counted
<1> QED
  BY <1>1, <1>2, <1>3, <1>4, <1>5, <1>6 DEF Core

LEMMA ReadSavedCore == Core /\ ReadSaved => Core'
<1> SUFFICES ASSUME Core, ReadSaved PROVE Core'
  OBVIOUS
<1> USE DEF ReadSaved, inputs
<1>0. /\ TypeOK /\ Progressing /\ Contents /\ VisitedClosed /\ Counted
      /\ pc = "scan" /\ pc' = "follow" /\ s \in Slots /\ written = visited
  <2>1. TypeOK /\ Live
    BY DEF Core, Live
  <2>2. s \in Slots
    BY <2>1, NAssumption DEF TypeOK, Slots
  <2> QED
    BY <2>1, <2>2 DEF Core, Progressing
<1>1. TypeOK'
  BY <1>0, NAssumption DEF TypeOK, IsPermutation, Slots
<1>2. Progressing' /\ Contents' /\ VisitedClosed' /\ InTransit' /\ Counted'
  BY <1>0 DEF Progressing, Contents, VisitedClosed, InTransit, Counted
<1>3. Chain'
  <2>1. saved' = old[s]
    BY <1>0 DEF Contents
  <2>2. Head' = s
    BY <1>0 DEF Head
  <2> QED
    BY <1>0, <2>1, <2>2, NAssumption DEF Chain, VisitedClosed, TypeOK, Slots
<1> QED
  BY <1>1, <1>2, <1>3 DEF Core

LEMMA ReadBlockCore == Core /\ ReadBlock => Core'
<1> SUFFICES ASSUME Core, ReadBlock PROVE Core'
  OBVIOUS
<1> USE DEF ReadBlock, inputs
<1>0. /\ TypeOK /\ Progressing /\ Contents /\ Chain /\ Counted
      /\ pc = "follow" /\ pc' = "write" /\ written = visited
      /\ Head = cur /\ cur \in Slots /\ cur \notin visited /\ InCycle /\ InCycle'
  BY DEF Core, Live, Progressing, Head, InCycle, Chain
<1> DEFINE src == d[cur]
<1>1. src \in Slots /\ src \notin visited \cup {cur}
  BY <1>0 DEF Chain, TypeOK
<1>2. Head' = src
  BY <1>0 DEF Head
<1>3. file[src] = old[src]
  BY <1>0, <1>1 DEF Contents
<1>4. TypeOK'
  BY <1>0, <1>1, NAssumption DEF TypeOK, IsPermutation, Slots
<1>5. Progressing'
  BY <1>0 DEF Progressing
<1>6. Contents' /\ VisitedClosed' /\ Counted'
  BY <1>0 DEF Contents, VisitedClosed, Counted
<1>7. Chain'
  BY <1>0, <1>1, <1>2 DEF Chain, TypeOK, IsPermutation
<1>8. InTransit'
  BY <1>0, <1>3 DEF InTransit
<1> QED
  BY <1>4, <1>5, <1>6, <1>7, <1>8 DEF Core

LEMMA WriteBlockCore == Core /\ WriteBlock => Core'
<1> SUFFICES ASSUME Core, WriteBlock PROVE Core'
  OBVIOUS
<1> USE DEF WriteBlock, inputs
<1>0. /\ TypeOK /\ Progressing /\ Contents /\ Chain /\ InTransit /\ Counted
      /\ pc = "write" /\ pc' = "follow" /\ written = visited \ {cur}
      /\ Head = d[cur] /\ cur \in Slots /\ cur \in visited /\ InCycle /\ InCycle'
  BY DEF Core, Live, Progressing, Head, InCycle, Chain, InTransit
<1>1. written' = visited
  BY <1>0
<1>2. Head' = d[cur] /\ d[cur] \in Slots
  BY <1>0 DEF Head, TypeOK
<1>3. TypeOK'
  <2>1. cur' \in 0 .. N
    BY <1>0, <1>2, NAssumption DEF Slots
  <2>2. file' \in [Slots -> Blocks \cup {Torn}]
    BY <1>0 DEF TypeOK
  <2>3. moved' \in Nat /\ written' \in SUBSET Slots
    BY <1>0 DEF TypeOK
  <2> QED
    BY <1>0, <2>1, <2>2, <2>3 DEF TypeOK
<1>4. Progressing' /\ VisitedClosed' /\ InTransit'
  BY <1>0, <1>1 DEF Progressing, VisitedClosed, InTransit
<1>5. Contents'
  BY <1>0 DEF Contents, InTransit, TypeOK
<1>6. Chain'
  BY <1>0, <1>2 DEF Chain
<1>7. Counted'
  <2>1. cur \notin written /\ d[cur] # cur
    BY <1>0 DEF Chain
  <2> QED
    BY <1>0, <2>1, CountOneMore DEF Counted, TypeOK
<1> QED
  BY <1>3, <1>4, <1>5, <1>6, <1>7 DEF Core

LEMMA WriteSavedCore == Core /\ WriteSaved => Core'
<1> SUFFICES ASSUME Core, WriteSaved PROVE Core'
  OBVIOUS
<1> USE DEF WriteSaved, inputs
<1>0. /\ TypeOK /\ Progressing /\ Contents /\ Chain /\ Counted
      /\ pc = "follow" /\ pc' = "scan" /\ written = visited /\ d[cur] = s
      /\ Head = cur /\ cur \in Slots /\ cur \notin visited /\ InCycle
  BY DEF Core, Live, Progressing, Head, InCycle, Chain
<1>1. TypeOK'
  <2>1. s' \in 0 .. N
    BY <1>0, NAssumption DEF Chain, TypeOK
  <2>2. file' \in [Slots -> Blocks \cup {Torn}]
    BY <1>0 DEF TypeOK
  <2>3. moved' \in Nat /\ written' \in SUBSET Slots /\ visited' \in SUBSET Slots
    BY <1>0 DEF TypeOK
  <2> QED
    BY <1>0, <2>1, <2>2, <2>3 DEF TypeOK
<1>2. Progressing'
  BY <1>0, NAssumption DEF Progressing, Chain, TypeOK, Slots
<1>3. Contents'
  BY <1>0 DEF Contents, Chain, TypeOK
<1>4. VisitedClosed'
  <2> SUFFICES ASSUME NEW x \in Slots
               PROVE  x \in visited' <=> d[x] \in visited'
    BY DEF VisitedClosed
  <2>1. ASSUME x \in visited' PROVE d[x] \in visited'
    BY <1>0, <2>1 DEF Chain
  <2>2. ASSUME d[x] \in visited' PROVE x \in visited'
    BY <1>0, <2>2 DEF Chain, TypeOK, IsPermutation
  <2> QED
    BY <2>1, <2>2
<1>5. Chain' /\ InTransit'
  BY <1>0 DEF Chain, InTransit, InCycle
<1>6. Counted'
  <2>1. cur \notin written /\ d[cur] # cur
    BY <1>0 DEF Chain
  <2> QED
    BY <1>0, <2>1, CountOneMore DEF Counted, TypeOK
<1> QED
  BY <1>1, <1>2, <1>3, <1>4, <1>5, <1>6 DEF Core

LEMMA FinishCore == Core /\ Finish => Core'
<1> SUFFICES ASSUME Core, Finish PROVE Core'
  OBVIOUS
<1> USE DEF Finish, inputs
<1>0. /\ TypeOK /\ Progressing /\ Contents /\ VisitedClosed /\ Counted
      /\ pc = "scan" /\ pc' = "done"
  BY DEF Core, Live
<1>1. TypeOK'
  BY <1>0 DEF TypeOK, IsPermutation
<1>2. Progressing' /\ Contents' /\ VisitedClosed' /\ Chain' /\ InTransit' /\ Counted'
  BY <1>0 DEF Progressing, Contents, VisitedClosed, Chain, InTransit, InCycle, Counted
<1> QED
  BY <1>1, <1>2 DEF Core

LEMMA FailCore == Core /\ Fail => Core'
  BY DEF Core, Fail, inputs, Live, TypeOK, IsPermutation

LEMMA NextCore == Core /\ [Next]_vars => Core'
<1> SUFFICES ASSUME Core, [Next]_vars PROVE Core'
  OBVIOUS
<1>1. CASE Next
  BY <1>1, SkipCore, ReadSavedCore, ReadBlockCore, WriteBlockCore, WriteSavedCore,
     FinishCore, FailCore DEF Next, Progress
<1>2. CASE UNCHANGED vars
  BY <1>2 DEF vars, Core, Live, TypeOK, Progressing, Contents, VisitedClosed, Chain,
     InTransit, InCycle, Head, Counted
<1> QED
  BY <1>1, <1>2

-----------------------------------------------------------------------------
(* What the invariant says of a file nobody failed on. *)

\* While the loop runs the tensor is partly permuted and at most one slab is in memory only.
LEMMA LiveContents ==
  ASSUME Core, Live
  PROVE  PartlyPermuted /\ AtMostOneLost
<1>0. TypeOK /\ Progressing /\ Contents /\ VisitedClosed /\ Chain /\ InTransit
  BY DEF Core
<1>1. PartlyPermuted
  BY <1>0 DEF Contents, PartlyPermuted
<1>2. AtMostOneLost
  <2> SUFFICES ASSUME NEW y \in Slots, \A x \in Slots : file[x] # old[y]
               PROVE  y = s /\ pc \in {"follow", "write", "failed"}
    BY DEF AtMostOneLost
  <2>1. PICK z \in Slots : d[z] = y
    BY <1>0 DEF TypeOK, IsPermutation
  <2>2. y \in written /\ z \notin written
    BY <1>0, <2>1 DEF Contents
  <2>3. InCycle
    BY <1>0, <2>1, <2>2 DEF Progressing, VisitedClosed, Live, InCycle, TypeOK
  <2>4. y = s
    BY <1>0, <2>1, <2>2, <2>3 DEF Progressing, Chain, Head, InCycle
  <2> QED
    BY <2>3, <2>4 DEF InCycle
<1> QED
  BY <1>1, <1>2

\* The slot a failing write may tear has not received its final block yet, and
\* the block it held has been copied, to the slot before it or to `saved`.
LEMMA AtWriteSlot ==
  ASSUME Core, AtWrite
  PROVE  /\ cur \in Slots /\ cur \notin written
         /\ \A z \in Slots : d[z] = cur /\ cur # s => z \in written
<1>0. TypeOK /\ Progressing /\ Chain /\ InTransit /\ InCycle
  BY DEF Core, Live, AtWrite, InCycle
<1>1. cur \in Slots /\ cur \notin written
  BY <1>0 DEF Progressing, Chain, Head, AtWrite, InCycle
<1>2. ASSUME NEW z \in Slots, d[z] = cur, cur # s
      PROVE  z \in written
  <2>1. CASE pc = "write"
    <3>1. z \in visited
      BY <1>0, <1>2, <2>1 DEF Chain, InTransit
    <3>2. z # cur
      BY <1>0, <1>2, <2>1 DEF Chain, Head, InTransit
    <3> QED
      BY <1>0, <2>1, <3>1, <3>2 DEF Progressing
  <2>2. CASE pc = "follow"
    BY <1>0, <1>2, <2>2 DEF Chain, Head, Progressing
  <2> QED
    BY <2>1, <2>2 DEF AtWrite
<1> QED
  BY <1>1, <1>2

\* A failing step loses at most the slab that was in memory only.
LEMMA FailContents ==
  ASSUME Core, Fail
  PROVE  PartlyPermuted' /\ AtMostOneLost'
<1>0. TypeOK /\ Live /\ Contents /\ Progressing /\ VisitedClosed /\ Chain /\ InTransit
  BY DEF Core, Fail, Live
<1>1. pc' = "failed" /\ UNCHANGED <<d, s, cur, written, old>>
  BY DEF Fail, inputs
<1>2. CASE file' = file
  <2>1. PartlyPermuted'
    BY <1>0, <1>1, <1>2 DEF Contents, PartlyPermuted
  <2>2. AtMostOneLost'
    BY <1>1, <1>2, LiveContents, <1>0 DEF AtMostOneLost
  <2> QED
    BY <2>1, <2>2
<1>3. CASE AtWrite /\ file' = [file EXCEPT ![cur] = Torn]
  <2>0. cur \in Slots /\ cur \notin written
    BY <1>3, AtWriteSlot
  <2>1. PartlyPermuted'
    BY <1>0, <1>1, <1>3, <2>0 DEF Contents, PartlyPermuted, TypeOK
  <2>2. AtMostOneLost'
    <3> SUFFICES ASSUME NEW y \in Slots, \A x \in Slots : file'[x] # old[y]
                 PROVE  y = s
      BY <1>1 DEF AtMostOneLost
    <3>1. PICK z \in Slots : d[z] = y
      BY <1>0 DEF TypeOK, IsPermutation
    <3>2. \A x \in Slots : x # cur => file'[x] = file[x]
      BY <1>0, <1>3 DEF TypeOK
    <3>3. CASE y = cur
      <4> SUFFICES ASSUME cur # s PROVE FALSE
        BY <3>3
      <4>1. z \in written
        BY <1>3, <3>1, <3>3, AtWriteSlot
      <4> QED
        BY <1>0, <2>0, <3>1, <3>2, <4>1 DEF Contents
    <3>4. CASE y # cur
      <4>1. y \in written
        BY <1>0, <3>2, <3>4 DEF Contents
      <4>2. z \notin written
        BY <1>0, <2>0, <3>1, <3>2 DEF Contents
      <4>3. InCycle
        BY <1>3 DEF AtWrite, InCycle
      <4> QED
        BY <1>0, <3>1, <4>1, <4>2, <4>3 DEF Progressing, Chain, Head, InCycle
    <3> QED
      BY <3>3, <3>4
  <2> QED
    BY <2>1, <2>2
<1> QED
  BY <1>2, <1>3 DEF Fail

LEMMA InitIInv == Init => IInv
  BY InitCore, LiveContents DEF IInv, Init, Live

LEMMA NextIInv == IInv /\ [Next]_vars => IInv'
<1> SUFFICES ASSUME IInv, [Next]_vars PROVE IInv'
  OBVIOUS
<1>1. Core'
  BY NextCore DEF IInv
<1>2. CASE Progress
  <2>1. Live'
    BY <1>2 DEF Progress, Skip, ReadSaved, ReadBlock, WriteBlock, WriteSaved,
       Finish, Live
  <2> QED
    BY <1>1, <2>1, LiveContents, PTL DEF IInv
<1>3. CASE Fail
  BY <1>1, <1>3, FailContents DEF IInv
<1>4. CASE UNCHANGED vars
  BY <1>1, <1>4 DEF IInv, vars, PartlyPermuted, AtMostOneLost
<1> QED
  BY <1>2, <1>3, <1>4 DEF Next

-----------------------------------------------------------------------------
(* Theorems *)

LEMMA Invariance == Spec => []IInv
<1>1. Init => IInv
  BY InitIInv
<1>2. IInv /\ [Next]_vars => IInv'
  BY NextIInv
<1> QED
  BY <1>1, <1>2, PTL DEF Spec

\* Every variable keeps its type; in particular d stays a permutation and the
\* loop indices stay inside the tensor.
THEOREM TypeCorrect == Spec => []TypeOK
<1>1. IInv => TypeOK
  BY DEF IInv, Core
<1> QED
  BY <1>1, Invariance, PTL

\* permute_tensor is correct for every number of slots, permutation and content:
\* when it returns Ok, slot x holds what slot d[x] held.
THEOREM PermutedTheorem == Spec => []Permuted
<1>1. IInv => Permuted
  <2> SUFFICES ASSUME IInv, pc = "done"
               PROVE  file = [x \in Slots |-> old[d[x]]]
    BY DEF Permuted
  <2>1. TypeOK /\ Progressing /\ Contents
    BY DEF IInv, Core, Live
  <2>2. \A x \in Slots : x \in written
    BY <2>1, NAssumption DEF Progressing, Slots
  <2> QED
    BY <2>1, <2>2 DEF Contents, TypeOK
<1> QED
  BY <1>1, Invariance, PTL

\* At every step, and wherever a failure stops it, the file is the old one with
\* some slots final and at most one torn.
THEOREM PartlyPermutedTheorem == Spec => []PartlyPermuted
<1>1. IInv => PartlyPermuted
  BY DEF IInv
<1> QED
  BY <1>1, Invariance, PTL

\* A failure or a kill at any step loses at most the first block of the cycle
\* being followed, the one the process kept in memory.
THEOREM AtMostOneLostTheorem == Spec => []AtMostOneLost
<1>1. IInv => AtMostOneLost
  BY DEF IInv
<1> QED
  BY <1>1, Invariance, PTL

\* The byte count returned is that of the slots that move.
THEOREM MovedExactTheorem == Spec => []MovedExact
<1>1. IInv => MovedExact
  <2> SUFFICES ASSUME IInv, pc = "done"
               PROVE  moved = Cardinality({x \in Slots : d[x] # x})
    BY DEF MovedExact
  <2>1. TypeOK /\ Progressing /\ Counted
    BY DEF IInv, Core, Live
  <2>2. \A x \in Slots : x \in written
    BY <2>1, NAssumption DEF Progressing, Slots
  <2>3. written = Slots
    BY <2>1, <2>2 DEF TypeOK
  <2> QED
    BY <2>1, <2>3 DEF Counted
<1> QED
  BY <1>1, Invariance, PTL

\* When it returns Ok the order is right and so is the count it reports.
THEOREM RewrittenTheorem == Spec => []Rewritten
<1>1. Permuted /\ MovedExact => Rewritten
  BY DEF Rewritten
<1> QED
  BY <1>1, PermutedTheorem, MovedExactTheorem, PTL

\* When it does not, at most one block is lost, and no slot but one is neither old nor final.
THEOREM FailureContainedTheorem == Spec => []FailureContained
<1>1. PartlyPermuted /\ AtMostOneLost => FailureContained
  BY DEF FailureContained
<1> QED
  BY <1>1, PartlyPermutedTheorem, AtMostOneLostTheorem, PTL

\* No step touches a slot that has received its final block.
THEOREM WriteOnceTheorem == Spec => WriteOnce
<1>1. IInv /\ [Next]_vars =>
        [\A x \in Slots : x \in written => file'[x] = file[x]]_vars
  <2> SUFFICES ASSUME IInv, Next, NEW x \in Slots, x \in written
               PROVE  file'[x] = file[x]
    OBVIOUS
  <2>0. Core /\ TypeOK
    BY DEF IInv, Core
  <2>1. CASE file' = file
    BY <2>1
  <2>2. CASE WriteBlock
    <3>1. AtWrite
      BY <2>2 DEF WriteBlock, AtWrite
    <3> QED
      BY <2>0, <2>2, <3>1, AtWriteSlot DEF WriteBlock, TypeOK
  <2>3. CASE WriteSaved
    <3>1. AtWrite
      BY <2>3 DEF WriteSaved, AtWrite
    <3> QED
      BY <2>0, <2>3, <3>1, AtWriteSlot DEF WriteSaved, TypeOK
  <2>4. CASE Fail
    BY <2>0, <2>1, <2>4, AtWriteSlot DEF Fail, TypeOK
  <2> QED
    BY <2>1, <2>2, <2>3, <2>4 DEF Next, Progress, Skip, ReadSaved, ReadBlock, Finish
<1> QED
  BY <1>1, Invariance, PTL DEF Spec, WriteOnce

-----------------------------------------------------------------------------
(* The images a crash can leave *)

\* The moving slots of W, and how far the rewrite has come: the cycles of the leaders the
\* outer loop has passed, and in the cycle at hand the first k slots of its orbit.
Covers(W) == \A x \in Slots : d[x] # x => (x \in written <=> x \in W)

Trail ==
    /\ pc \in {"scan", "done"} => Covers(Cy!Before(d, s))
    /\ InCycle =>
        /\ s \in Cy!Leaders(d)
        /\ \E k \in 0 .. Cardinality(Cy!Cycle(d, s)) - 1 :
              /\ cur = Cy!Iterate(d, s)[k]
              /\ Covers(Cy!Before(d, s) \cup Cy!Path(d, s, k))

CInv == Core /\ (Live => Trail)

\* The images are the same under either name.
LEMMA SameImages ==
    C!CrashImages(d, old, Torn) = Cy!CrashImages(d, old, Torn)
BY DEF C!CrashImages, C!Permute, C!Stopped, C!Rewritten, C!Before, C!Leaders, C!Moving, C!Cycle, C!Path,
       C!Iterate, C!Cardinality, Cy!CrashImages, Cy!Permute, Cy!Stopped, Cy!Rewritten, Cy!Before,
       Cy!Leaders, Cy!Moving, Cy!Cycle, Cy!Path, Cy!Iterate, Cy!Cardinality, Cardinality

\* The table the proofs read is a permutation of the slots.
LEMMA DPermutes == TypeOK => Permutes(d, Slots) /\ Slots \in SUBSET Int /\ DOMAIN d = Slots
BY SlotsFinite DEF TypeOK, IsPermutation, Permutes, Slots

\* What the cycles before slot x are.
LEMMA BeforeIs ==
    ASSUME NEW p, NEW x
    PROVE  \A z : z \in Cy!Before(p, x) <=> \E y \in Cy!Leaders(p) : y < x /\ z \in Cy!Cycle(p, y)
BY DEF Cy!Before

\* What a leader is.
LEMMA LeaderIs ==
    ASSUME NEW D, NEW p, Permutes(p, D), NEW x
    PROVE  x \in Cy!Leaders(p) <=> x \in D /\ p[x] # x /\ \A y \in Cy!Cycle(p, x) : x <= y
BY DEF Cy!Leaders, Cy!Moving, Permutes

\* Before the first slot there is no cycle.
LEMMA InitTrail == Init => CInv
<1> SUFFICES ASSUME Init PROVE CInv
  OBVIOUS
<1>1. Core
  BY InitCore
<1>2. Permutes(d, Slots)
  BY <1>1, DPermutes DEF Core
<1>3. \A y \in Cy!Leaders(d) : ~ (y < 0)
  <2>1. \A y \in Cy!Leaders(d) : y \in Slots
    BY <1>2, LeaderIs
  <2> QED BY <2>1 DEF Slots
<1>4. Covers(Cy!Before(d, s))
  BY <1>3, BeforeIs DEF Init, Covers
<1> QED BY <1>1, <1>4 DEF Init, CInv, Trail, InCycle

\* A slot passed over adds no cycle.
LEMMA SkipTrail ==
    ASSUME CInv, Skip
    PROVE  CInv'
<1>1. Core' /\ Core /\ Trail /\ TypeOK
  BY SkipCore DEF CInv, Core, Skip, Live
<1>2. /\ pc = "scan" /\ pc' = "scan" /\ s \in Slots /\ s' = s + 1 /\ written' = written \cup {s} /\ d' = d
      /\ s \in visited \/ d[s] = s
      /\ written = visited
  <2>1. s \in Slots
    BY <1>1, NAssumption DEF Skip, TypeOK, Slots
  <2> QED BY <1>1, <2>1 DEF Skip, inputs, Core, Live, Progressing
<1>3. Permutes(d, Slots) /\ Slots \in SUBSET Int
  BY <1>1, DPermutes
<1>4. Covers(Cy!Before(d, s))
  BY <1>1, <1>2 DEF Trail
<1>5. s \notin Cy!Leaders(d)
  <2> SUFFICES ASSUME s \in Cy!Leaders(d) PROVE FALSE
    OBVIOUS
  <2>1. d[s] # s /\ s \notin Cy!Before(d, s)
    BY <1>3, BeforeClosed
  <2> QED BY <1>2, <1>4, <2>1 DEF Covers
<1>6. \A z : z \in Cy!Before(d, s + 1) <=> z \in Cy!Before(d, s)
  <2>1. \A y \in Cy!Leaders(d) : y < s + 1 <=> y < s
    <3>1. \A y \in Cy!Leaders(d) : y \in Slots
      BY <1>3, LeaderIs
    <3> QED BY <1>2, <1>5, <3>1 DEF Slots
  <2> QED BY <2>1, BeforeIs
<1>7. Trail'
  <2>1. Covers(Cy!Before(d, s))'
    BY <1>2, <1>4, <1>6 DEF Covers
  <2> QED BY <1>2, <2>1 DEF Trail, InCycle
<1> QED BY <1>1, <1>7 DEF CInv

\* The slot a new cycle starts with is its smallest, since the smaller ones have been visited.
LEMMA ReadSavedTrail ==
    ASSUME CInv, ReadSaved
    PROVE  CInv'
<1>1. Core' /\ Core /\ Trail /\ TypeOK
  BY ReadSavedCore DEF CInv, Core, ReadSaved, Live
<1>2. /\ pc = "scan" /\ pc' = "follow" /\ s \in Slots /\ s' = s /\ cur' = s /\ written' = written /\ d' = d
      /\ s \notin visited /\ d[s] # s /\ visited \subseteq Slots
      /\ \A x \in Slots : x < s => x \in visited
      /\ \A x \in Slots : x \in visited <=> d[x] \in visited
  <2>1. s \in Slots
    BY <1>1, NAssumption DEF ReadSaved, TypeOK, Slots
  <2> QED BY <1>1, <2>1 DEF ReadSaved, inputs, Core, Live, Progressing, VisitedClosed, TypeOK
<1>3. Permutes(d, Slots) /\ Slots \in SUBSET Int
  BY <1>1, DPermutes
<1>4. PICK it, n, c : /\ it = Cy!Iterate(d, s) /\ n = Cardinality(Slots)
                      /\ c = Cardinality(Cy!Cycle(d, s))
  OBVIOUS
<1>5. Orbit(it, d, Slots, s) /\ n \in Nat /\ DOMAIN d = Slots /\ c \in 1 .. n
  BY <1>2, <1>3, <1>4, IterateIs, CycleLength
<1>6. s \in Cy!Leaders(d)
  <2> SUFFICES ASSUME NEW y \in Cy!Cycle(d, s) PROVE s <= y
    BY <1>2, <1>3, LeaderIs
  <2>1. PICK i \in 0 .. n - 1 : y = it[i]
    <3>1. Cy!Cycle(d, s) = {it[i] : i \in 0 .. Cardinality(DOMAIN d) - 1}
      BY <1>4 DEF Cy!Cycle, Cy!Path, Cy!Cardinality, Cardinality
    <3> QED BY <1>4, <1>5, <3>1
  <2>2. Closed(visited, d, Slots)
    BY <1>2, <1>3 DEF Closed, Permutes
  <2>3. it[i] \in visited <=> s \in visited
    <3>1. /\ s \in Slots /\ Orbit(it, d, Slots, s) /\ Closed(visited, d, Slots) /\ n \in Nat
          /\ n = Cardinality(Slots) /\ i \in 0 .. n
      BY <1>2, <1>4, <1>5, <2>2
    <3> QED BY ONLY <3>1, OrbitInside
  <2>4. y \in Slots
    <3>1. i \in 0 .. n
      BY <1>5
    <3> QED BY <1>4, <1>5, <2>1, <3>1 DEF Orbit
  <2>5. y \notin visited
    BY <1>2, <2>1, <2>3
  <2> QED BY <1>2, <1>3, <2>4, <2>5 DEF Slots
<1>7. it[0] = s /\ 0 \in 0 .. c - 1
  BY <1>5 DEF Orbit
<1>8. Covers(Cy!Before(d, s) \cup Cy!Path(d, s, 0))
  BY <1>1, <1>2 DEF Trail, Covers, Cy!Path
<1>9. Covers(Cy!Before(d, s) \cup Cy!Path(d, s, 0))'
  BY <1>2, <1>8 DEF Covers
<1>10. /\ (s \in Cy!Leaders(d))' /\ (0 \in 0 .. Cardinality(Cy!Cycle(d, s)) - 1)'
       /\ (cur = Cy!Iterate(d, s)[0])'
  BY <1>2, <1>4, <1>6, <1>7
<1>11. Trail'
  BY <1>2, <1>9, <1>10 DEF Trail
<1> QED BY <1>1, <1>11 DEF CInv

\* A block read leaves the file and the slot to be filled as they are.
LEMMA ReadBlockTrail ==
    ASSUME CInv, ReadBlock
    PROVE  CInv'
<1>1. Core' /\ Core /\ Trail
  BY ReadBlockCore DEF CInv, Core, ReadBlock, Live
<1>2. pc = "follow" /\ pc' = "write" /\ UNCHANGED <<s, cur, written, d>>
  BY DEF ReadBlock, inputs
<1>3. Trail'
  BY <1>1, <1>2 DEF Trail, InCycle, Covers
<1> QED BY <1>1, <1>3 DEF CInv

\* One more slot of the cycle at hand, which is not its last.
LEMMA WriteBlockTrail ==
    ASSUME CInv, WriteBlock
    PROVE  CInv'
<1>1. Core' /\ Core /\ Trail /\ TypeOK
  BY WriteBlockCore DEF CInv, Core, WriteBlock, Live
<1>2. /\ pc = "write" /\ pc' = "follow" /\ s' = s /\ d' = d /\ written' = written \cup {cur} /\ cur' = d[cur]
      /\ d[cur] # s
  BY <1>1 DEF WriteBlock, inputs, Core, Live, InTransit
<1>3. Permutes(d, Slots) /\ Slots \in SUBSET Int /\ s \in Cy!Leaders(d)
  BY <1>1, <1>2, DPermutes DEF Trail, InCycle
<1>4. s \in Slots
  BY <1>3, LeaderIs
<1>5. PICK it, n, c : /\ it = Cy!Iterate(d, s) /\ n = Cardinality(Slots)
                      /\ c = Cardinality(Cy!Cycle(d, s))
  OBVIOUS
<1>6. Orbit(it, d, Slots, s) /\ n \in Nat /\ c \in 1 .. n /\ it[c] = s
  BY <1>3, <1>4, <1>5, IterateIs, CycleLength
<1>7. PICK k \in 0 .. c - 1 : cur = it[k] /\ Covers(Cy!Before(d, s) \cup Cy!Path(d, s, k))
  BY <1>1, <1>2, <1>5 DEF Trail, InCycle
<1>8. it[k + 1] = d[cur]
  <2>1. k \in 0 .. n - 1
    BY <1>6, <1>7
  <2> QED BY <1>5, <1>6, <1>7, <2>1 DEF Orbit
<1>9. k + 1 \in 0 .. c - 1
  <2>1. k + 1 # c
    BY <1>2, <1>6, <1>8
  <2> QED BY <1>6, <1>7, <2>1
<1>10. \A z : z \in Cy!Path(d, s, k + 1) <=> z \in Cy!Path(d, s, k) \/ z = cur
  <2>1. \A i : i \in 0 .. (k + 1) - 1 <=> i \in 0 .. k - 1 \/ i = k
    BY <1>6, <1>7
  <2> QED BY <1>5, <1>7, <2>1 DEF Cy!Path
<1>11. Covers(Cy!Before(d, s) \cup Cy!Path(d, s, k + 1))'
  BY <1>2, <1>7, <1>10 DEF Covers
<1>12. /\ (s \in Cy!Leaders(d))' /\ (cur = Cy!Iterate(d, s)[k + 1])'
       /\ (k + 1 \in 0 .. Cardinality(Cy!Cycle(d, s)) - 1)'
  BY <1>2, <1>3, <1>5, <1>8, <1>9
<1>13. Trail'
  BY <1>2, <1>11, <1>12 DEF Trail
<1> QED BY <1>1, <1>13 DEF CInv

\* Back at its start the orbit has visited the whole cycle.
LEMMA WriteSavedTrail ==
    ASSUME CInv, WriteSaved
    PROVE  CInv'
<1>1. Core' /\ Core /\ Trail /\ TypeOK
  BY WriteSavedCore DEF CInv, Core, WriteSaved, Live
<1>2. /\ pc = "follow" /\ pc' = "scan" /\ s' = s + 1 /\ d' = d /\ written' = written \cup {cur} /\ d[cur] = s
  BY DEF WriteSaved, inputs
<1>3. Permutes(d, Slots) /\ Slots \in SUBSET Int /\ s \in Cy!Leaders(d)
  BY <1>1, <1>2, DPermutes DEF Trail, InCycle
<1>4. s \in Slots
  BY <1>3, LeaderIs
<1>5. PICK it, n, c : /\ it = Cy!Iterate(d, s) /\ n = Cardinality(Slots)
                      /\ c = Cardinality(Cy!Cycle(d, s))
  OBVIOUS
<1>6. Orbit(it, d, Slots, s) /\ n \in Nat /\ c \in 1 .. n
  BY <1>3, <1>4, <1>5, IterateIs, CycleLength
<1>7. PICK k \in 0 .. c - 1 : cur = it[k] /\ Covers(Cy!Before(d, s) \cup Cy!Path(d, s, k))
  BY <1>1, <1>2, <1>5 DEF Trail, InCycle
<1>8. PICK m : m = k + 1
  OBVIOUS
<1>9. m \in 1 .. n /\ it[m] = s
  <2>1. k \in 0 .. n - 1 /\ m \in 1 .. n
    BY <1>6, <1>7, <1>8
  <2> QED BY <1>2, <1>5, <1>6, <1>7, <1>8, <2>1 DEF Orbit
<1>10. Cy!Cycle(d, s) = Cy!Path(d, s, m)
  BY <1>3, <1>4, <1>5, <1>9, CycleIs
<1>11. \A z : z \in Cy!Path(d, s, m) <=> z \in Cy!Path(d, s, k) \/ z = cur
  <2>1. \A i : i \in 0 .. m - 1 <=> i \in 0 .. k - 1 \/ i = k
    BY <1>6, <1>7, <1>8
  <2> QED BY <1>5, <1>7, <2>1 DEF Cy!Path
<1>12. \A z : z \in Cy!Before(d, s + 1) <=> z \in Cy!Before(d, s) \/ z \in Cy!Cycle(d, s)
  <2>1. \A y \in Cy!Leaders(d) : y < s + 1 <=> y < s \/ y = s
    <3>1. \A y \in Cy!Leaders(d) : y \in Slots
      BY <1>3, LeaderIs
    <3> QED BY <1>4, <3>1 DEF Slots
  <2> QED BY <1>3, <2>1, BeforeIs
<1>13. Covers(Cy!Before(d, s))'
  BY <1>2, <1>7, <1>10, <1>11, <1>12 DEF Covers
<1>14. Trail'
  BY <1>2, <1>13 DEF Trail, InCycle
<1> QED BY <1>1, <1>14 DEF CInv

\* The way here is part of the invariant.
LEMMA NextTrail == CInv /\ [Next]_vars => CInv'
<1> SUFFICES ASSUME CInv, [Next]_vars PROVE CInv'
  OBVIOUS
<1>1. Core'
  BY NextCore DEF CInv
<1>2. CASE Finish
  BY <1>1, <1>2 DEF Finish, inputs, CInv, Trail, InCycle, Live, Covers
<1>3. CASE Fail
  BY <1>1, <1>3 DEF Fail, CInv, Live
<1>4. CASE UNCHANGED vars
  BY <1>1, <1>4 DEF vars, CInv, Trail, InCycle, Live, Covers
<1> QED BY <1>2, <1>3, <1>4, SkipTrail, ReadSavedTrail, ReadBlockTrail, WriteBlockTrail, WriteSavedTrail
        DEF Next, Progress

\* What a file is of which the slots W have been rewritten.
LEMMA CoveredFile ==
    ASSUME Core, Live, NEW W, Covers(W)
    PROVE  file = Cy!Rewritten(d, old, W)
<1>1. TypeOK /\ Contents
  BY DEF Core
<1>2. \A x \in Slots : file[x] = IF x \in W THEN old[d[x]] ELSE old[x]
  BY <1>1 DEF Contents, Covers
<1> QED BY <1>1, <1>2 DEF TypeOK, Cy!Rewritten

\* Where the rewrite may stop in a cycle.
LEMMA StoppedIsImage ==
    ASSUME NEW x \in Cy!Leaders(d), NEW k \in 0 .. Cardinality(Cy!Cycle(d, x)) - 1,
           NEW img \in Cy!Stopped(d, old, x, k, Torn)
    PROVE  img \in Cy!CrashImages(d, old, Torn)
<1>1. \A W : Cy!Cardinality(W) = Cardinality(W)
  BY DEF Cy!Cardinality, Cardinality
<1>2. k \in 0 .. Cy!Cardinality(Cy!Cycle(d, x)) - 1
  BY <1>1
<1> QED BY <1>2 DEF Cy!CrashImages

\* Until a failure the file is one of the images.
LEMMA LiveImage ==
    ASSUME CInv, Live
    PROVE  file \in Cy!CrashImages(d, old, Torn)
<1>1. Core /\ Trail /\ TypeOK
  BY DEF CInv, Core
<1>2. Permutes(d, Slots) /\ Slots \in SUBSET Nat /\ Slots \in SUBSET Int
  BY <1>1, DPermutes DEF Slots
<1>3. CASE InCycle
  <2>1. s \in Cy!Leaders(d)
    BY <1>1, <1>3 DEF Trail
  <2>2. PICK k \in 0 .. Cardinality(Cy!Cycle(d, s)) - 1 : Covers(Cy!Before(d, s) \cup Cy!Path(d, s, k))
    BY <1>1, <1>3 DEF Trail
  <2>3. file = Cy!Rewritten(d, old, Cy!Before(d, s) \cup Cy!Path(d, s, k))
    BY <1>1, <2>2, CoveredFile
  <2>4. file \in Cy!Stopped(d, old, s, k, Torn)
    BY <2>3 DEF Cy!Stopped
  <2> QED BY <2>1, <2>4, StoppedIsImage
<1>4. CASE pc \in {"scan", "done"}
  <2>1. Covers(Cy!Before(d, s))
    BY <1>1, <1>4 DEF Trail
  <2> DEFINE L == {y \in Cy!Leaders(d) : ~ (y < s)}
  <2>2. \A y \in Cy!Leaders(d) : y \in Slots
    BY <1>2, LeaderIs
  <2>3. CASE L # {}
    <3>1. PICK y \in L : \A z \in L : y <= z
      <4>1. L \in SUBSET Nat
        BY <1>2, <2>2
      <4> HIDE DEF L
      <4> QED BY <2>3, <4>1, SmallestNat
    <3>2. y \in Cy!Leaders(d) /\ y \in Slots
      BY <2>2, <3>1
    <3>3. \A z \in Cy!Leaders(d) : z < y <=> z < s
      <4>1. s \in Int
        BY <1>1 DEF TypeOK
      <4> SUFFICES ASSUME NEW z \in Cy!Leaders(d) PROVE z < y <=> z < s
        OBVIOUS
      <4>2. z \in Int /\ y \in Int /\ ~ (y < s)
        BY <1>2, <2>2, <3>1
      <4>3. ~ (z < s) => y <= z
        BY <3>1
      <4> QED BY <4>1, <4>2, <4>3
    <3>4. \A z : z \in Cy!Before(d, y) <=> z \in Cy!Before(d, s)
      BY <3>3, BeforeIs
    <3>5. Covers(Cy!Before(d, y) \cup Cy!Path(d, y, 0))
      BY <2>1, <3>4 DEF Covers, Cy!Path
    <3>6. file = Cy!Rewritten(d, old, Cy!Before(d, y) \cup Cy!Path(d, y, 0))
      BY <1>1, <3>5, CoveredFile
    <3>7. file \in Cy!Stopped(d, old, y, 0, Torn)
      BY <3>6 DEF Cy!Stopped
    <3>8. 0 \in 0 .. Cardinality(Cy!Cycle(d, y)) - 1
      <4>1. PICK it, n, c : it = Cy!Iterate(d, y) /\ n = Cardinality(Slots) /\ c = Cardinality(Cy!Cycle(d, y))
        OBVIOUS
      <4>2. c \in 1 .. n /\ n \in Nat
        BY <1>2, <3>2, <4>1, CycleLength, SlotsFinite, FS_CardinalityType
      <4> QED BY <4>1, <4>2
    <3> QED BY <3>2, <3>7, <3>8, StoppedIsImage
  <2>4. CASE L = {}
    <3>1. ASSUME NEW x \in Slots, d[x] # x PROVE x \in Cy!Before(d, s)
      <4>1. PICK y \in Cy!Leaders(d) : x \in Cy!Cycle(d, y)
        BY <1>2, <3>1, LeaderExists
      <4>2. y < s
        BY <2>4
      <4> QED BY <4>1, <4>2, BeforeIs
    <3>2. Covers(Slots)
      BY <2>1, <3>1 DEF Covers
    <3>3. DOMAIN d = Slots
      BY <1>1, DPermutes
    <3>4. file = Cy!Permute(d, old)
      <4>1. file = Cy!Rewritten(d, old, Slots)
        BY <1>1, <3>2, CoveredFile
      <4> QED BY <3>3, <4>1 DEF Cy!Permute
    <3> QED BY <3>4 DEF Cy!CrashImages
  <2> QED BY <2>3, <2>4
<1> QED BY <1>3, <1>4 DEF Live, InCycle

\* A failure leaves the file as it is or tears the slot the next write was for.
LEMMA FailImage ==
    ASSUME CInv, Fail
    PROVE  file' \in Cy!CrashImages(d, old, Torn)
<1>1. Core /\ Live /\ Trail /\ TypeOK
  BY DEF CInv, Core, Fail, Live
<1>2. CASE file' = file
  BY <1>1, <1>2, LiveImage
<1>3. CASE AtWrite /\ file' = [file EXCEPT ![cur] = Torn]
  <2>1. s \in Cy!Leaders(d)
    BY <1>1, <1>3 DEF Trail, InCycle, AtWrite
  <2>2. PICK k \in 0 .. Cardinality(Cy!Cycle(d, s)) - 1 :
               cur = Cy!Iterate(d, s)[k] /\ Covers(Cy!Before(d, s) \cup Cy!Path(d, s, k))
    BY <1>1, <1>3 DEF Trail, InCycle, AtWrite
  <2>3. file = Cy!Rewritten(d, old, Cy!Before(d, s) \cup Cy!Path(d, s, k))
    BY <1>1, <2>2, CoveredFile
  <2>4. file' \in Cy!Stopped(d, old, s, k, Torn)
    BY <1>3, <2>2, <2>3 DEF Cy!Stopped
  <2> QED BY <2>1, <2>4, StoppedIsImage
<1> QED BY <1>2, <1>3 DEF Fail

\* While the loop runs the tensor is the image of a prefix of its writes.
LEMMA LiveIsImage == CInv /\ Live => OnlyCrashImages
BY LiveImage, SameImages DEF OnlyCrashImages

\* The file is one of the images also after the process has stopped.
FInv == CInv /\ OnlyCrashImages

\* Returning leaves the image of the whole permutation, failing one of a crash.
LEMMA NextImage == FInv /\ [Next]_vars => FInv'
<1> SUFFICES ASSUME FInv, [Next]_vars PROVE FInv'
  OBVIOUS
<1>1. CInv' /\ CInv
  BY NextTrail DEF FInv
<1>2. CASE Progress
  <2>1. Live'
    BY <1>2 DEF Progress, Skip, ReadSaved, ReadBlock, WriteBlock, WriteSaved, Finish, Live
  <2> QED BY <1>1, <2>1, LiveIsImage, PTL DEF FInv
<1>3. CASE Fail
  <2>1. file' \in C!CrashImages(d, old, Torn)
    BY <1>1, <1>3, FailImage, SameImages
  <2>2. d' = d /\ old' = old
    BY <1>3 DEF Fail, inputs
  <2>3. OnlyCrashImages'
    BY <2>1, <2>2 DEF OnlyCrashImages
  <2> QED BY <1>1, <2>3 DEF FInv
<1>4. CASE UNCHANGED vars
  <2>1. file' = file /\ d' = d /\ old' = old
    BY <1>4 DEF vars
  <2>2. OnlyCrashImages'
    BY <2>1 DEF FInv, OnlyCrashImages
  <2> QED BY <1>1, <2>2 DEF FInv
<1> QED BY <1>2, <1>3, <1>4 DEF Next

\* Wherever permute_tensor stops, for every permutation of any number of slots, it leaves one of
\* the images that GgufPerm lets a killed command leave behind.
THEOREM OnlyCrashImagesTheorem == Spec => []OnlyCrashImages
<1>1. Init => FInv
  BY InitTrail, LiveIsImage DEF FInv, Init, Live
<1>2. FInv => OnlyCrashImages
  BY DEF FInv
<1> QED BY <1>1, <1>2, NextImage, PTL DEF Spec
=============================================================================
