-------------------------- MODULE GroupRunsProofs --------------------------
(***************************************************************************)
(* Proofs about GroupRuns, for all slot lists, cost models and limits.     *)
(*                                                                         *)
(* The inductive invariant says of the run being built what is claimed of  *)
(* the finished ones (Building), and of the run being cut which of its     *)
(* slots are covered by the reads so far: those before the next read       *)
(* (Splitting, Covered).                                                   *)
(*                                                                         *)
(* That no grouping is cheaper (Cheapest) takes a second invariant: the    *)
(* runs and the gaps between them add up to the stretch of the list        *)
(* (Measured).  Any other way to group adds up to the same stretch (by     *)
(* induction on its cuts: undoing the first one joins two groups, Joined), *)
(* so groupings compare by their fetches and the gaps they leave out, and  *)
(* leaving out exactly the gaps that cost more than a fetch is best        *)
(* (BestCuts).                                                             *)
(*                                                                         *)
(* The last section says what the loop comes to for whoever runs it on a   *)
(* list of his own (Outcome): FetchPathProofs does, batch after batch.     *)
(***************************************************************************)
EXTENDS GroupRuns, FiniteFacts

\* The run being built ends with the last slot looked at, holds no gap too long,
\* and is too far from the runs before it to be joined with one.
Building ==
    /\ i > 1
    /\ prev = slots[i - 1]
    /\ start \in Wanted /\ start <= prev
    /\ \A j \in 1 .. i - 2 : start <= slots[j] => slots[j + 1] - slots[j] - 1 <= Gap
    /\ \A j \in 1 .. Len(runs) : start - runs[j][2] - 1 > Gap
    /\ r = 1 /\ reads = <<>>

\* x lies in a run that is split, or before the next read in the one being split.
Covered(x) ==
    \E k \in 1 .. Len(runs) : Within(x, runs[k]) /\ (k < r \/ (k = r /\ x < a))

Splitting ==
    /\ i = Len(slots) + 1
    /\ r <= Len(runs) => Within(a, runs[r])
    /\ r <= Len(runs) => \A j \in 1 .. Len(reads) : reads[j][2] < a

ReadsOrdered ==
    /\ \A j \in 1 .. Len(reads) :
           reads[j][1] <= reads[j][2] /\ (limit > 0 => reads[j][2] - reads[j][1] < limit)
    /\ \A j, k \in 1 .. Len(reads) : j < k => reads[j][2] < reads[k][1]

ReadsCover ==
    \A x \in Nat : Covered(x) <=> \E j \in 1 .. Len(reads) : Within(x, reads[j])

\* RunsWorthReading by position.
RunsMeasured ==
    \A k \in 1 .. Len(runs) :
        /\ runs[k][1] \in Wanted /\ runs[k][2] \in Wanted /\ runs[k][1] <= runs[k][2]
        /\ \A j \in 1 .. Len(slots) - 1 :
               Within(slots[j], runs[k]) /\ Within(slots[j + 1], runs[k]) =>
                   slots[j + 1] - slots[j] - 1 <= Gap

AllIn ==
    \A j \in 1 .. i - 1 :
        \/ \E k \in 1 .. Len(runs) : Within(slots[j], runs[k])
        \/ pc = "group" /\ Within(slots[j], <<start, prev>>)

IInv ==
    /\ TypeOK
    /\ AllIn /\ RunsMeasured /\ RunsApart
    /\ pc = "begin" => i = 1 /\ r = 1 /\ runs = <<>> /\ reads = <<>>
    /\ pc = "group" => Building
    /\ pc = "split" => Splitting
    /\ pc = "done" => r > Len(runs)
    /\ ReadsOrdered
    /\ pc # "group" => ReadsCover

-----------------------------------------------------------------------------

LEMMA QuotientIsNat ==
    ASSUME NEW x \in Nat, NEW y \in Nat, y > 0 PROVE x \div y \in Nat
  <1>1. PICK q \in Int : q = x \div y
    BY SMT
  <1>2. y * q <= x /\ x < y * (q + 1)
    BY <1>1, SMT
  <1> QED BY <1>1, <1>2, SMT

\* The gap of a cost model is a natural number.
LEMMA GapIsNat ==
    ASSUME TypeOK PROVE Gap \in Nat
  <1>1. CASE cost.byte = 0
    BY <1>1 DEF Gap, MaxGap
  <1>2. CASE cost.byte # 0
    <2> DEFINE f == cost.fetch  b == cost.byte
    <2>1. f \in Nat /\ b \in Nat /\ b > 0
      BY <1>2 DEF TypeOK
    <2> HIDE DEF f, b
    <2>2. f \div b \in Nat
      BY <2>1, QuotientIsNat
    <2> QED BY <1>2, <2>2 DEF Gap, MaxGap, f, b
  <1> QED BY <1>1, <1>2

\* Slots at increasing positions increase, also when not adjacent.
LEMMA Increasing ==
    ASSUME TypeOK, NEW j \in 1 .. Len(slots), NEW k \in 1 .. Len(slots)
    PROVE  /\ slots[j] \in Nat
           /\ j < k <=> slots[j] < slots[k]
           /\ slots[j] \in Wanted
  BY DEF TypeOK, IsIncreasing, Wanted

\* The runs are in ascending order of their ends.
LEMMA RunsAscend ==
    ASSUME TypeOK, RunsMeasured, RunsApart,
           NEW j \in 1 .. Len(runs), NEW k \in 1 .. Len(runs)
    PROVE  /\ runs[j][1] \in Nat /\ runs[j][2] \in Nat /\ runs[j][1] <= runs[j][2]
           /\ j < k => runs[j][2] < runs[k][1]
  <1>1. \A m \in 1 .. Len(runs) : runs[m] \in Nat \X Nat
    BY DEF TypeOK
  <1>2. \A m \in 1 .. Len(runs) : runs[m][1] \in Nat /\ runs[m][2] \in Nat
    BY <1>1
  <1>3. runs[j][1] <= runs[j][2]
    BY DEF RunsMeasured
  <1>4. ASSUME j < k PROVE runs[j][2] < runs[k][1]
    <2>1. runs[k][1] - runs[j][2] - 1 > Gap
      BY <1>4 DEF RunsApart
    <2> QED BY <1>2, <2>1, GapIsNat
  <1> QED BY <1>2, <1>3, <1>4

LEMMA InitIInv == Init => IInv
  <1> SUFFICES ASSUME Init PROVE IInv
    OBVIOUS
  <1>1. TypeOK
    BY InputsAssumption, CostsAssumption, LimitsAssumption DEF Init, TypeOK
  <1>2. RunsMeasured /\ RunsApart /\ AllIn /\ ReadsOrdered /\ ReadsCover
    BY DEF Init, RunsMeasured, RunsApart, AllIn, ReadsOrdered, ReadsCover, Covered
  <1> QED BY <1>1, <1>2 DEF IInv, Init

\* The run being built, once emitted, is like the runs before it.
LEMMA EmitRun ==
    ASSUME IInv, pc = "group", runs' = Append(runs, <<start, prev>>), UNCHANGED input
    PROVE  /\ runs' \in Seq(Nat \X Nat) /\ Len(runs') = Len(runs) + 1
           /\ \A k \in 1 .. Len(runs) : runs'[k] = runs[k]
           /\ runs'[Len(runs) + 1] = <<start, prev>>
           /\ RunsMeasured' /\ RunsApart'
  <1> TypeOK /\ Building /\ RunsMeasured /\ RunsApart
    BY DEF IInv
  <1>0. Len(runs) \in Nat
    BY DEF TypeOK
  <1>1. /\ runs' \in Seq(Nat \X Nat) /\ Len(runs') = Len(runs) + 1
        /\ \A k \in 1 .. Len(runs) : runs'[k] = runs[k]
        /\ runs'[Len(runs) + 1] = <<start, prev>>
    BY DEF TypeOK
  <1>2. Gap' = Gap /\ Wanted' = Wanted
    BY DEF Gap, Wanted, input
  <1>3. i - 1 \in 1 .. Len(slots) /\ prev \in Wanted
    <2>1. i - 1 \in 1 .. Len(slots) /\ prev = slots[i - 1]
      BY DEF Building, TypeOK
    <2> QED BY <2>1, Increasing
  <1>4. ASSUME NEW j \in 1 .. Len(slots) - 1,
               Within(slots[j], <<start, prev>>), Within(slots[j + 1], <<start, prev>>)
        PROVE  slots[j + 1] - slots[j] - 1 <= Gap
    <2>1. start <= slots[j] /\ slots[j + 1] <= slots[i - 1]
      BY <1>4 DEF Within, Building
    <2>2. ~ (i - 1 < j + 1)
      <3>1. j + 1 \in 1 .. Len(slots)
        BY DEF TypeOK
      <3>2. slots[j + 1] \in Nat /\ slots[i - 1] \in Nat
        BY <1>3, <3>1, Increasing
      <3>3. i - 1 < j + 1 => slots[i - 1] < slots[j + 1]
        BY <1>3, <3>1, Increasing
      <3> QED BY <2>1, <3>2, <3>3
    <2>3. j \in 1 .. i - 2
      BY <2>2 DEF TypeOK
    <2> QED BY <2>1, <2>3 DEF Building
  <1>5. RunsMeasured'
    <2> SUFFICES ASSUME NEW k \in 1 .. Len(runs) + 1
                 PROVE  /\ runs'[k][1] \in Wanted /\ runs'[k][2] \in Wanted
                        /\ runs'[k][1] <= runs'[k][2]
                        /\ \A j \in 1 .. Len(slots) - 1 :
                               Within(slots[j], runs'[k]) /\ Within(slots[j + 1], runs'[k]) =>
                                   slots[j + 1] - slots[j] - 1 <= Gap
      BY <1>1, <1>2 DEF RunsMeasured, Within, input
    <2>1. CASE k \in 1 .. Len(runs)
      BY <1>1, <2>1 DEF RunsMeasured
    <2>2. CASE k = Len(runs) + 1
      <3>1. runs'[k] = <<start, prev>>
        BY <1>1, <2>2
      <3>2. runs'[k][1] = start /\ runs'[k][2] = prev
        BY <3>1
      <3>3. start \in Wanted /\ start <= prev
        BY DEF Building
      <3> QED BY <1>3, <1>4, <3>1, <3>2, <3>3
    <2>3. k \in 1 .. Len(runs) \/ k = Len(runs) + 1
      BY <1>0
    <2> QED BY <2>1, <2>2, <2>3
  <1>6. RunsApart'
    <2> SUFFICES ASSUME NEW j \in 1 .. Len(runs) + 1, NEW k \in 1 .. Len(runs) + 1, j < k
                 PROVE  runs'[k][1] - runs'[j][2] - 1 > Gap
      BY <1>1, <1>2 DEF RunsApart
    <2>1. j \in 1 .. Len(runs) /\ runs'[j] = runs[j]
      BY <1>0, <1>1
    <2>2. CASE k \in 1 .. Len(runs)
      BY <1>1, <2>1, <2>2 DEF RunsApart
    <2>3. CASE k = Len(runs) + 1
      <3>1. runs'[k][1] = start
        BY <1>1, <2>3
      <3> QED BY <2>1, <3>1 DEF Building
    <2> QED BY <1>0, <2>2, <2>3
  <1> QED BY <1>1, <1>5, <1>6

\* What was covered by an emitted run stays so; the run being built covers the
\* slots from its start on, which are all the others looked at.
LEMMA EmitCovers ==
    ASSUME IInv, pc = "group", runs' = Append(runs, <<start, prev>>), UNCHANGED input,
           NEW j \in 1 .. i - 1
    PROVE  \E k \in 1 .. Len(runs') : Within(slots[j], runs'[k])
  <1>0. Len(runs) \in Nat
    BY DEF IInv, TypeOK
  <1>1. CASE \E k \in 1 .. Len(runs) : Within(slots[j], runs[k])
    <2>1. PICK k \in 1 .. Len(runs) : Within(slots[j], runs[k])
      BY <1>1
    <2>2. k \in 1 .. Len(runs') /\ runs'[k] = runs[k]
      BY <1>0, EmitRun
    <2> QED BY <2>1, <2>2
  <1>2. CASE Within(slots[j], <<start, prev>>)
    <2>1. Len(runs) + 1 \in 1 .. Len(runs') /\ runs'[Len(runs) + 1] = <<start, prev>>
      BY <1>0, EmitRun
    <2> QED BY <1>2, <2>1
  <1> QED BY <1>1, <1>2 DEF IInv, AllIn

LEMMA BeginStep == IInv /\ Begin => IInv'
  <1> SUFFICES ASSUME IInv, Begin PROVE IInv'
    OBVIOUS
  <1>1. /\ Len(slots) > 0 /\ slots[1] \in Nat /\ 1 \in 1 .. Len(slots)
        /\ i = 1 /\ runs = <<>> /\ reads = <<>> /\ r = 1
    BY DEF IInv, TypeOK, Begin
  <1>2. TypeOK'
    BY <1>1 DEF IInv, TypeOK, Begin, input
  <1>3. Building'
    BY <1>1 DEF Building, Begin, Wanted, input
  <1>4. AllIn' /\ RunsMeasured' /\ RunsApart' /\ ReadsOrdered'
    BY <1>1 DEF AllIn, RunsMeasured, RunsApart, ReadsOrdered, Begin, input, Within
  <1> QED BY <1>2, <1>3, <1>4 DEF IInv, Begin

LEMMA BridgeStep == IInv /\ Bridge => IInv'
  <1> SUFFICES ASSUME IInv, Bridge PROVE IInv'
    OBVIOUS
  <1> TypeOK /\ Building
    BY DEF IInv, Bridge
  <1>0. i \in 1 .. Len(slots) /\ i - 1 \in 1 .. Len(slots) /\ i \in Int
    BY DEF TypeOK, Building, Bridge
  <1>1. /\ slots[i] \in Nat /\ slots[i - 1] \in Nat /\ slots[i - 1] < slots[i]
        /\ slots[i] \in Wanted
    BY <1>0, Increasing
  <1>2. TypeOK'
    BY <1>0, <1>1 DEF TypeOK, Bridge, input
  <1>3. Gap' = Gap /\ Wanted' = Wanted
    BY DEF Gap, Wanted, Bridge, input
  <1>4. Building'
    <2>1. start \in Wanted /\ start \in Nat /\ start <= slots[i]
      BY <1>1 DEF Building, TypeOK
    <2>2. ASSUME NEW j \in 1 .. i - 1, start <= slots[j]
          PROVE  slots[j + 1] - slots[j] - 1 <= Gap
      <3>1. CASE j = i - 1
        BY <1>0, <3>1 DEF Building, Bridge
      <3>2. CASE j \in 1 .. i - 2
        BY <2>2, <3>2 DEF Building
      <3> QED BY <1>0, <3>1, <3>2
    <2>3. i' = i + 1 /\ prev' = slots'[i' - 1] /\ i' - 2 = i - 1 /\ i' > 1
      BY <1>0 DEF Bridge, input
    <2> QED BY <1>3, <2>1, <2>2, <2>3 DEF Building, Bridge, input
  <1>5. AllIn'
    <2> SUFFICES ASSUME NEW j \in 1 .. i
                 PROVE  \/ \E k \in 1 .. Len(runs) : Within(slots[j], runs[k])
                        \/ Within(slots[j], <<start, slots[i]>>)
      BY <1>0 DEF AllIn, Bridge, input, Within
    <2>1. CASE j = i
      BY <1>1, <2>1 DEF Within, Building, TypeOK
    <2>2. CASE j \in 1 .. i - 1
      <3>1. slots[j] \in Nat
        BY <1>0, <2>2, Increasing
      <3>2. \/ \E k \in 1 .. Len(runs) : Within(slots[j], runs[k])
            \/ start <= slots[j] /\ slots[j] <= prev
        BY <2>2 DEF IInv, AllIn, Within
      <3>3. prev = slots[i - 1]
        BY DEF Building
      <3> QED BY <1>1, <3>1, <3>2, <3>3 DEF Within
    <2> QED BY <1>0, <2>1, <2>2
  <1>6. RunsMeasured' /\ RunsApart' /\ ReadsOrdered'
    BY <1>3 DEF IInv, RunsMeasured, RunsApart, ReadsOrdered, Bridge, input, Within
  <1> QED BY <1>2, <1>4, <1>5, <1>6 DEF IInv, Bridge

LEMMA CutStep == IInv /\ Cut => IInv'
  <1> SUFFICES ASSUME IInv, Cut PROVE IInv'
    OBVIOUS
  <1> TypeOK /\ Building
    BY DEF IInv, Cut
  <1> pc = "group" /\ runs' = Append(runs, <<start, prev>>) /\ UNCHANGED input
    BY DEF Cut
  <1>0. i \in 1 .. Len(slots) /\ i - 1 \in 1 .. Len(slots) /\ i \in Int /\ Len(runs) \in Nat
    BY DEF TypeOK, Building, Cut
  <1>1. /\ slots[i] \in Nat /\ slots[i - 1] \in Nat /\ slots[i - 1] < slots[i]
        /\ slots[i] \in Wanted
    BY <1>0, Increasing
  <1>2. TypeOK'
    <2>1. runs' \in Seq(Nat \X Nat) /\ Len(runs') = Len(runs) + 1
      BY EmitRun
    <2> QED BY <1>0, <1>1, <2>1 DEF TypeOK, Cut, input
  <1>3. Gap' = Gap /\ Wanted' = Wanted
    BY DEF Gap, Wanted, Cut, input
  <1>4. Building'
    <2>1. ASSUME NEW j \in 1 .. i - 1, slots[i] <= slots[j]
          PROVE  FALSE
      BY <1>0, <1>1, <2>1, Increasing
    <2>2. ASSUME NEW k \in 1 .. Len(runs) + 1
          PROVE  slots[i] - runs'[k][2] - 1 > Gap
      <3>1. CASE k \in 1 .. Len(runs)
        <4>1. runs'[k] = runs[k] /\ runs[k][2] \in Nat
          BY <3>1, EmitRun, RunsAscend DEF IInv
        <4>2. start - runs[k][2] - 1 > Gap
          BY <3>1 DEF Building
        <4>3. start <= slots[i] /\ start \in Nat
          BY <1>1 DEF Building, TypeOK
        <4> QED BY <1>1, <4>1, <4>2, <4>3, GapIsNat
      <3>2. CASE k = Len(runs) + 1
        <4>1. runs'[k][2] = prev
          BY <3>2, EmitRun
        <4> QED BY <4>1 DEF Cut
      <3> QED BY <1>0, <3>1, <3>2
    <2>3. /\ i' = i + 1 /\ prev' = slots'[i' - 1] /\ i' - 2 = i - 1 /\ i' > 1
          /\ Len(runs') = Len(runs) + 1
      BY <1>0, EmitRun DEF Cut, input
    <2>4. start' = slots[i] /\ prev' = slots[i] /\ slots' = slots /\ r' = 1 /\ reads' = <<>>
      BY DEF Cut, input, Building
    <2> QED BY <1>1, <1>3, <2>1, <2>2, <2>3, <2>4 DEF Building
  <1>5. AllIn'
    <2> SUFFICES ASSUME NEW j \in 1 .. i
                 PROVE  \/ \E k \in 1 .. Len(runs') : Within(slots[j], runs'[k])
                        \/ Within(slots[j], <<slots[i], slots[i]>>)
      <3>1. i' - 1 = i /\ pc' = "group" /\ slots' = slots
        BY <1>0 DEF Cut, input
      <3>2. start' = slots[i] /\ prev' = slots[i]
        BY DEF Cut
      <3> QED BY <3>1, <3>2 DEF AllIn, Within
    <2>1. CASE j = i
      BY <1>1, <2>1 DEF Within
    <2>2. CASE j \in 1 .. i - 1
      BY <2>2, EmitCovers
    <2> QED BY <1>0, <2>1, <2>2
  <1>6. RunsMeasured' /\ RunsApart'
    BY EmitRun
  <1>7. ReadsOrdered'
    BY DEF IInv, ReadsOrdered, Cut, input
  <1> QED BY <1>2, <1>4, <1>5, <1>6, <1>7 DEF IInv, Cut

LEMMA LastRunStep == IInv /\ LastRun => IInv'
  <1> SUFFICES ASSUME IInv, LastRun PROVE IInv'
    OBVIOUS
  <1> TypeOK /\ Building
    BY DEF IInv, LastRun
  <1> pc = "group" /\ runs' = Append(runs, <<start, prev>>) /\ UNCHANGED input
    BY DEF LastRun
  <1>0. i = Len(slots) + 1 /\ Len(runs) \in Nat
    BY DEF TypeOK, LastRun
  <1>1. runs' \in Seq(Nat \X Nat) /\ Len(runs') = Len(runs) + 1 /\ 1 \in 1 .. Len(runs')
    BY <1>0, EmitRun
  <1>2. runs'[1] \in Nat \X Nat
    BY <1>1
  <1>3. a' = runs'[1][1] /\ a' \in Nat
    BY <1>2 DEF LastRun
  <1>4. TypeOK'
    BY <1>0, <1>1, <1>3 DEF TypeOK, LastRun, input
  <1>5. RunsMeasured' /\ RunsApart'
    BY EmitRun
  <1>6. AllIn'
    <2>1. \A j \in 1 .. i - 1 : \E k \in 1 .. Len(runs') : Within(slots[j], runs'[k])
      BY EmitCovers
    <2> QED BY <2>1 DEF AllIn, LastRun, input, Within
  <1>7. r' = 1 /\ reads' = <<>> /\ reads = <<>>
    BY DEF LastRun, Building
  <1>8. Splitting'
    <2>1. Within(a', runs'[1])
      BY <1>1, <1>2, <1>3, <1>5 DEF Within, RunsMeasured
    <2> QED BY <1>0, <1>7, <2>1 DEF Splitting, LastRun, input, Within
  <1>9. ReadsOrdered' /\ ReadsCover'
    <2>1. ASSUME NEW x \in Nat, NEW k \in 1 .. Len(runs'), Within(x, runs'[k])
          PROVE  ~(k < 1 \/ (k = 1 /\ x < a'))
      BY <1>1, <1>3, <2>1 DEF Within
    <2> QED BY <1>7, <2>1 DEF ReadsOrdered, ReadsCover, Covered, Within
  <1> QED BY <1>4, <1>5, <1>6, <1>8, <1>9 DEF IInv, LastRun

LEMMA EmptyStep == IInv /\ Empty => IInv'
  <1> SUFFICES ASSUME IInv, Empty PROVE IInv'
    OBVIOUS
  <1>1. i = 1 /\ r = 1 /\ runs = <<>> /\ reads = <<>> /\ slots = <<>>
    BY DEF IInv, Empty
  <1>2. TypeOK'
    BY DEF IInv, TypeOK, Empty, input
  <1>3. RunsMeasured' /\ RunsApart' /\ AllIn' /\ ReadsOrdered' /\ ReadsCover'
    BY <1>1 DEF Empty, input, RunsMeasured, RunsApart, AllIn, ReadsOrdered, ReadsCover, Covered
  <1> QED BY <1>1, <1>2, <1>3 DEF IInv, Empty

LEMMA FinishStep == IInv /\ Finish => IInv'
  <1> SUFFICES ASSUME IInv, Finish PROVE IInv'
    OBVIOUS
  <1>2. TypeOK'
    BY DEF IInv, TypeOK, Finish, input
  <1>3. RunsMeasured' /\ RunsApart' /\ AllIn' /\ ReadsOrdered' /\ ReadsCover'
    BY DEF IInv, Finish, input, RunsMeasured, RunsApart, AllIn, ReadsOrdered, ReadsCover,
           Covered, Within, Gap, Wanted
  <1> QED BY <1>2, <1>3 DEF IInv, Finish

\* The next read is in the run, not empty and within the limit.
LEMMA ReadEndBounds ==
    ASSUME IInv, pc = "split", r <= Len(runs)
    PROVE  /\ r \in 1 .. Len(runs) /\ Len(runs) \in Nat /\ Len(reads) \in Nat
           /\ runs[r][1] \in Nat /\ runs[r][2] \in Nat
           /\ ReadEnd \in Nat /\ runs[r][1] <= a /\ a <= ReadEnd /\ ReadEnd <= runs[r][2]
           /\ limit > 0 => ReadEnd - a < limit
           /\ \A j \in 1 .. Len(reads) : reads[j][2] < a
  <1> TypeOK
    BY DEF IInv
  <1>1. r \in 1 .. Len(runs) /\ Len(runs) \in Nat /\ Len(reads) \in Nat
    BY DEF TypeOK
  <1>2. runs[r][1] \in Nat /\ runs[r][2] \in Nat
    BY <1>1, RunsAscend DEF IInv
  <1>3. runs[r][1] <= a /\ a <= runs[r][2] /\ \A j \in 1 .. Len(reads) : reads[j][2] < a
    BY DEF IInv, Splitting, Within
  <1>4. a \in Nat /\ limit \in Nat
    BY DEF TypeOK
  <1>5. CASE limit = 0 \/ a + limit - 1 > runs[r][2]
    <2>1. ReadEnd = runs[r][2]
      BY <1>5 DEF ReadEnd
    <2> QED BY <1>1, <1>2, <1>3, <1>4, <1>5, <2>1
  <1>6. CASE ~(limit = 0 \/ a + limit - 1 > runs[r][2])
    <2>1. ReadEnd = a + limit - 1
      BY <1>6 DEF ReadEnd
    <2> QED BY <1>1, <1>2, <1>3, <1>4, <1>6, <2>1
  <1> QED BY <1>5, <1>6

\* The slots covered after the read are those covered before it and its own,
\* and the run that comes next, if any, is entered at its start.
LEMMA SplitAdvances ==
    ASSUME IInv, SplitRead, NEW x \in Nat
    PROVE  Covered(x)' <=> Covered(x) \/ Within(x, <<a, ReadEnd>>)
  <1> pc = "split" /\ r <= Len(runs) /\ UNCHANGED runs
    BY DEF SplitRead
  <1> DEFINE e == ReadEnd
  <1>1. /\ r \in 1 .. Len(runs) /\ Len(runs) \in Nat
        /\ runs[r][1] \in Nat /\ runs[r][2] \in Nat /\ a \in Nat
        /\ e \in Nat /\ runs[r][1] <= a /\ a <= e /\ e <= runs[r][2]
    BY ReadEndBounds DEF IInv, TypeOK
  <1>2. Covered(x)' <=> \E k \in 1 .. Len(runs) :
            Within(x, runs[k]) /\ (k < r' \/ (k = r' /\ x < a'))
    BY DEF Covered, Within
  <1>3. CASE e < runs[r][2]
    <2>1. a' = e + 1 /\ r' = r
      BY <1>3 DEF SplitRead
    <2> HIDE DEF e
    <2>2. Within(x, runs[r]) /\ x < e + 1
          <=> (Within(x, runs[r]) /\ x < a) \/ (a <= x /\ x <= e)
      BY <1>1 DEF Within
    <2> USE DEF e
    <2> QED BY <1>1, <1>2, <2>1, <2>2 DEF Covered, Within
  <1>4. CASE ~(e < runs[r][2])
    <2>1. r' = r + 1 /\ (r < Len(runs) => a' = runs[r + 1][1])
      BY <1>4 DEF SplitRead
    <2>2. e = runs[r][2]
      BY <1>1, <1>4
    <2>3. ASSUME NEW k \in 1 .. Len(runs), Within(x, runs[k]), k = r', x < a'
          PROVE  FALSE
      <3>1. a' = runs[k][1] /\ runs[k][1] \in Nat
        BY <1>1, <2>1, <2>3, RunsAscend DEF IInv
      <3> QED BY <2>3, <3>1 DEF Within
    <2>4. Covered(x)' <=> \E k \in 1 .. Len(runs) : Within(x, runs[k]) /\ (k < r \/ k = r)
      BY <1>1, <1>2, <2>1, <2>3
    <2>5. Within(x, runs[r])
          <=> (Within(x, runs[r]) /\ x < a) \/ Within(x, <<a, ReadEnd>>)
      BY <1>1, <2>2 DEF Within
    <2> HIDE DEF e
    <2> QED BY <1>1, <2>4, <2>5 DEF Covered
  <1> QED BY <1>3, <1>4

LEMMA SplitReadStep == IInv /\ SplitRead => IInv'
  <1> SUFFICES ASSUME IInv, SplitRead PROVE IInv'
    OBVIOUS
  <1> TypeOK /\ pc = "split" /\ r <= Len(runs) /\ UNCHANGED <<runs, slots, cost, limit, i, pc>>
    BY DEF IInv, SplitRead, input
  <1> DEFINE e == ReadEnd
  <1>1. /\ r \in 1 .. Len(runs) /\ Len(runs) \in Nat /\ Len(reads) \in Nat /\ a \in Nat
        /\ runs[r][1] \in Nat /\ runs[r][2] \in Nat
        /\ e \in Nat /\ runs[r][1] <= a /\ a <= e /\ e <= runs[r][2]
        /\ limit > 0 => e - a < limit
        /\ \A j \in 1 .. Len(reads) : reads[j][2] < a
    BY ReadEndBounds DEF TypeOK
  <1>2. /\ reads' \in Seq(Nat \X Nat) /\ Len(reads') = Len(reads) + 1
        /\ \A j \in 1 .. Len(reads) : reads'[j] = reads[j] /\ reads[j][2] \in Nat
        /\ reads'[Len(reads) + 1] = <<a, e>>
    <2>1. reads' = Append(reads, <<a, e>>) /\ <<a, e>> \in Nat \X Nat
      BY <1>1 DEF SplitRead
    <2> HIDE DEF e
    <2>2. reads \in Seq(Nat \X Nat)
      BY DEF TypeOK
    <2>3. /\ reads' \in Seq(Nat \X Nat) /\ Len(reads') = Len(reads) + 1
          /\ reads'[Len(reads) + 1] = <<a, e>>
      BY <2>1, <2>2
    <2>4. ASSUME NEW j \in 1 .. Len(reads)
          PROVE  reads'[j] = reads[j] /\ reads[j][2] \in Nat
      <3>1. reads[j] \in Nat \X Nat
        BY <2>2
      <3> QED BY <2>1, <2>2, <3>1
    <2> QED BY <2>3, <2>4
  <1>3. \/ e < runs[r][2] /\ a' = e + 1 /\ r' = r
        \/ e = runs[r][2] /\ r' = r + 1 /\ a' = (IF r < Len(runs) THEN runs[r + 1][1] ELSE a)
    BY <1>1 DEF SplitRead
  <1> HIDE DEF e
  <1>4. r' \in 1 .. Len(runs) + 1 /\ a' \in Nat
        /\ (r' <= Len(runs) => Within(a', runs[r']) /\ e < a')
    <2>1. CASE a' = e + 1 /\ r' = r /\ e < runs[r][2]
      BY <1>1, <2>1 DEF Within
    <2>2. CASE e = runs[r][2] /\ r' = r + 1 /\ r < Len(runs) /\ a' = runs[r + 1][1]
      <3>1. /\ runs[r + 1][1] \in Nat /\ runs[r + 1][2] \in Nat
            /\ runs[r + 1][1] <= runs[r + 1][2] /\ runs[r][2] < runs[r + 1][1]
        BY <1>1, <2>2, RunsAscend DEF IInv
      <3> QED BY <1>1, <2>2, <3>1 DEF Within
    <2>3. CASE r' = r + 1 /\ ~(r < Len(runs)) /\ a' = a
      BY <1>1, <2>3
    <2> QED BY <1>3, <2>1, <2>2, <2>3
  <1>5. TypeOK'
    BY <1>2, <1>4 DEF TypeOK, SplitRead, input
  <1>6. Splitting'
    <2>1. ASSUME NEW j \in 1 .. Len(reads) + 1, r' <= Len(runs) PROVE reads'[j][2] < a'
      <3>1. CASE j \in 1 .. Len(reads)
        <4>1. reads'[j][2] = reads[j][2] /\ reads[j][2] \in Nat /\ reads[j][2] < a
          BY <1>1, <1>2, <3>1
        <4> QED BY <1>1, <1>4, <2>1, <4>1
      <3>2. CASE j = Len(reads) + 1
        BY <1>2, <1>4, <2>1, <3>2
      <3> QED BY <1>1, <3>1, <3>2
    <2>2. i = Len(slots) + 1
      BY DEF IInv, Splitting
    <2> QED BY <1>2, <1>4, <2>1, <2>2 DEF Splitting, Within
  <1>7. ReadsOrdered'
    <2>1. ASSUME NEW j \in 1 .. Len(reads) + 1
          PROVE  reads'[j][1] <= reads'[j][2] /\ (limit > 0 => reads'[j][2] - reads'[j][1] < limit)
      <3>1. CASE j \in 1 .. Len(reads)
        <4>1. /\ reads[j][1] <= reads[j][2]
              /\ limit > 0 => reads[j][2] - reads[j][1] < limit
          BY <3>1 DEF IInv, ReadsOrdered
        <4> QED BY <1>2, <3>1, <4>1
      <3>2. CASE j = Len(reads) + 1
        BY <1>1, <1>2, <3>2
      <3>3. j \in 1 .. Len(reads) \/ j = Len(reads) + 1
        BY <1>1
      <3> QED BY <3>1, <3>2, <3>3
    <2>2. ASSUME NEW j \in 1 .. Len(reads) + 1, NEW k \in 1 .. Len(reads) + 1, j < k
          PROVE  reads'[j][2] < reads'[k][1]
      <3>1. j \in 1 .. Len(reads)
        BY <1>1, <2>2
      <3>2. CASE k \in 1 .. Len(reads)
        BY <1>2, <2>2, <3>1, <3>2 DEF IInv, ReadsOrdered
      <3>3. CASE k = Len(reads) + 1
        <4>1. reads'[k][1] = a
          BY <1>2, <3>3
        <4>2. reads'[j] = reads[j] /\ reads[j][2] < a
          BY <1>1, <1>2, <3>1
        <4> QED BY <4>1, <4>2
      <3> QED BY <1>1, <3>2, <3>3
    <2> QED BY <1>2, <2>1, <2>2 DEF ReadsOrdered
  <1>8. ReadsCover'
    <2> SUFFICES ASSUME NEW x \in Nat
                 PROVE  Covered(x)' <=> \E j \in 1 .. Len(reads) + 1 : Within(x, reads'[j])
      BY <1>2 DEF ReadsCover, Covered, Within
    <2>1. Covered(x)' <=> Covered(x) \/ Within(x, <<a, e>>)
      BY SplitAdvances DEF e
    <2>2. Covered(x) <=> \E j \in 1 .. Len(reads) : Within(x, reads[j])
      BY DEF IInv, ReadsCover
    <2>3. (\E j \in 1 .. Len(reads) : Within(x, reads'[j]))
          <=> \E j \in 1 .. Len(reads) : Within(x, reads[j])
      BY <1>2 DEF Within
    <2>4. Within(x, reads'[Len(reads) + 1]) <=> Within(x, <<a, e>>)
      BY <1>2
    <2> QED BY <1>1, <2>1, <2>2, <2>3, <2>4
  <1>9. RunsMeasured' /\ RunsApart' /\ AllIn'
    BY DEF IInv, RunsMeasured, RunsApart, AllIn, Within, Gap, Wanted
  <1> QED BY <1>5, <1>6, <1>7, <1>8, <1>9 DEF IInv

LEMMA Invariance == Spec => []IInv
  <1>1. Init => IInv
    BY InitIInv
  <1>2. IInv /\ [Next]_vars => IInv'
    <2> SUFFICES ASSUME IInv, [Next]_vars PROVE IInv'
      OBVIOUS
    <2>1. CASE Empty
      BY <2>1, EmptyStep
    <2>2. CASE Begin
      BY <2>2, BeginStep
    <2>3. CASE Bridge
      BY <2>3, BridgeStep
    <2>4. CASE Cut
      BY <2>4, CutStep
    <2>5. CASE LastRun
      BY <2>5, LastRunStep
    <2>6. CASE SplitRead
      BY <2>6, SplitReadStep
    <2>7. CASE Finish
      BY <2>7, FinishStep
    <2>8. CASE UNCHANGED vars
      BY <2>8 DEF vars, IInv, TypeOK, AllIn, RunsMeasured, RunsApart, ReadsOrdered,
                  ReadsCover, Building, Splitting, Covered, Within, Gap, Wanted
    <2> QED BY <2>1, <2>2, <2>3, <2>4, <2>5, <2>6, <2>7, <2>8 DEF Next
  <1> QED BY <1>1, <1>2, PTL DEF Spec

-----------------------------------------------------------------------------
(* The properties *)

\* Every variable keeps its type: no index leaves its list, no slot or read end
\* is negative, whatever the cost model and the limit.
THEOREM TypeCorrect == Spec => []TypeOK
  <1>1. IInv => TypeOK
    BY DEF IInv
  <1> QED BY <1>1, Invariance, PTL

\* Grouping loses no slot a token needs (plan, runs and build_ranges).
THEOREM NoneMissedTheorem == Spec => []NoneMissed
  <1>1. IInv => NoneMissed
    <2> SUFFICES ASSUME IInv, NEW j \in 1 .. i - 1
                 PROVE  \/ \E run \in Ranges(runs) : Within(slots[j], run)
                        \/ pc = "group" /\ Within(slots[j], <<start, prev>>)
      BY DEF NoneMissed
    <2> QED BY DEF IInv, AllIn, Ranges
  <1> QED BY <1>1, Invariance, PTL

\* Runs begin and end with a wanted slot and hold no gap longer than max_gap.
THEOREM RunsWorthReadingTheorem == Spec => []RunsWorthReading
  <1>1. IInv => RunsWorthReading
    BY DEF IInv, RunsMeasured, RunsWorthReading, Ranges
  <1> QED BY <1>1, Invariance, PTL

\* Runs ascend, and no two of them are close enough to be joined.
THEOREM RunsApartTheorem == Spec => []RunsApart
  <1>1. IInv => RunsApart
    BY DEF IInv
  <1> QED BY <1>1, Invariance, PTL

\* The three together: what the loop of plan, runs and build_ranges is for.
THEOREM GroupedTheorem == Spec => []Grouped
  <1>1. NoneMissed /\ RunsWorthReading /\ RunsApart => Grouped
    BY DEF Grouped
  <1> QED BY <1>1, NoneMissedTheorem, RunsWorthReadingTheorem, RunsApartTheorem, PTL

\* split_at_limit: reads within the limit that cover each slot of the runs once
\* and no other slot.
THEOREM SplitExactTheorem == Spec => []SplitExact
  <1>1. IInv => SplitExact
    <2> SUFFICES ASSUME IInv PROVE SplitExact
      OBVIOUS
    <2>1. /\ \A read \in Ranges(reads) :
                 read[1] <= read[2] /\ (limit > 0 => read[2] - read[1] < limit)
          /\ \A j, k \in 1 .. Len(reads) : j < k => reads[j][2] < reads[k][1]
      BY DEF IInv, ReadsOrdered, Ranges
    <2>2. ASSUME pc = "done", NEW x \in Nat
          PROVE  (\E run \in Ranges(runs) : Within(x, run)) <=>
                 (\E read \in Ranges(reads) : Within(x, read))
      <3>1. Covered(x) <=> \E k \in 1 .. Len(runs) : Within(x, runs[k])
        <4>1. \A k \in 1 .. Len(runs) : k < r
          BY <2>2 DEF IInv, TypeOK
        <4> QED BY <4>1 DEF Covered
      <3>2. Covered(x) <=> \E j \in 1 .. Len(reads) : Within(x, reads[j])
        BY <2>2 DEF IInv, ReadsCover
      <3> QED BY <3>1, <3>2 DEF Ranges
    <2>3. ASSUME pc = "done",
                 NEW x \in 0 .. (IF slots = <<>> THEN 0 ELSE slots[Len(slots)] + 1)
          PROVE  x \in Nat
      <3>1. slots # <<>> => slots[Len(slots)] \in Nat
        <4>1. slots \in Seq(Nat)
          BY DEF IInv, TypeOK
        <4> QED BY <4>1
      <3> QED BY <3>1
    <2> QED BY <2>1, <2>2, <2>3 DEF SplitExact
  <1> QED BY <1>1, Invariance, PTL

-----------------------------------------------------------------------------
(* The cost of the runs, and of any other way to group *)

\* The unwanted slots between a slot of the list and the next.
Gaps == [j \in 1 .. Len(slots) - 1 |-> slots[j + 1] - slots[j] - 1]

\* Where the loop cuts: at the gaps of the first k slots that are too long.
CutsIn(k) == {j \in 1 .. k - 1 : Gaps[j] > Gap}

\* The slots each run reads.
Sizes == [k \in DOMAIN runs |-> runs[k][2] - runs[k][1] + 1]

\* What is read is the stretch from the first slot to the last without the gaps cut out.
Measured ==
    /\ pc = "group" =>
           /\ SumOver(Sizes, DOMAIN runs) + (prev - start + 1) + SumOver(Gaps, CutsIn(i - 1))
                  = slots[i - 1] - slots[1] + 1
           /\ Len(runs) = Cardinality(CutsIn(i - 1))
    /\ pc = "split" =>
           /\ slots # <<>>
           /\ SumOver(Sizes, DOMAIN runs) + SumOver(Gaps, CutsIn(Len(slots))) = slots[Len(slots)] - slots[1] + 1
           /\ Len(runs) = Cardinality(CutsIn(Len(slots))) + 1

\* SumFunction is the sum that FiniteFacts is about.
LEMMA SumFunctionIs == ASSUME NEW f PROVE SumFunction(f) = SumOver(f, DOMAIN f)
  BY DEF SumFunction, SumFunctionOnSet, FoldFunctionOnSet, SumOver, MapThenSumSet

\* Gaps are natural numbers.
LEMMA GapsNat ==
    ASSUME TypeOK
    PROVE  /\ Len(slots) \in Nat
           /\ \A j \in 1 .. Len(slots) - 1 : Gaps[j] = slots[j + 1] - slots[j] - 1 /\ Gaps[j] \in Nat
           /\ \A k : k \in 1 .. Len(slots) =>
                  IsFiniteSet(CutsIn(k)) /\ CutsIn(k) \subseteq 1 .. Len(slots) - 1
  <1>1. Len(slots) \in Nat
    BY DEF TypeOK
  <1>2. ASSUME NEW j \in 1 .. Len(slots) - 1
        PROVE  Gaps[j] = slots[j + 1] - slots[j] - 1 /\ Gaps[j] \in Nat
    <2>1. j \in 1 .. Len(slots) /\ j + 1 \in 1 .. Len(slots) /\ j < j + 1
      BY <1>1
    <2>2. slots[j] \in Nat /\ slots[j + 1] \in Nat /\ slots[j] < slots[j + 1]
      BY <2>1, Increasing
    <2> QED BY <2>2 DEF Gaps
  <1>3. ASSUME NEW k, k \in 1 .. Len(slots)
        PROVE  IsFiniteSet(CutsIn(k)) /\ CutsIn(k) \subseteq 1 .. Len(slots) - 1
    <2>1. CutsIn(k) \subseteq 1 .. Len(slots) - 1
      BY <1>1, <1>3 DEF CutsIn
    <2>2. IsFiniteSet(1 .. Len(slots) - 1)
      BY <1>1, FS_Interval
    <2> QED BY <2>1, <2>2, FS_Subset
  <1> QED BY <1>1, <1>2, <1>3

\* One more slot: a cut is added if the gap before it is too long.
LEMMA OneMoreSlot ==
    ASSUME TypeOK, NEW k, k \in 1 .. Len(slots) - 1
    PROVE  /\ Gaps[k] <= Gap =>
                  /\ SumOver(Gaps, CutsIn(k + 1)) = SumOver(Gaps, CutsIn(k))
                  /\ Cardinality(CutsIn(k + 1)) = Cardinality(CutsIn(k))
           /\ Gaps[k] > Gap =>
                  /\ SumOver(Gaps, CutsIn(k + 1)) = SumOver(Gaps, CutsIn(k)) + Gaps[k]
                  /\ Cardinality(CutsIn(k + 1)) = Cardinality(CutsIn(k)) + 1
           /\ SumOver(Gaps, CutsIn(k)) \in Nat /\ Cardinality(CutsIn(k)) \in Nat
  <1>0. k \in 1 .. Len(slots) /\ k \in Int /\ Gaps[k] \in Nat /\ Gap \in Nat
    BY GapsNat, GapIsNat
  <1>1. \A x : x \in 1 .. k <=> x \in 1 .. k - 1 \/ x = k
    BY <1>0
  <1>2. CutsIn(k + 1) = IF Gaps[k] > Gap THEN CutsIn(k) \cup {k} ELSE CutsIn(k)
    <2>1. (k + 1) - 1 = k
      BY <1>0
    <2> QED BY <1>1, <2>1 DEF CutsIn
  <1>3. k \notin CutsIn(k)
    BY <1>0 DEF CutsIn
  <1>4. /\ IsFiniteSet(CutsIn(k)) /\ Gaps[k] \in Nat
        /\ \A x \in CutsIn(k) : Gaps[x] \in Nat
    BY <1>0, GapsNat
  <1>5. SumOver(Gaps, CutsIn(k) \cup {k}) = SumOver(Gaps, CutsIn(k)) + Gaps[k]
    BY <1>3, <1>4, SumAdd
  <1>6. Cardinality(CutsIn(k) \cup {k}) = Cardinality(CutsIn(k)) + 1 /\ Cardinality(CutsIn(k)) \in Nat
    BY <1>3, <1>4, FS_AddElement, FS_CardinalityType
  <1>7. SumOver(Gaps, CutsIn(k)) \in Nat
    BY <1>4, SumNat
  <1> QED BY <1>0, <1>2, <1>5, <1>6, <1>7

\* The sizes of the runs are natural numbers, and so is their sum.
LEMMA SizesNat ==
    ASSUME TypeOK, RunsMeasured
    PROVE  /\ DOMAIN runs = 1 .. Len(runs) /\ Len(runs) \in Nat /\ IsFiniteSet(DOMAIN runs)
           /\ \A k \in DOMAIN runs : Sizes[k] \in Nat
           /\ SumOver(Sizes, DOMAIN runs) \in Nat
  <1>1. DOMAIN runs = 1 .. Len(runs) /\ Len(runs) \in Nat
    BY DEF TypeOK
  <1>2. IsFiniteSet(DOMAIN runs)
    BY <1>1, FS_Interval
  <1>3. ASSUME NEW k \in DOMAIN runs PROVE Sizes[k] \in Nat
    <2>1. runs[k] \in Nat \X Nat /\ k \in 1 .. Len(runs)
      BY <1>1 DEF TypeOK
    <2>2. runs[k][1] \in Nat /\ runs[k][2] \in Nat /\ runs[k][1] <= runs[k][2]
      BY <2>1 DEF RunsMeasured
    <2> QED BY <2>2 DEF Sizes
  <1>4. SumOver(Sizes, DOMAIN runs) \in Nat
    BY <1>2, <1>3, SumNat
  <1> QED BY <1>1, <1>2, <1>3, <1>4

\* Emitting a run adds its size.
LEMMA EmitSize ==
    ASSUME IInv, pc = "group", runs' = Append(runs, <<start, prev>>), UNCHANGED input
    PROVE  /\ SumOver(Sizes', DOMAIN runs') = SumOver(Sizes, DOMAIN runs) + (prev - start + 1)
           /\ SumOver(Sizes, DOMAIN runs) \in Nat
           /\ Len(runs') = Len(runs) + 1 /\ Len(runs) \in Nat
           /\ prev - start + 1 \in Nat
  <1>1. /\ runs' \in Seq(Nat \X Nat) /\ Len(runs') = Len(runs) + 1
        /\ \A k \in 1 .. Len(runs) : runs'[k] = runs[k]
        /\ runs'[Len(runs) + 1] = <<start, prev>>
    BY EmitRun
  <1>2. /\ DOMAIN runs = 1 .. Len(runs) /\ Len(runs) \in Nat /\ IsFiniteSet(DOMAIN runs)
        /\ \A k \in DOMAIN runs : Sizes[k] \in Nat
        /\ SumOver(Sizes, DOMAIN runs) \in Nat
    BY SizesNat DEF IInv
  <1>w. PICK w : w = Sizes'
    OBVIOUS
  <1>n. PICK n : n = Len(runs)
    OBVIOUS
  <1>3. DOMAIN runs' = DOMAIN runs \cup {n + 1} /\ n + 1 \notin DOMAIN runs
    <2>1. DOMAIN runs' = 1 .. n + 1
      BY <1>1, <1>n
    <2> QED BY <1>2, <1>n, <2>1
  <1>4. prev - start + 1 \in Nat
    <2>1. start \in Nat /\ prev \in Nat /\ start <= prev
      BY DEF IInv, TypeOK, Building
    <2> QED BY <2>1
  <1>5. w[n + 1] = prev - start + 1
    <2>1. n + 1 \in DOMAIN runs'
      BY <1>3
    <2>2. w[n + 1] = runs'[n + 1][2] - runs'[n + 1][1] + 1
      BY <1>w, <2>1 DEF Sizes
    <2>3. runs'[n + 1][1] = start /\ runs'[n + 1][2] = prev
      BY <1>1, <1>n
    <2> QED BY <2>2, <2>3
  <1>6. \A k \in DOMAIN runs : Sizes[k] = w[k]
    <2> SUFFICES ASSUME NEW k \in DOMAIN runs PROVE Sizes[k] = w[k]
      OBVIOUS
    <2>1. k \in DOMAIN runs' /\ runs'[k] = runs[k]
      BY <1>1, <1>2, <1>3
    <2>2. w[k] = runs'[k][2] - runs'[k][1] + 1
      BY <1>w, <2>1 DEF Sizes
    <2> QED BY <2>1, <2>2 DEF Sizes
  <1>7. SumOver(Sizes, DOMAIN runs) = SumOver(w, DOMAIN runs)
    BY <1>2, <1>6, SumEqual
  <1>8. SumOver(w, DOMAIN runs \cup {n + 1}) = SumOver(w, DOMAIN runs) + w[n + 1]
    <2>1. \A k \in DOMAIN runs : w[k] \in Nat
      BY <1>2, <1>6
    <2>2. w[n + 1] \in Nat
      BY <1>4, <1>5
    <2>3. PICK D : D = DOMAIN runs
      OBVIOUS
    <2>4. PICK e : e = n + 1
      OBVIOUS
    <2>5. IsFiniteSet(D) /\ e \notin D /\ w[e] \in Nat /\ \A k \in D : w[k] \in Nat
      BY <1>2, <1>3, <2>1, <2>2, <2>3, <2>4
    <2>6. SumOver(w, D \cup {e}) = SumOver(w, D) + w[e]
      BY ONLY <2>5, SumAdd
    <2> QED BY <2>3, <2>4, <2>6
  <1> QED BY <1>1, <1>2, <1>3, <1>4, <1>5, <1>7, <1>8, <1>w

\* What is said of the input stays true while the input stays.
LEMMA InputStays ==
    ASSUME UNCHANGED input
    PROVE  Gaps' = Gaps /\ Gap' = Gap /\ \A k : CutsIn(k)' = CutsIn(k)
  BY DEF input, Gaps, Gap, CutsIn

\* Steps that emit no run keep the sizes.
LEMMA SizesStay ==
    ASSUME UNCHANGED runs
    PROVE  Sizes' = Sizes /\ DOMAIN runs' = DOMAIN runs
  BY DEF Sizes

\* Nothing has been counted before the first slot.
LEMMA InitMeasured == Init => Measured
  BY DEF Init, Measured

\* The first slot is a run so far, without a gap.
LEMMA BeginMeasured == ASSUME IInv, Begin PROVE Measured'
  <1>1. runs = <<>> /\ runs' = <<>> /\ i' = 2 /\ pc' = "group" /\ start' = slots[1] /\ prev' = slots[1] /\ slots' = slots
    BY DEF IInv, Begin, input
  <1>2. slots[1] \in Nat
    <2>1. 1 \in 1 .. Len(slots)
      BY DEF IInv, TypeOK, Begin
    <2> QED BY <2>1, Increasing DEF IInv
  <1>3. CutsIn(1)' = {}
    BY DEF CutsIn
  <1>4. DOMAIN runs' = {} /\ Len(runs') = 0
    BY <1>1
  <1>5. SumOver(Sizes', DOMAIN runs') = 0 /\ SumOver(Gaps', CutsIn(1)') = 0 /\ Cardinality(CutsIn(1)') = 0
    BY <1>3, <1>4, SumEmpty, FS_EmptySet
  <1>6. i' - 1 = 1
    BY <1>1
  <1> QED BY <1>1, <1>2, <1>4, <1>5, <1>6 DEF Measured

\* Bridging a gap makes the run longer by the gap and the slot.
LEMMA BridgeMeasured == ASSUME IInv, Measured, Bridge PROVE Measured'
  <1>1. /\ TypeOK /\ prev = slots[i - 1] /\ start \in Nat /\ i - 1 \in 1 .. Len(slots) - 1
        /\ (i - 1) + 1 = i /\ 1 \in 1 .. Len(slots) /\ i \in 1 .. Len(slots) /\ Len(slots) \in Nat
    BY DEF IInv, TypeOK, Building, Bridge
  <1>2. /\ pc' = "group" /\ runs' = runs /\ start' = start /\ prev' = slots[i] /\ i' = i + 1
        /\ UNCHANGED input /\ slots' = slots /\ pc = "group"
    BY DEF Bridge, input
  <1>3. Gaps[i - 1] = slots[i] - slots[i - 1] - 1 /\ Gaps[i - 1] <= Gap
    BY <1>1, GapsNat DEF Bridge
  <1>4. /\ SumOver(Gaps, CutsIn(i)) = SumOver(Gaps, CutsIn(i - 1))
        /\ Cardinality(CutsIn(i)) = Cardinality(CutsIn(i - 1))
        /\ SumOver(Gaps, CutsIn(i - 1)) \in Nat
    <2> DEFINE k == i - 1
    <2>1. k \in 1 .. Len(slots) - 1 /\ k + 1 = i /\ Gaps[k] <= Gap
      BY <1>1, <1>3
    <2> HIDE DEF k
    <2>2. /\ SumOver(Gaps, CutsIn(k + 1)) = SumOver(Gaps, CutsIn(k))
          /\ Cardinality(CutsIn(k + 1)) = Cardinality(CutsIn(k))
          /\ SumOver(Gaps, CutsIn(k)) \in Nat
      BY <1>1, <2>1, OneMoreSlot
    <2> QED BY <2>1, <2>2 DEF k
  <1>5. SumOver(Sizes, DOMAIN runs) \in Nat
    BY SizesNat DEF IInv
  <1>6. slots[i] \in Nat /\ slots[i - 1] \in Nat /\ slots[1] \in Nat
    BY <1>1, Increasing
  <1>7. /\ SumOver(Sizes, DOMAIN runs) + (prev - start + 1) + SumOver(Gaps, CutsIn(i - 1))
               = slots[i - 1] - slots[1] + 1
        /\ Len(runs) = Cardinality(CutsIn(i - 1))
    BY <1>2 DEF Measured
  <1>8. /\ SumOver(Sizes, DOMAIN runs) + (slots[i] - start + 1) + SumOver(Gaps, CutsIn(i))
               = slots[i] - slots[1] + 1
        /\ Len(runs) = Cardinality(CutsIn(i))
    <2>1. ASSUME NEW x \in Nat, NEW g \in Nat, NEW b \in Nat, NEW p \in Nat, NEW n \in Nat, NEW f \in Nat,
                 x + (p - b + 1) + g = p - f + 1
          PROVE  x + (n - b + 1) + g = n - f + 1
      BY <2>1
    <2>2. SumOver(Sizes, DOMAIN runs) + (slots[i - 1] - start + 1) + SumOver(Gaps, CutsIn(i - 1))
               = slots[i - 1] - slots[1] + 1
      BY <1>1, <1>7
    <2>3. SumOver(Sizes, DOMAIN runs) + (slots[i] - start + 1) + SumOver(Gaps, CutsIn(i - 1))
               = slots[i] - slots[1] + 1
      <3>1. /\ SumOver(Sizes, DOMAIN runs) \in Nat /\ SumOver(Gaps, CutsIn(i - 1)) \in Nat /\ start \in Nat
            /\ slots[i - 1] \in Nat /\ slots[i] \in Nat /\ slots[1] \in Nat
        BY <1>1, <1>4, <1>5, <1>6
      <3>2. PICK x \in Nat, g \in Nat, b \in Nat : x = SumOver(Sizes, DOMAIN runs) /\ g = SumOver(Gaps, CutsIn(i - 1)) /\ b = start
        BY <3>1
      <3>3. PICK p \in Nat, n \in Nat, f \in Nat : p = slots[i - 1] /\ n = slots[i] /\ f = slots[1]
        BY <3>1
      <3> QED BY <2>1, <2>2, <3>2, <3>3
    <2> QED BY <1>4, <1>7, <2>3
  <1>9. Gaps' = Gaps /\ i' - 1 = i /\ Sizes' = Sizes /\ DOMAIN runs' = DOMAIN runs
    BY <1>1, <1>2, InputStays, SizesStay
  <1>10. \A k : {j \in 1 .. k - 1 : Gaps'[j] > Gap'} = CutsIn(k)
    BY <1>2, InputStays DEF CutsIn
  <1> QED BY <1>2, <1>8, <1>9, <1>10 DEF Measured, CutsIn

\* A cut ends a run before a gap that is too long.
LEMMA CutMeasured == ASSUME IInv, Measured, Cut PROVE Measured'
  <1>1. /\ TypeOK /\ prev = slots[i - 1] /\ start \in Nat /\ i - 1 \in 1 .. Len(slots) - 1
        /\ (i - 1) + 1 = i /\ 1 \in 1 .. Len(slots) /\ i \in 1 .. Len(slots) /\ Len(slots) \in Nat
    BY DEF IInv, TypeOK, Building, Cut
  <1>2. /\ pc' = "group" /\ runs' = Append(runs, <<start, prev>>) /\ start' = slots[i] /\ prev' = slots[i]
        /\ i' = i + 1 /\ UNCHANGED input /\ slots' = slots /\ pc = "group"
    BY DEF Cut, input
  <1>3. Gaps[i - 1] = slots[i] - slots[i - 1] - 1 /\ Gaps[i - 1] > Gap
    BY <1>1, GapsNat DEF Cut
  <1>4. /\ SumOver(Gaps, CutsIn(i)) = SumOver(Gaps, CutsIn(i - 1)) + Gaps[i - 1]
        /\ Cardinality(CutsIn(i)) = Cardinality(CutsIn(i - 1)) + 1
        /\ SumOver(Gaps, CutsIn(i - 1)) \in Nat
    <2> DEFINE k == i - 1
    <2>1. k \in 1 .. Len(slots) - 1 /\ k + 1 = i /\ Gaps[k] > Gap
      BY <1>1, <1>3
    <2> HIDE DEF k
    <2>2. /\ SumOver(Gaps, CutsIn(k + 1)) = SumOver(Gaps, CutsIn(k)) + Gaps[k]
          /\ Cardinality(CutsIn(k + 1)) = Cardinality(CutsIn(k)) + 1
          /\ SumOver(Gaps, CutsIn(k)) \in Nat
      BY <1>1, <2>1, OneMoreSlot
    <2> QED BY <2>1, <2>2 DEF k
  <1>5. /\ SumOver(Sizes', DOMAIN runs') = SumOver(Sizes, DOMAIN runs) + (prev - start + 1)
        /\ SumOver(Sizes, DOMAIN runs) \in Nat
        /\ Len(runs') = Len(runs) + 1 /\ Len(runs) \in Nat
    BY <1>2, EmitSize
  <1>6. slots[i] \in Nat /\ slots[i - 1] \in Nat /\ slots[1] \in Nat
    BY <1>1, Increasing
  <1>7. /\ SumOver(Sizes, DOMAIN runs) + (prev - start + 1) + SumOver(Gaps, CutsIn(i - 1))
               = slots[i - 1] - slots[1] + 1
        /\ Len(runs) = Cardinality(CutsIn(i - 1))
    BY <1>2 DEF Measured
  <1>8. /\ SumOver(Sizes', DOMAIN runs') + (slots[i] - slots[i] + 1) + SumOver(Gaps, CutsIn(i))
               = slots[i] - slots[1] + 1
        /\ Len(runs') = Cardinality(CutsIn(i))
    <2>1. ASSUME NEW x \in Nat, NEW g \in Nat, NEW b \in Nat, NEW p \in Nat, NEW n \in Nat, NEW f \in Nat,
                 x + (p - b + 1) + g = p - f + 1
          PROVE  (x + (p - b + 1)) + (n - n + 1) + (g + (n - p - 1)) = n - f + 1
      BY <2>1
    <2>2. SumOver(Sizes, DOMAIN runs) + (slots[i - 1] - start + 1) + SumOver(Gaps, CutsIn(i - 1))
               = slots[i - 1] - slots[1] + 1
      BY <1>1, <1>7
    <2>3. (SumOver(Sizes, DOMAIN runs) + (slots[i - 1] - start + 1)) + (slots[i] - slots[i] + 1)
              + (SumOver(Gaps, CutsIn(i - 1)) + (slots[i] - slots[i - 1] - 1)) = slots[i] - slots[1] + 1
      <3>1. /\ SumOver(Sizes, DOMAIN runs) \in Nat /\ SumOver(Gaps, CutsIn(i - 1)) \in Nat /\ start \in Nat
            /\ slots[i - 1] \in Nat /\ slots[i] \in Nat /\ slots[1] \in Nat
        BY <1>1, <1>4, <1>5, <1>6
      <3>2. PICK x \in Nat, g \in Nat, b \in Nat : x = SumOver(Sizes, DOMAIN runs) /\ g = SumOver(Gaps, CutsIn(i - 1)) /\ b = start
        BY <3>1
      <3>3. PICK p \in Nat, n \in Nat, f \in Nat : p = slots[i - 1] /\ n = slots[i] /\ f = slots[1]
        BY <3>1
      <3> QED BY <2>1, <2>2, <3>2, <3>3
    <2>4. SumOver(Sizes', DOMAIN runs') = SumOver(Sizes, DOMAIN runs) + (slots[i - 1] - start + 1)
      BY <1>1, <1>5
    <2> QED BY <1>3, <1>4, <1>5, <1>7, <2>3, <2>4
  <1>9. Gaps' = Gaps /\ i' - 1 = i
    BY <1>1, <1>2, InputStays
  <1>10. \A k : {j \in 1 .. k - 1 : Gaps'[j] > Gap'} = CutsIn(k)
    BY <1>2, InputStays DEF CutsIn
  <1> QED BY <1>2, <1>8, <1>9, <1>10 DEF Measured, CutsIn

\* With the last run all slots are counted.
LEMMA LastRunMeasured == ASSUME IInv, Measured, LastRun PROVE Measured'
  <1>1. /\ TypeOK /\ prev = slots[i - 1] /\ start \in Nat /\ i - 1 = Len(slots) /\ slots # <<>>
        /\ Len(slots) \in 1 .. Len(slots) /\ 1 \in 1 .. Len(slots)
    BY DEF IInv, TypeOK, Building, LastRun
  <1>2. /\ pc' = "split" /\ runs' = Append(runs, <<start, prev>>)
        /\ UNCHANGED input /\ slots' = slots /\ pc = "group"
    BY DEF LastRun, input
  <1>3. /\ SumOver(Sizes', DOMAIN runs') = SumOver(Sizes, DOMAIN runs) + (prev - start + 1)
        /\ SumOver(Sizes, DOMAIN runs) \in Nat
        /\ Len(runs') = Len(runs) + 1 /\ Len(runs) \in Nat
    BY <1>2, EmitSize
  <1>4. /\ SumOver(Sizes, DOMAIN runs) + (prev - start + 1) + SumOver(Gaps, CutsIn(Len(slots)))
               = slots[Len(slots)] - slots[1] + 1
        /\ Len(runs) = Cardinality(CutsIn(Len(slots)))
    BY <1>1, <1>2 DEF Measured
  <1>5. Gaps' = Gaps
    BY <1>2, InputStays
  <1>6. \A k : {j \in 1 .. k - 1 : Gaps'[j] > Gap'} = CutsIn(k)
    BY <1>2, InputStays DEF CutsIn
  <1> QED BY <1>1, <1>2, <1>3, <1>4, <1>5, <1>6 DEF Measured, CutsIn

\* Splitting changes neither the slots nor the runs.
LEMMA SplitMeasured == ASSUME Measured, pc' # "group", pc' = "split" => pc = "split", UNCHANGED <<runs, input>> PROVE Measured'
  <1>1. Gaps' = Gaps /\ Sizes' = Sizes /\ DOMAIN runs' = DOMAIN runs /\ slots' = slots /\ runs' = runs
    BY InputStays, SizesStay DEF input
  <1>2. \A k : {j \in 1 .. k - 1 : Gaps'[j] > Gap'} = CutsIn(k)
    BY InputStays DEF CutsIn
  <1> QED BY <1>1, <1>2 DEF Measured, CutsIn

\* The invariant, with what it says of sizes, in every state.
LEMMA MeasuredAlways == Spec => [](IInv /\ Measured)
  <1>1. Init => IInv /\ Measured
    BY InitIInv, InitMeasured
  <1>2. ASSUME IInv, Measured, [Next]_vars PROVE Measured'
    <2>1. CASE Begin
      BY <1>2, <2>1, BeginMeasured
    <2>2. CASE Bridge
      BY <1>2, <2>2, BridgeMeasured
    <2>3. CASE Cut
      BY <1>2, <2>3, CutMeasured
    <2>4. CASE LastRun
      BY <1>2, <2>4, LastRunMeasured
    <2>5. CASE Empty \/ SplitRead \/ Finish
      <3>1. pc' # "group" /\ (pc' = "split" => pc = "split") /\ UNCHANGED <<runs, input>>
        BY <2>5 DEF Empty, SplitRead, Finish
      <3> QED BY <1>2, <3>1, SplitMeasured
    <2>6. CASE UNCHANGED vars
      <3>1. UNCHANGED <<runs, input, pc, i, start, prev>>
        BY <2>6 DEF vars, input
      <3>2. Gaps' = Gaps /\ Sizes' = Sizes /\ DOMAIN runs' = DOMAIN runs /\ slots' = slots
        BY <3>1, InputStays, SizesStay DEF input
      <3>3. \A k : {j \in 1 .. k - 1 : Gaps'[j] > Gap'} = CutsIn(k)
        BY <3>1, InputStays DEF CutsIn
      <3> QED BY <1>2, <3>1, <3>2, <3>3 DEF Measured, CutsIn
    <2> QED BY <1>2, <2>1, <2>2, <2>3, <2>4, <2>5, <2>6 DEF Next
  <1> QED BY <1>1, <1>2, Invariance, PTL DEF Spec

-----------------------------------------------------------------------------
(* Any other way to group *)

\* The list s of n slots, cut after the positions C, which leaves some slot after each: where groups begin, where the group from b
\* ends, what it spans, and the gaps of the list.
CutList(C, n) == n \in Nat \ {0} /\ C \subseteq 1 .. n - 1
Begins(C) == {1} \cup {j + 1 : j \in C}
GroupEnd(C, n, b) == Min({e \in C \cup {n} : e >= b})
Spans(s, C, n) == [b \in Begins(C) |-> s[GroupEnd(C, n, b)] - s[b] + 1]
GapsOf(s, n) == [j \in 1 .. n - 1 |-> s[j + 1] - s[j] - 1]

\* x is the first cut from b on, or the end of the list.
FirstFrom(x, C, n, b) ==
    /\ x \in C \cup {n} /\ x >= b
    /\ \A e \in C \cup {n} : e >= b => x <= e

\* m is the first of the cuts C; the cuts without it.
First(m, C) == m \in C /\ \A j \in C : m <= j
Without(m, C) == C \ {m}

Ascending(s, n) == \A j, k \in 1 .. n : s[j] \in Nat /\ (j < k => s[j] < s[k])

\* The end of a group is the first cut from its beginning on.
LEMMA GroupEndIs ==
    ASSUME NEW n, NEW C, CutList(C, n), NEW b, b \in 1 .. n
    PROVE  /\ FirstFrom(GroupEnd(C, n, b), C, n, b)
           /\ GroupEnd(C, n, b) \in 1 .. n /\ GroupEnd(C, n, b) >= b
  <1>1. PICK S : S = {e \in C \cup {n} : e >= b}
    OBVIOUS
  <1>2. \A e \in C \cup {n} : e \in 1 .. n
    <2>1. n \in Nat \ {0} /\ \A e \in C : e \in 1 .. n - 1
      BY DEF CutList
    <2> QED BY <2>1
  <1>3. S \in SUBSET Nat /\ S # {}
    <2>1. n \in S
      BY <1>1
    <2>2. \A e \in S : e \in 1 .. n
      BY <1>1, <1>2
    <2> QED BY <2>1, <2>2 DEF CutList
  <1>4. \E x \in S : \A y \in S : x <= y
    BY ONLY <1>3, SmallestNat
  <1>5. GroupEnd(C, n, b) \in S /\ \A y \in S : GroupEnd(C, n, b) <= y
    <2>1. GroupEnd(C, n, b) = Min(S)
      BY <1>1 DEF GroupEnd
    <2> QED BY <1>4, <2>1 DEF Min
  <1>6. PICK x : x = GroupEnd(C, n, b)
    OBVIOUS
  <1>7. x \in C \cup {n} /\ x >= b /\ \A e \in C \cup {n} : e >= b => x <= e
    BY <1>1, <1>5, <1>6
  <1>8. x \in 1 .. n
    BY <1>2, <1>7
  <1> QED BY <1>6, <1>7, <1>8 DEF FirstFrom

\* And it is that cut.
LEMMA GroupEndFrom ==
    ASSUME NEW n, NEW C, CutList(C, n), NEW b, b \in 1 .. n,
           NEW x, FirstFrom(x, C, n, b)
    PROVE  GroupEnd(C, n, b) = x
  <1>1. PICK y : y = GroupEnd(C, n, b)
    OBVIOUS
  <1>2. FirstFrom(y, C, n, b) /\ y \in 1 .. n
    BY <1>1, GroupEndIs
  <1>3. x <= y /\ y <= x /\ x \in C \cup {n}
    BY <1>2 DEF FirstFrom
  <1>4. x \in Int /\ y \in Int
    BY <1>2, <1>3 DEF CutList
  <1> QED BY <1>1, <1>3, <1>4

\* A group spans a natural number of slots.
LEMMA SpansNat ==
    ASSUME NEW n, NEW C, CutList(C, n), NEW s, Ascending(s, n)
    PROVE  /\ Begins(C) \subseteq 1 .. n /\ IsFiniteSet(Begins(C)) /\ IsFiniteSet(C)
           /\ \A b \in Begins(C) : /\ Spans(s, C, n)[b] = s[GroupEnd(C, n, b)] - s[b] + 1
                                   /\ Spans(s, C, n)[b] \in Nat
  <1>1. Begins(C) \subseteq 1 .. n
    BY DEF Begins, CutList
  <1>2. IsFiniteSet(1 .. n) /\ IsFiniteSet(1 .. n - 1)
    BY FS_Interval DEF CutList
  <1>3. IsFiniteSet(Begins(C)) /\ IsFiniteSet(C)
    BY <1>1, <1>2, FS_Subset DEF CutList
  <1>4. ASSUME NEW b \in Begins(C)
        PROVE  /\ Spans(s, C, n)[b] = s[GroupEnd(C, n, b)] - s[b] + 1
               /\ Spans(s, C, n)[b] \in Nat
    <2>1. b \in 1 .. n /\ GroupEnd(C, n, b) \in 1 .. n /\ GroupEnd(C, n, b) >= b
      BY <1>1, GroupEndIs
    <2>2. s[b] \in Nat /\ s[GroupEnd(C, n, b)] \in Nat /\ s[b] <= s[GroupEnd(C, n, b)]
      <3>1. b = GroupEnd(C, n, b) \/ b < GroupEnd(C, n, b)
        BY <2>1
      <3> QED BY <2>1, <3>1 DEF Ascending
    <2>3. Spans(s, C, n)[b] = s[GroupEnd(C, n, b)] - s[b] + 1
      BY DEF Spans
    <2> QED BY <2>2, <2>3
  <1> QED BY <1>1, <1>3, <1>4

\* Undoing the first cut m joins the group that ends there with the next one, and moves no other
\* end.
LEMMA EndsJoined ==
    ASSUME NEW n, NEW C, CutList(C, n), NEW m, First(m, C)
    PROVE  /\ CutList(Without(m, C), n) /\ m \in 1 .. n - 1 /\ m \in 1 .. n /\ m + 1 \in 1 .. n
           /\ GroupEnd(C, n, 1) = m
           /\ GroupEnd(Without(m, C), n, 1) = GroupEnd(C, n, m + 1)
           /\ \A j \in Without(m, C) :
                  GroupEnd(C, n, j + 1) = GroupEnd(Without(m, C), n, j + 1) /\ j + 1 # 1 /\ j + 1 # m + 1
  <1>1. PICK D : D = Without(m, C)
    OBVIOUS
  <1>2. m \in C /\ (\A j \in C : m <= j) /\ C = D \cup {m} /\ m \notin D
    BY <1>1 DEF First, Without
  <1>3. /\ D \subseteq 1 .. n - 1 /\ m \in 1 .. n - 1 /\ m \in 1 .. n /\ m + 1 \in 1 .. n /\ 1 \in 1 .. n
        /\ CutList(D, n)
    BY <1>2 DEF CutList
  <1>4. GroupEnd(C, n, 1) = m
    <2>1. FirstFrom(m, C, n, 1)
      BY <1>2, <1>3 DEF FirstFrom
    <2> QED BY <1>3, <2>1, GroupEndFrom
  <1>5. \A e \in D \cup {n} : e >= m + 1 /\ e \in 1 .. n
    BY <1>2, <1>3 DEF CutList
  <1>6. GroupEnd(D, n, 1) = GroupEnd(C, n, m + 1)
    <2>1. PICK x : x = GroupEnd(C, n, m + 1)
      OBVIOUS
    <2>2. FirstFrom(x, C, n, m + 1) /\ x \in 1 .. n
      BY <1>3, <2>1, GroupEndIs
    <2>3. FirstFrom(x, D, n, 1)
      BY <1>2, <1>3, <1>5, <2>2 DEF FirstFrom
    <2> QED BY <1>3, <2>1, <2>3, GroupEndFrom
  <1>7. ASSUME NEW j \in D
        PROVE  GroupEnd(C, n, j + 1) = GroupEnd(D, n, j + 1) /\ j + 1 # 1 /\ j + 1 # m + 1
    <2>1. j \in 1 .. n - 1 /\ j > m /\ j + 1 \in 1 .. n
      BY <1>2, <1>3 DEF CutList
    <2>2. PICK x, b : x = GroupEnd(D, n, b) /\ b = j + 1
      OBVIOUS
    <2>3. FirstFrom(x, D, n, b) /\ b > m /\ b \in 1 .. n
      BY <1>3, <2>1, <2>2, GroupEndIs
    <2>4. FirstFrom(x, C, n, b)
      BY <1>2, <1>3, <2>3 DEF FirstFrom
    <2>5. GroupEnd(C, n, b) = x
      BY <2>3, <2>4, GroupEndFrom
    <2> QED BY <1>3, <2>1, <2>2, <2>5
  <1> QED BY <1>1, <1>3, <1>4, <1>6, <1>7

\* It spans the gap between the two groups.
LEMMA Joined ==
    ASSUME NEW n, NEW C, CutList(C, n), NEW s, Ascending(s, n),
           NEW m, First(m, C)
    PROVE  /\ Cardinality(Begins(C)) = Cardinality(Begins(Without(m, C))) + 1
           /\ SumOver(Spans(s, C, n), Begins(C)) + (s[m + 1] - s[m] - 1)
                  = SumOver(Spans(s, Without(m, C), n), Begins(Without(m, C)))
  <1>0. PICK D, R, v, w : /\ D = Without(m, C) /\ R = {j + 1 : j \in D}
                          /\ v = Spans(s, C, n) /\ w = Spans(s, D, n)
    OBVIOUS
  <1>1. /\ CutList(D, n) /\ m \in 1 .. n - 1 /\ m \in 1 .. n /\ m + 1 \in 1 .. n /\ 1 \in 1 .. n
        /\ GroupEnd(C, n, 1) = m /\ GroupEnd(D, n, 1) = GroupEnd(C, n, m + 1)
        /\ \A j \in D : GroupEnd(C, n, j + 1) = GroupEnd(D, n, j + 1) /\ j + 1 # 1 /\ j + 1 # m + 1
    <2>1. 1 \in 1 .. n
      BY DEF CutList
    <2> QED BY <1>0, <2>1, EndsJoined
  <1>2. /\ Begins(D) = R \cup {1} /\ 1 \notin R
        /\ Begins(C) = (R \cup {1}) \cup {m + 1} /\ m + 1 \notin R \cup {1}
    <2>1. Begins(C) = (R \cup {1}) \cup {m + 1}
      <3>1. C = D \cup {m}
        BY <1>0 DEF First, Without
      <3>2. {j + 1 : j \in C} = R \cup {m + 1}
        BY <1>0, <3>1
      <3> QED BY <3>2 DEF Begins
    <2>2. Begins(D) = R \cup {1}
      BY <1>0 DEF Begins
    <2>3. m + 1 # 1
      BY <1>1
    <2> QED BY <1>0, <1>1, <2>1, <2>2, <2>3
  <1>3. /\ IsFiniteSet(R) /\ IsFiniteSet(R \cup {1})
        /\ \A b \in R \cup {1} : w[b] = s[GroupEnd(D, n, b)] - s[b] + 1 /\ w[b] \in Nat
        /\ \A b \in (R \cup {1}) \cup {m + 1} : v[b] = s[GroupEnd(C, n, b)] - s[b] + 1 /\ v[b] \in Nat
    <2>1. IsFiniteSet(Begins(D)) /\ \A b \in Begins(D) : w[b] = s[GroupEnd(D, n, b)] - s[b] + 1 /\ w[b] \in Nat
      BY <1>0, <1>1, SpansNat
    <2>2. \A b \in Begins(C) : v[b] = s[GroupEnd(C, n, b)] - s[b] + 1 /\ v[b] \in Nat
      BY <1>0, SpansNat
    <2>3. IsFiniteSet(R)
      BY <1>2, <2>1, FS_Subset
    <2> QED BY <1>2, <2>1, <2>2, <2>3
  <1>4. \A b \in R : v[b] = w[b]
    <2>1. ASSUME NEW b \in R PROVE v[b] = w[b]
      <3>1. GroupEnd(C, n, b) = GroupEnd(D, n, b)
        BY <1>0, <1>1
      <3> QED BY <1>3, <3>1
    <2> QED BY <2>1
  <1>5. /\ SumOver(v, R \cup {1}) = SumOver(v, R) + v[1]
        /\ SumOver(w, R \cup {1}) = SumOver(w, R) + w[1]
        /\ SumOver(v, (R \cup {1}) \cup {m + 1}) = SumOver(v, R \cup {1}) + v[m + 1]
        /\ SumOver(v, R) = SumOver(w, R) /\ SumOver(w, R) \in Nat
    <2>1. PICK d, e : d = 1 /\ e = m + 1
      OBVIOUS
    <2>2. /\ IsFiniteSet(R) /\ IsFiniteSet(R \cup {d}) /\ d \notin R /\ e \notin R \cup {d}
          /\ \A b \in R : v[b] \in Nat /\ w[b] \in Nat /\ v[b] = w[b]
          /\ v[d] \in Nat /\ w[d] \in Nat /\ v[e] \in Nat
          /\ \A b \in R \cup {d} : v[b] \in Nat
      BY <1>2, <1>3, <1>4, <2>1
    <2>3. SumOver(v, R \cup {d}) = SumOver(v, R) + v[d]
      BY ONLY <2>2, SumAdd
    <2>4. SumOver(w, R \cup {d}) = SumOver(w, R) + w[d]
      BY ONLY <2>2, SumAdd
    <2>5. SumOver(v, (R \cup {d}) \cup {e}) = SumOver(v, R \cup {d}) + v[e]
      BY ONLY <2>2, SumAdd
    <2>6. SumOver(v, R) = SumOver(w, R)
      BY ONLY <2>2, SumEqual
    <2>7. SumOver(w, R) \in Nat
      BY ONLY <2>2, SumNat
    <2> QED BY <2>1, <2>3, <2>4, <2>5, <2>6, <2>7
  <1>6. /\ v[1] = s[m] - s[1] + 1
        /\ v[m + 1] = s[GroupEnd(C, n, m + 1)] - s[m + 1] + 1
        /\ w[1] = s[GroupEnd(C, n, m + 1)] - s[1] + 1
    BY <1>1, <1>3
  <1>7. s[m] \in Nat /\ s[1] \in Nat /\ s[m + 1] \in Nat /\ s[GroupEnd(C, n, m + 1)] \in Nat
    <2>1. GroupEnd(C, n, m + 1) \in 1 .. n
      BY <1>1, GroupEndIs
    <2> QED BY <1>1, <2>1 DEF Ascending
  <1>8. SumOver(v, (R \cup {1}) \cup {m + 1}) + (s[m + 1] - s[m] - 1) = SumOver(w, R \cup {1})
    <2>1. PICK t \in Nat, h \in Nat, f \in Nat, g \in Nat, z \in Nat :
              t = SumOver(w, R) /\ h = s[m] /\ f = s[1] /\ g = s[m + 1] /\ z = s[GroupEnd(C, n, m + 1)]
      BY <1>5, <1>7
    <2>2. ((t + (h - f + 1)) + (z - g + 1)) + (g - h - 1) = t + (z - f + 1)
      BY <2>1
    <2>3. SumOver(v, (R \cup {1}) \cup {m + 1}) = (t + (h - f + 1)) + (z - g + 1)
      BY <1>5, <1>6, <2>1
    <2>4. SumOver(w, R \cup {1}) = t + (z - f + 1)
      BY <1>5, <1>6, <2>1
    <2> QED BY <2>1, <2>2, <2>3, <2>4
  <1>9. Cardinality((R \cup {1}) \cup {m + 1}) = Cardinality(R \cup {1}) + 1
    BY <1>2, <1>3, FS_AddElement
  <1> QED BY <1>0, <1>2, <1>8, <1>9

\* What a way to group reads, and the gaps it leaves out, make the stretch of the list.
GroupsAddUp(s, C, n) ==
    /\ Cardinality(Begins(C)) = Cardinality(C) + 1
    /\ SumOver(Spans(s, C, n), Begins(C)) + SumOver(GapsOf(s, n), C) = s[n] - s[1] + 1

\* The gaps of an ascending list are natural numbers.
LEMMA GapsOfNat ==
    ASSUME NEW n, n \in Nat \ {0}, NEW s, Ascending(s, n), NEW j, j \in 1 .. n - 1
    PROVE  /\ GapsOf(s, n)[j] = s[j + 1] - s[j] - 1 /\ GapsOf(s, n)[j] \in Nat
           /\ s[j] \in Nat /\ s[j + 1] \in Nat
  <1>1. j \in 1 .. n /\ j + 1 \in 1 .. n /\ j < j + 1
    OBVIOUS
  <1>2. s[j] \in Nat /\ s[j + 1] \in Nat /\ s[j] < s[j + 1]
    BY <1>1 DEF Ascending
  <1>3. GapsOf(s, n)[j] = s[j + 1] - s[j] - 1
    BY DEF GapsOf
  <1> QED BY <1>2, <1>3

\* A weight alone is its sum.
LEMMA SumSingle ==
    ASSUME NEW w, NEW x, w[x] \in Nat
    PROVE  SumOver(w, {x}) = w[x]
  <1>1. IsFiniteSet({}) /\ x \notin {} /\ (\A y \in {} : w[y] \in Nat) /\ {} \cup {x} = {x}
    BY FS_EmptySet
  <1>2. SumOver(w, {} \cup {x}) = SumOver(w, {}) + w[x]
    BY <1>1, SumAdd
  <1> QED BY <1>1, <1>2, SumEmpty

\* Without a cut the list is one group.
LEMMA OneGroupAddsUp ==
    ASSUME NEW n, NEW s, Ascending(s, n), NEW C, CutList(C, n), C = {}
    PROVE  GroupsAddUp(s, C, n)
  <1>1. Begins(C) = {1} /\ 1 \in 1 .. n
    BY DEF Begins, CutList
  <1>2. GroupEnd(C, n, 1) = n
    <2>1. FirstFrom(n, C, n, 1)
      BY DEF FirstFrom, CutList
    <2> QED BY <1>1, <2>1, GroupEndFrom
  <1>3. PICK w : w = Spans(s, C, n)
    OBVIOUS
  <1>4. w[1] = s[n] - s[1] + 1 /\ w[1] \in Nat
    <2>1. w[1] = s[GroupEnd(C, n, 1)] - s[1] + 1 /\ w[1] \in Nat
      <3>1. 1 \in Begins(C)
        BY <1>1
      <3> QED BY <1>3, <3>1, SpansNat
    <2> QED BY <1>2, <2>1
  <1>5. SumOver(w, {1}) = w[1]
    <2>1. PICK x : x = 1
      OBVIOUS
    <2>2. SumOver(w, {x}) = w[x]
      BY <1>4, <2>1, SumSingle
    <2> QED BY <2>1, <2>2
  <1>6. SumOver(GapsOf(s, n), C) = 0
    BY SumEmpty
  <1>7. Cardinality({1}) = 1 /\ Cardinality(C) = 0
    BY FS_EmptySet, FS_Singleton
  <1>8. w[1] + 0 = s[n] - s[1] + 1
    BY <1>4
  <1> QED BY <1>1, <1>3, <1>5, <1>6, <1>7, <1>8 DEF GroupsAddUp

\* A cut before all others leaves it so.
LEMMA CutAddsUp ==
    ASSUME NEW n, NEW s, Ascending(s, n), NEW C, CutList(C, n),
           NEW m, First(m, C),
           GroupsAddUp(s, Without(m, C), n)
    PROVE  GroupsAddUp(s, C, n)
  <1>0. PICK D : D = Without(m, C)
    OBVIOUS
  <1>1. /\ Cardinality(Begins(C)) = Cardinality(Begins(D)) + 1
        /\ SumOver(Spans(s, C, n), Begins(C)) + (s[m + 1] - s[m] - 1) = SumOver(Spans(s, D, n), Begins(D))
    BY <1>0, Joined
  <1>2. PICK w : w = GapsOf(s, n)
    OBVIOUS
  <1>3. D \subseteq C /\ D \subseteq 1 .. n - 1 /\ m \notin D /\ C = D \cup {m} /\ m \in 1 .. n - 1
    BY <1>0 DEF First, Without, CutList
  <1>a. /\ IsFiniteSet(C) /\ IsFiniteSet(Begins(C))
        /\ \A b \in Begins(C) : Spans(s, C, n)[b] \in Nat
    BY SpansNat
  <1>4. IsFiniteSet(D)
    BY <1>3, <1>a, FS_Subset
  <1>b. \A x \in 1 .. n - 1 : /\ w[x] = s[x + 1] - s[x] - 1 /\ w[x] \in Nat
                              /\ s[x] \in Nat /\ s[x + 1] \in Nat
    BY <1>2, GapsOfNat DEF CutList
  <1>5. /\ \A x \in D : w[x] \in Nat
        /\ w[m] \in Nat /\ w[m] = s[m + 1] - s[m] - 1 /\ s[m] \in Nat /\ s[m + 1] \in Nat
    BY <1>3, <1>b
  <1>c. IsFiniteSet(D) /\ (\A x \in D : w[x] \in Nat) /\ m \notin D /\ w[m] \in Nat
    BY <1>3, <1>4, <1>5
  <1>6. SumOver(w, D \cup {m}) = SumOver(w, D) + w[m]
    BY ONLY <1>c, SumAdd
  <1>7. Cardinality(D \cup {m}) = Cardinality(D) + 1
    BY ONLY <1>c, FS_AddElement
  <1>d. SumOver(w, D) \in Nat
    BY ONLY <1>c, SumNat
  <1>8. SumOver(w, D) \in Nat /\ SumOver(Spans(s, C, n), Begins(C)) \in Nat
    BY <1>a, <1>d, SumNat
  <1>9. PICK t \in Nat, g \in Nat, h \in Nat, f \in Nat :
            t = SumOver(Spans(s, C, n), Begins(C)) /\ g = SumOver(w, D) /\ h = s[m + 1] /\ f = s[m]
    BY <1>5, <1>8
  <1>10. t + (g + (h - f - 1)) = (t + (h - f - 1)) + g
    BY <1>9
  <1>11. SumOver(Spans(s, D, n), Begins(D)) + SumOver(w, D) = s[n] - s[1] + 1
    BY <1>0, <1>2 DEF GroupsAddUp
  <1>12. SumOver(Spans(s, C, n), Begins(C)) + SumOver(w, C) = s[n] - s[1] + 1
    BY <1>1, <1>3, <1>5, <1>6, <1>9, <1>10, <1>11
  <1>13. Cardinality(Begins(C)) = Cardinality(C) + 1
    BY <1>0, <1>1, <1>3, <1>7 DEF GroupsAddUp
  <1> QED BY <1>2, <1>12, <1>13 DEF GroupsAddUp

\* So it is for every way to group.
LEMMA GroupsSize ==
    ASSUME NEW n, NEW s, Ascending(s, n), NEW C, CutList(C, n)
    PROVE  GroupsAddUp(s, C, n)
  <1>1. SUFFICES ASSUME ~GroupsAddUp(s, C, n) PROVE FALSE
    OBVIOUS
  <1>2. PICK Bad : Bad = {E \in SUBSET (1 .. n - 1) : ~GroupsAddUp(s, E, n)}
    OBVIOUS
  <1>3. PICK N : N = 1 .. n - 1
    OBVIOUS
  <1>4. IsFiniteSet(N) /\ Bad \in SUBSET SUBSET N /\ Bad # {}
    <2>1. IsFiniteSet(N)
      BY <1>3, FS_Interval DEF CutList
    <2>2. C \in Bad
      BY <1>1, <1>2 DEF CutList
    <2> QED BY <1>2, <1>3, <2>1, <2>2
  <1>5. PICK E \in Bad : \A D \in Bad : D \subseteq E => D = E
    BY ONLY <1>4, MinimalSubset
  <1>6. E \subseteq 1 .. n - 1 /\ CutList(E, n) /\ ~GroupsAddUp(s, E, n)
    BY <1>2, <1>5 DEF CutList
  <1>7. E # {}
    BY <1>6, OneGroupAddsUp
  <1>8. PICK m : First(m, E)
    <2>1. E \in SUBSET Nat
      BY <1>6 DEF CutList
    <2>2. \E m \in E : \A j \in E : m <= j
      BY ONLY <1>7, <2>1, SmallestNat
    <2> QED BY <2>2 DEF First
  <1>9. PICK D : D = Without(m, E)
    OBVIOUS
  <1>10. D \subseteq 1 .. n - 1 /\ D \subseteq E /\ D # E
    BY <1>6, <1>8, <1>9 DEF First, Without
  <1>11. GroupsAddUp(s, D, n)
    BY <1>2, <1>5, <1>10
  <1> QED BY <1>6, <1>8, <1>9, <1>11, CutAddsUp

\* A gap is worth a cut exactly when it is longer than max_gap allows.
LEMMA GapWorth ==
    ASSUME NEW f \in Nat, NEW b \in Nat \ {0}, NEW g \in Nat
    PROVE  (g > f \div b) <=> b * g > f
  <1>1. PICK q \in Nat, x \in Nat : q = f \div b /\ x = f % b /\ f = b * q + x /\ x < b
    OBVIOUS
  <1>2. CASE g > q
    <2>1. PICK d \in Nat : g = q + 1 + d
      <3>1. g - q - 1 \in Nat /\ g = q + 1 + (g - q - 1)
        BY <1>2
      <3> QED BY <3>1
    <2>2. b * g = b * q + b + b * d /\ b * d \in Nat
      BY <2>1
    <2> QED BY <1>1, <1>2, <2>2
  <1>3. CASE g <= q
    <2>1. PICK d \in Nat : q = g + d
      <3>1. q - g \in Nat /\ q = g + (q - g)
        BY <1>3
      <3> QED BY <3>1
    <2>2. b * q = b * g + b * d /\ b * d \in Nat /\ b * g \in Nat
      BY <2>1
    <2> QED BY <1>1, <1>3, <2>2
  <1> QED BY <1>2, <1>3

\* The cuts S within E.
Part(S, E) == S \cap E

\* Within E, the cuts O cost no more than the cuts C: the gaps they leave out are worth the
\* fetches they add.
NoWorse(w, f, b, O, C, E) ==
    b * SumOver(w, Part(C, E)) + f * Cardinality(Part(O, E))
        <= b * SumOver(w, Part(O, E)) + f * Cardinality(Part(C, E))

NatOn(w, E) == \A y \in E : w[y] \in Nat

\* The share of a set in E, without x and with it.
LEMMA OneMore ==
    ASSUME NEW E, IsFiniteSet(E), NEW w, NatOn(w, E), NEW x, x \in E, NEW S
    PROVE  /\ SumOver(w, Part(S, Without(x, E))) \in Nat /\ Cardinality(Part(S, Without(x, E))) \in Nat
           /\ x \in S => /\ SumOver(w, Part(S, E)) = SumOver(w, Part(S, Without(x, E))) + w[x]
                         /\ Cardinality(Part(S, E)) = Cardinality(Part(S, Without(x, E))) + 1
           /\ x \notin S => Part(S, E) = Part(S, Without(x, E))
  <1>1. PICK T : T = Part(S, Without(x, E))
    OBVIOUS
  <1>2. IsFiniteSet(T) /\ (\A y \in T : w[y] \in Nat) /\ x \notin T /\ w[x] \in Nat
    BY <1>1, FS_Subset DEF NatOn, Part, Without
  <1>3. SumOver(w, T) \in Nat /\ Cardinality(T) \in Nat
    BY ONLY <1>2, SumNat, FS_CardinalityType
  <1>4. SumOver(w, T \cup {x}) = SumOver(w, T) + w[x]
    BY ONLY <1>2, SumAdd
  <1>5. Cardinality(T \cup {x}) = Cardinality(T) + 1
    BY <1>2, FS_AddElement
  <1>6. (x \in S => Part(S, E) = T \cup {x}) /\ (x \notin S => Part(S, E) = T)
    BY <1>1 DEF Part, Without
  <1> QED BY <1>1, <1>3, <1>4, <1>5, <1>6

\* One position more, cut or not, keeps it so.
LEMMA NoWorseStep ==
    ASSUME NEW E, IsFiniteSet(E), NEW w, NatOn(w, E), NEW x, x \in E,
           NEW f \in Nat, NEW b \in Nat, NEW O, NEW C, (x \in O) <=> b * w[x] > f,
           NoWorse(w, f, b, O, C, Without(x, E))
    PROVE  NoWorse(w, f, b, O, C, E)
  <1>1. /\ SumOver(w, Part(C, Without(x, E))) \in Nat /\ Cardinality(Part(C, Without(x, E))) \in Nat
        /\ x \in C => /\ SumOver(w, Part(C, E)) = SumOver(w, Part(C, Without(x, E))) + w[x]
                      /\ Cardinality(Part(C, E)) = Cardinality(Part(C, Without(x, E))) + 1
        /\ x \notin C => Part(C, E) = Part(C, Without(x, E))
    BY OneMore
  <1>2. /\ SumOver(w, Part(O, Without(x, E))) \in Nat /\ Cardinality(Part(O, Without(x, E))) \in Nat
        /\ x \in O => /\ SumOver(w, Part(O, E)) = SumOver(w, Part(O, Without(x, E))) + w[x]
                      /\ Cardinality(Part(O, E)) = Cardinality(Part(O, Without(x, E))) + 1
        /\ x \notin O => Part(O, E) = Part(O, Without(x, E))
    BY OneMore
  <1>3. PICK p \in Nat, k \in Nat, q \in Nat, l \in Nat, g \in Nat :
            /\ p = SumOver(w, Part(C, Without(x, E))) /\ k = Cardinality(Part(C, Without(x, E)))
            /\ q = SumOver(w, Part(O, Without(x, E))) /\ l = Cardinality(Part(O, Without(x, E))) /\ g = w[x]
    BY <1>1, <1>2 DEF NatOn
  <1>4. b * p + f * l <= b * q + f * k
    BY <1>3 DEF NoWorse
  <1>5. /\ b * (p + g) = b * p + b * g /\ b * (q + g) = b * q + b * g
        /\ f * (k + 1) = f * k + f /\ f * (l + 1) = f * l + f
        /\ b * p \in Nat /\ b * q \in Nat /\ b * g \in Nat /\ f * k \in Nat /\ f * l \in Nat
    BY <1>3
  <1>6. x \in O <=> b * g > f
    BY <1>3
  <1>7. CASE x \in C /\ x \in O
    <2>1. b * (p + g) + f * (l + 1) <= b * (q + g) + f * (k + 1)
      BY <1>4, <1>5
    <2> QED BY <1>1, <1>2, <1>3, <1>7, <2>1 DEF NoWorse
  <1>8. CASE x \in C /\ x \notin O
    <2>1. b * (p + g) + f * l <= b * q + f * (k + 1)
      BY <1>4, <1>5, <1>6, <1>8
    <2> QED BY <1>1, <1>2, <1>3, <1>8, <2>1 DEF NoWorse
  <1>9. CASE x \notin C /\ x \in O
    <2>1. b * p + f * (l + 1) <= b * (q + g) + f * k
      BY <1>4, <1>5, <1>6, <1>9
    <2> QED BY <1>1, <1>2, <1>3, <1>9, <2>1 DEF NoWorse
  <1>10. CASE x \notin C /\ x \notin O
    BY <1>1, <1>2, <1>10 DEF NoWorse
  <1> QED BY <1>7, <1>8, <1>9, <1>10

\* Of all cuts, those at the gaps that cost more than a fetch cost least.
LEMMA BestCuts ==
    ASSUME NEW F, IsFiniteSet(F), NEW w, \A x \in F : w[x] \in Nat,
           NEW f \in Nat, NEW b \in Nat, NEW O, NEW C, \A x \in F : x \in O <=> b * w[x] > f
    PROVE  NoWorse(w, f, b, O, C, F)
  <1>1. SUFFICES ASSUME ~NoWorse(w, f, b, O, C, F) PROVE FALSE
    OBVIOUS
  <1>2. PICK Bad : Bad = {E \in SUBSET F : ~NoWorse(w, f, b, O, C, E)}
    OBVIOUS
  <1>3. Bad \in SUBSET SUBSET F /\ Bad # {}
    BY <1>1, <1>2
  <1>4. PICK E \in Bad : \A D \in Bad : D \subseteq E => D = E
    BY <1>3, MinimalSubset
  <1>5. E \subseteq F /\ ~NoWorse(w, f, b, O, C, E) /\ IsFiniteSet(E)
    BY <1>2, <1>4, FS_Subset
  <1>6. E # {}
    <2>1. NoWorse(w, f, b, O, C, {})
      <3>1. Part(C, {}) = {} /\ Part(O, {}) = {} /\ SumOver(w, {}) = 0 /\ Cardinality({}) = 0
        BY SumEmpty, FS_EmptySet DEF Part
      <3>2. b * 0 + f * 0 <= b * 0 + f * 0
        OBVIOUS
      <3> QED BY <3>1, <3>2 DEF NoWorse
    <2> QED BY <1>5, <2>1
  <1>7. PICK x : x \in E
    BY <1>6
  <1>8. PICK D : D = Without(x, E)
    OBVIOUS
  <1>9. D \subseteq F /\ D \subseteq E /\ D # E
    BY <1>5, <1>7, <1>8 DEF Without
  <1>10. NoWorse(w, f, b, O, C, D)
    BY <1>2, <1>4, <1>9
  <1>11. NatOn(w, E) /\ (x \in O <=> b * w[x] > f)
    BY <1>5, <1>7 DEF NatOn
  <1> QED BY <1>5, <1>7, <1>8, <1>10, <1>11, NoWorseStep

-----------------------------------------------------------------------------
(* The runs are the cheapest way to group *)

\* The list of slots, its gaps and the cuts of the loop, in the words above.
LEMMA ListIs ==
    ASSUME TypeOK, slots # <<>>, NEW n, n = Len(slots)
    PROVE  /\ n \in Nat \ {0} /\ Ascending(slots, n) /\ GapsOf(slots, n) = Gaps
           /\ CutsIn(n) \subseteq 1 .. n - 1 /\ CutList(CutsIn(n), n)
           /\ IsFiniteSet(1 .. n - 1) /\ IsFiniteSet(CutsIn(n))
           /\ \A j \in 1 .. n - 1 : Gaps[j] \in Nat
           /\ slots[n] \in Nat /\ slots[1] \in Nat
  <1>1. n \in Nat \ {0} /\ \A j \in 1 .. n : slots[j] \in Nat
    <2>1. slots \in Seq(Nat)
      BY DEF TypeOK
    <2>2. Len(slots) \in Nat /\ Len(slots) # 0
      BY <2>1
    <2> QED BY <2>1, <2>2
  <1>2. Ascending(slots, n)
    BY <1>1 DEF Ascending, TypeOK, IsIncreasing
  <1>3. GapsOf(slots, n) = Gaps
    BY DEF GapsOf, Gaps
  <1>4. CutsIn(n) \subseteq 1 .. n - 1 /\ IsFiniteSet(CutsIn(n)) /\ \A j \in 1 .. n - 1 : Gaps[j] \in Nat
    <2>1. n \in 1 .. Len(slots)
      BY <1>1
    <2> QED BY <2>1, GapsNat
  <1>5. IsFiniteSet(1 .. n - 1)
    BY <1>1, FS_Interval
  <1>6. slots[n] \in Nat /\ slots[1] \in Nat
    BY <1>1
  <1> QED BY <1>1, <1>2, <1>3, <1>4, <1>5, <1>6 DEF CutList

\* What another way to group costs: its fetches, and the stretch without the gaps it leaves out.
LEMMA GroupsCostIs ==
    ASSUME TypeOK, slots # <<>>, NEW n, n = Len(slots), NEW C, CutList(C, n)
    PROVE  \E u \in Nat :
               /\ u + SumOver(Gaps, C) = slots[n] - slots[1] + 1
               /\ GroupsCost(C) = cost.fetch * (Cardinality(C) + 1) + cost.byte * u
  <1>1. Ascending(slots, n) /\ GapsOf(slots, n) = Gaps
    BY ListIs
  <1>2. GroupsAddUp(slots, C, n)
    BY <1>1, GroupsSize
  <1>3. PICK w : w = Spans(slots, C, n)
    OBVIOUS
  <1>4. DOMAIN w = Begins(C) /\ IsFiniteSet(Begins(C)) /\ \A b \in Begins(C) : w[b] \in Nat
    <2>1. DOMAIN w = Begins(C)
      BY <1>3 DEF Spans
    <2> QED BY <1>1, <1>3, <2>1, SpansNat
  <1>5. SumFunction(w) = SumOver(w, Begins(C)) /\ SumOver(w, Begins(C)) \in Nat
    BY <1>4, SumFunctionIs, SumNat
  <1>6. GroupsCost(C) = cost.fetch * Cardinality(Begins(C)) + cost.byte * SumFunction(w)
    BY <1>3 DEF GroupsCost, Spans, Begins, GroupEnd
  <1> QED BY <1>1, <1>2, <1>3, <1>5, <1>6 DEF GroupsAddUp

\* What the runs of the loop cost.
LEMMA RunsCostIs ==
    ASSUME IInv, Measured, pc = "split", NEW n, n = Len(slots)
    PROVE  \E t \in Nat :
               /\ t + SumOver(Gaps, CutsIn(n)) = slots[n] - slots[1] + 1
               /\ RunsCost = cost.fetch * (Cardinality(CutsIn(n)) + 1) + cost.byte * t
  <1>1. PICK w : w = Sizes
    OBVIOUS
  <1>2. SumOver(w, DOMAIN runs) \in Nat
    BY <1>1, SizesNat DEF IInv
  <1>3. SumFunction(w) = SumOver(w, DOMAIN runs)
    <2>1. DOMAIN w = DOMAIN runs
      BY <1>1 DEF Sizes
    <2> QED BY <2>1, SumFunctionIs
  <1>4. RunsCost = cost.fetch * Len(runs) + cost.byte * SumFunction(w)
    BY <1>1 DEF RunsCost, Sizes
  <1> QED BY <1>1, <1>2, <1>3, <1>4 DEF Measured

\* The loop cuts where a gap costs more than a fetch.
LEMMA CutsWorth ==
    ASSUME TypeOK, slots # <<>>, cost.byte > 0, NEW n, n = Len(slots)
    PROVE  \A j \in 1 .. n - 1 : j \in CutsIn(n) <=> cost.byte * Gaps[j] > cost.fetch
  <1>1. cost.fetch \in Nat /\ cost.byte \in Nat \ {0} /\ Gap = cost.fetch \div cost.byte
    BY DEF TypeOK, Gap, MaxGap
  <1>2. ASSUME NEW j \in 1 .. n - 1
        PROVE  j \in CutsIn(n) <=> cost.byte * Gaps[j] > cost.fetch
    <2>1. PICK f \in Nat, b \in Nat \ {0}, g \in Nat : f = cost.fetch /\ b = cost.byte /\ g = Gaps[j]
      BY <1>1, ListIs
    <2>2. g > f \div b <=> b * g > f
      BY GapWorth
    <2>3. j \in CutsIn(n) <=> g > f \div b
      BY <1>1, <2>1 DEF CutsIn
    <2> QED BY <2>1, <2>2, <2>3
  <1> QED BY <1>2

\* Costs compare as the fetches and the gaps left out do, since the stretch is the same.
LEMMA TotalsCompare ==
    ASSUME NEW f \in Nat, NEW b \in Nat, NEW k \in Nat, NEW l \in Nat,
           NEW p \in Nat, NEW q \in Nat, NEW t \in Nat, NEW u \in Nat,
           u + p = t + q, b * p + f * l <= b * q + f * k
    PROVE  f * (l + 1) + b * t <= f * (k + 1) + b * u
  <1>1. b * (u + p) = b * (t + q)
    OBVIOUS
  <1>2. /\ b * (u + p) = b * u + b * p /\ b * (t + q) = b * t + b * q
        /\ f * (l + 1) = f * l + f /\ f * (k + 1) = f * k + f
        /\ b * u \in Nat /\ b * p \in Nat /\ b * t \in Nat /\ b * q \in Nat /\ f * l \in Nat /\ f * k \in Nat
    OBVIOUS
  <1> QED BY <1>1, <1>2

\* No way to group is cheaper.
LEMMA NoneCheaper ==
    ASSUME IInv, Measured, pc = "split", cost.byte > 0, NEW n, n = Len(slots), NEW C, CutList(C, n)
    PROVE  RunsCost <= GroupsCost(C)
  <1>1. TypeOK /\ slots # <<>>
    BY DEF IInv, Measured
  <1>2. PICK f, b, O, w : f = cost.fetch /\ b = cost.byte /\ f \in Nat /\ b \in Nat /\ O = CutsIn(n) /\ w = Gaps
    BY <1>1 DEF TypeOK
  <1>3. PICK u \in Nat :
            u + SumOver(w, C) = slots[n] - slots[1] + 1 /\ GroupsCost(C) = f * (Cardinality(C) + 1) + b * u
    BY <1>1, <1>2, GroupsCostIs
  <1>4. PICK t \in Nat :
            t + SumOver(w, O) = slots[n] - slots[1] + 1 /\ RunsCost = f * (Cardinality(O) + 1) + b * t
    BY <1>2, RunsCostIs
  <1>5. PICK F : F = 1 .. n - 1
    OBVIOUS
  <1>6. IsFiniteSet(F) /\ (\A x \in F : w[x] \in Nat) /\ \A x \in F : (x \in O <=> b * w[x] > f)
    BY <1>1, <1>2, <1>5, ListIs, CutsWorth
  <1>7. NoWorse(w, f, b, O, C, F)
    BY <1>2, <1>6, BestCuts
  <1>8. Part(C, F) = C /\ Part(O, F) = O
    BY <1>1, <1>2, <1>5, ListIs DEF Part, CutList
  <1>9. b * SumOver(w, C) + f * Cardinality(O) <= b * SumOver(w, O) + f * Cardinality(C)
    BY <1>7, <1>8 DEF NoWorse
  <1>10. /\ SumOver(w, C) \in Nat /\ SumOver(w, O) \in Nat
         /\ Cardinality(C) \in Nat /\ Cardinality(O) \in Nat
         /\ slots[n] \in Nat /\ slots[1] \in Nat
    <2>1. IsFiniteSet(C) /\ IsFiniteSet(O) /\ C \subseteq F /\ O \subseteq F
      BY <1>1, <1>2, <1>5, <1>6, ListIs, FS_Subset DEF CutList
    <2>2. (\A x \in C : w[x] \in Nat) /\ (\A x \in O : w[x] \in Nat)
      BY <1>6, <2>1
    <2>3. slots[n] \in Nat /\ slots[1] \in Nat
      BY <1>1, ListIs
    <2> QED BY <2>1, <2>2, <2>3, SumNat, FS_CardinalityType
  <1>11. PICK p \in Nat, k \in Nat, q \in Nat, l \in Nat, y \in Nat, z \in Nat :
             /\ p = SumOver(w, C) /\ k = Cardinality(C) /\ q = SumOver(w, O) /\ l = Cardinality(O)
             /\ y = slots[n] /\ z = slots[1]
    BY <1>10
  <1>12. u + p = t + q /\ b * p + f * l <= b * q + f * k
    BY <1>3, <1>4, <1>9, <1>11
  <1>13. f * (l + 1) + b * t <= f * (k + 1) + b * u
    <2>1. f \in Nat /\ b \in Nat
      BY <1>2
    <2> QED BY <1>12, <2>1, TotalsCompare
  <1> QED BY <1>3, <1>4, <1>11, <1>13

\* max_gap is the largest gap worth reading through: no other grouping of a token's slots into
\* runs is cheaper under the cost model.
THEOREM CheapestTheorem == Spec => []Cheapest
  <1>1. IInv /\ Measured => Cheapest
    <2> SUFFICES ASSUME IInv, Measured, pc = "split", cost.byte > 0,
                        NEW C \in SUBSET (1 .. Len(slots) - 1)
                 PROVE  RunsCost <= GroupsCost(C)
      BY DEF Cheapest
    <2>1. PICK n : n = Len(slots)
      OBVIOUS
    <2>2. CutList(C, n)
      BY <2>1, ListIs DEF CutList, Measured, IInv
    <2> QED BY <2>1, <2>2, NoneCheaper
  <1> QED BY <1>1, MeasuredAlways, PTL

-----------------------------------------------------------------------------
(* Once the list has been grouped *)

\* Without a limit each run is one read.
WholeReads ==
    limit = 0 =>
        /\ Len(reads) = r - 1
        /\ \A m \in 1 .. Len(reads) : reads[m] = runs[m]
        /\ pc = "split" /\ r <= Len(runs) => a = runs[r][1]

\* The runs are those of the whole list, and stay so.
Complete ==
    pc = "done" /\ slots # <<>> =>
        /\ i = Len(slots) + 1
        /\ SumOver(Sizes, DOMAIN runs) + SumOver(Gaps, CutsIn(Len(slots))) = slots[Len(slots)] - slots[1] + 1
        /\ Len(runs) = Cardinality(CutsIn(Len(slots))) + 1
        /\ runs # <<>>

\* The invariant with all of it.
Sure == IInv /\ Measured /\ WholeReads /\ Complete

\* Splitting takes the runs one by one.
LEMMA SplitWhole == ASSUME IInv, WholeReads, SplitRead PROVE WholeReads'
  <1> SUFFICES ASSUME limit = 0
               PROVE  /\ Len(reads') = r' - 1
                      /\ \A m \in 1 .. Len(reads') : reads'[m] = runs'[m]
                      /\ pc' = "split" /\ r' <= Len(runs') => a' = runs'[r'][1]
    BY DEF WholeReads, SplitRead, input
  <1>1. /\ pc = "split" /\ r <= Len(runs) /\ reads' = Append(reads, <<a, ReadEnd>>) /\ runs' = runs
    BY DEF SplitRead
  <1>2. /\ r \in 1 .. Len(runs) /\ Len(runs) \in Nat /\ runs[r][1] \in Nat /\ runs[r][2] \in Nat
    BY <1>1, ReadEndBounds
  <1>3. ReadEnd = runs[r][2] /\ a = runs[r][1] /\ Len(reads) = r - 1
    BY <1>1 DEF ReadEnd, WholeReads
  <1>4. runs \in Seq(Nat \X Nat) /\ reads \in Seq(Nat \X Nat) /\ a \in Nat
    BY DEF IInv, TypeOK
  <1>5. <<a, ReadEnd>> = runs[r]
    <2>1. runs[r] \in Nat \X Nat
      BY <1>2, <1>4
    <2> QED BY <1>3, <2>1
  <1>6. r' = r + 1 /\ a' = IF r < Len(runs) THEN runs[r + 1][1] ELSE a
    <2>1. ~(ReadEnd < runs[r][2])
      BY <1>2, <1>3
    <2> QED BY <2>1 DEF SplitRead
  <1>7. Len(reads') = r
    BY <1>1, <1>2, <1>3, <1>4
  <1>8. ASSUME NEW m \in 1 .. r PROVE reads'[m] = runs[m]
    <2>1. CASE m = r
      <3>1. reads'[m] = <<a, ReadEnd>>
        BY <1>1, <1>2, <1>3, <1>4, <2>1
      <3> QED BY <1>5, <2>1, <3>1
    <2>2. CASE m # r
      <3>1. m \in 1 .. Len(reads)
        BY <1>2, <1>3, <2>2
      <3>2. reads'[m] = reads[m]
        BY <1>1, <1>4, <3>1
      <3> QED BY <3>1, <3>2 DEF WholeReads
    <2> QED BY <2>1, <2>2
  <1> QED BY <1>1, <1>2, <1>6, <1>7, <1>8

\* All of it is kept by every step.
LEMMA StaysSure == ASSUME Sure, Next PROVE Sure'
  <1>1. IInv /\ Measured /\ WholeReads /\ Complete
    BY DEF Sure
  <1>2. IInv'
    BY <1>1, BeginStep, BridgeStep, CutStep, LastRunStep, EmptyStep, FinishStep, SplitReadStep DEF Next
  <1>3. Measured'
    <2>1. CASE Empty \/ SplitRead \/ Finish
      <3>1. pc' # "group" /\ (pc' = "split" => pc = "split") /\ UNCHANGED <<runs, input>>
        BY <2>1 DEF Empty, SplitRead, Finish
      <3> QED BY <1>1, <3>1, SplitMeasured
    <2> QED BY <1>1, <2>1, BeginMeasured, BridgeMeasured, CutMeasured, LastRunMeasured DEF Next
  <1>4. WholeReads'
    <2>1. CASE SplitRead
      BY <1>1, <2>1, SplitWhole
    <2>2. CASE LastRun
      <3>1. r = 1 /\ reads = <<>> /\ r' = 1 /\ reads' = <<>> /\ a' = runs'[1][1]
        BY <1>1, <2>2 DEF LastRun, IInv, Building
      <3> QED BY <3>1 DEF WholeReads
    <2>3. CASE Begin \/ Bridge \/ Cut
      <3>1. r = 1 /\ reads = <<>> /\ r' = 1 /\ reads' = <<>> /\ pc' # "split"
        BY <1>1, <2>3 DEF Begin, Bridge, Cut, IInv, Building
      <3> QED BY <3>1 DEF WholeReads
    <2>4. CASE Empty \/ Finish
      <3>1. UNCHANGED <<limit, r, a, reads, runs>> /\ pc' = "done"
        BY <2>4 DEF Empty, Finish, input
      <3> QED BY <1>1, <3>1 DEF WholeReads
    <2> QED BY <2>1, <2>2, <2>3, <2>4 DEF Next
  <1>5. Complete'
    <2>1. SUFFICES ASSUME pc' = "done", slots' # <<>> PROVE Complete'
      BY DEF Complete
    <2>2. Finish
      BY <2>1 DEF Next, Empty, Begin, Bridge, Cut, LastRun, SplitRead, Finish, input
    <2>3. UNCHANGED <<runs, input, i>> /\ pc = "split"
      BY <2>2 DEF Finish
    <2>4. Gaps' = Gaps /\ Sizes' = Sizes /\ DOMAIN runs' = DOMAIN runs /\ slots' = slots /\ Gap' = Gap
      BY <2>3, InputStays, SizesStay DEF input
    <2>5. i = Len(slots) + 1
      BY <1>1, <2>3 DEF IInv, Splitting
    <2>6. CutsIn(Len(slots))' = CutsIn(Len(slots))
      BY <2>4 DEF CutsIn
    <2>7. Len(slots) \in 1 .. Len(slots) /\ Cardinality(CutsIn(Len(slots))) \in Nat
      <3>1. slots # <<>> /\ TypeOK
        BY <1>1, <2>1, <2>4 DEF IInv
      <3>2. IsFiniteSet(CutsIn(Len(slots))) /\ Len(slots) \in Nat \ {0}
        BY <3>1, ListIs
      <3> QED BY <3>2, FS_CardinalityType
    <2>8. runs # <<>>
      <3>1. Len(runs) = Cardinality(CutsIn(Len(slots))) + 1
        BY <1>1, <2>3 DEF Measured
      <3> QED BY <2>7, <3>1
    <2> QED BY <1>1, <2>3, <2>4, <2>5, <2>6, <2>8 DEF Complete, Measured
  <1> QED BY <1>2, <1>3, <1>4, <1>5 DEF Sure

\* What a slot adds to a plan: itself, and the gap before it unless the list is cut there.
Starts(j) == j = 1 \/ Gaps[j - 1] > Gap
Widths == [j \in 1 .. Len(slots) |-> IF Starts(j) THEN 1 ELSE Gaps[j - 1] + 1]

\* One slot after another, they add up to the stretch without the gaps cut out.
LEMMA WidthsAddUp ==
    ASSUME TypeOK, NEW n, n = Len(slots), n # 0
    PROVE  /\ \A j \in 1 .. n : Widths[j] \in Nat
           /\ SumOver(Widths, 1 .. n) + SumOver(Gaps, CutsIn(n)) = slots[n] - slots[1] + 1
  <1>1. n \in Nat \ {0} /\ \A j \in 1 .. n : slots[j] \in Nat
    <2>1. slots \in Seq(Nat)
      BY DEF TypeOK
    <2> QED BY <2>1
  <1>2. \A j \in 1 .. n - 1 : Gaps[j] = slots[j + 1] - slots[j] - 1 /\ Gaps[j] \in Nat
    BY GapsNat
  <1>3. PICK w : w = Widths
    OBVIOUS
  <1>4. ASSUME NEW j \in 1 .. n PROVE w[j] = (IF Starts(j) THEN 1 ELSE Gaps[j - 1] + 1) /\ w[j] \in Nat
    <2>1. w[j] = IF Starts(j) THEN 1 ELSE Gaps[j - 1] + 1
      BY <1>3 DEF Widths
    <2>2. j # 1 => j - 1 \in 1 .. n - 1
      BY <1>1
    <2>3. ~Starts(j) => Gaps[j - 1] \in Nat
      BY <1>2, <2>2 DEF Starts
    <2> QED BY <2>1, <2>3
  <1>5. PICK Bad : Bad = {k \in 1 .. n : SumOver(w, 1 .. k) + SumOver(Gaps, CutsIn(k)) # slots[k] - slots[1] + 1}
    OBVIOUS
  <1>6. Bad = {}
    <2>1. SUFFICES ASSUME Bad # {} PROVE FALSE
      OBVIOUS
    <2>2. PICK k \in Bad : \A l \in Bad : k <= l
      <3>1. Bad \in SUBSET Nat
        BY <1>5
      <3> QED BY ONLY <2>1, <3>1, SmallestNat
    <2>3. k \in 1 .. n /\ SumOver(w, 1 .. k) + SumOver(Gaps, CutsIn(k)) # slots[k] - slots[1] + 1
      BY <1>5, <2>2
    <2>4. CASE k = 1
      <3>1. 1 .. k = {1} /\ CutsIn(k) = {}
        BY <2>4 DEF CutsIn
      <3>2. w[1] = 1
        BY <1>4, <2>3, <2>4 DEF Starts
      <3>3. SumOver(w, {1}) = 1 /\ SumOver(Gaps, {}) = 0
        BY <3>2, SumSingle, SumEmpty
      <3>4. PICK x \in Nat : x = slots[1]
        BY <1>1
      <3>5. x - x + 1 = 1 /\ 1 + 0 = 1
        OBVIOUS
      <3>6. SumOver(w, 1 .. k) + SumOver(Gaps, CutsIn(k)) = 1
        BY <3>1, <3>3, <3>5
      <3>7. slots[k] - slots[1] + 1 = 1
        BY <2>4, <3>4, <3>5
      <3> QED BY <2>3, <3>6, <3>7
    <2>5. CASE k # 1
      <3>1. PICK l \in 1 .. n - 1 : k = l + 1 /\ l \in 1 .. n
        <4>1. k - 1 \in 1 .. n - 1 /\ k = (k - 1) + 1 /\ k - 1 \in 1 .. n
          BY <1>1, <2>3, <2>5
        <4> QED BY <4>1
      <3>2. SumOver(w, 1 .. l) + SumOver(Gaps, CutsIn(l)) = slots[l] - slots[1] + 1
        <4>1. l \notin Bad
          BY <2>2, <3>1
        <4> QED BY <1>5, <3>1, <4>1
      <3>3. SumOver(w, 1 .. k) = SumOver(w, 1 .. l) + w[k] /\ SumOver(w, 1 .. l) \in Nat
        <4>1. PICK D : D = 1 .. l
          OBVIOUS
        <4>2. IsFiniteSet(D) /\ k \notin D /\ 1 .. k = D \cup {k}
          <5>1. l \in Int /\ 1 \in Int /\ k = l + 1
            BY <1>1, <3>1
          <5>2. IsFiniteSet(D)
            BY ONLY <4>1, <5>1, FS_Interval
          <5>3. l \in 1 .. n
            BY <3>1
          <5> QED BY <4>1, <5>1, <5>2, <5>3
        <4>3. D \subseteq 1 .. n
          BY <3>1, <4>1
        <4>4. w[k] \in Nat /\ \A x \in D : w[x] \in Nat
          BY <1>4, <2>3, <4>3
        <4>5. SumOver(w, D \cup {k}) = SumOver(w, D) + w[k] /\ SumOver(w, D) \in Nat
          BY ONLY <4>2, <4>4, SumAdd, SumNat
        <4> QED BY <4>1, <4>2, <4>5
      <3>4. PICK g \in Nat : g = Gaps[l] /\ slots[k] = slots[l] + g + 1
        BY <1>1, <1>2, <3>1
      <3>5. /\ g <= Gap => SumOver(Gaps, CutsIn(k)) = SumOver(Gaps, CutsIn(l))
            /\ g > Gap => SumOver(Gaps, CutsIn(k)) = SumOver(Gaps, CutsIn(l)) + g
            /\ SumOver(Gaps, CutsIn(l)) \in Nat
        BY <3>1, <3>4, OneMoreSlot
      <3>6. w[k] = IF g > Gap THEN 1 ELSE g + 1
        <4>1. k - 1 = l
          BY <3>1
        <4> QED BY <1>4, <2>3, <2>5, <3>4, <4>1 DEF Starts
      <3>7. Gap \in Nat /\ slots[1] \in Nat /\ slots[l] \in Nat
        BY <1>1, <3>1, GapIsNat
      <3>8. PICK x \in Nat, y \in Nat, z \in Nat, f \in Nat :
                /\ x = SumOver(w, 1 .. l) /\ y = SumOver(Gaps, CutsIn(l)) /\ z = slots[1] /\ f = slots[l]
        BY <3>3, <3>5, <3>7
      <3>9. x + y = f - z + 1
        BY <3>2, <3>8
      <3>10. SumOver(w, 1 .. k) + SumOver(Gaps, CutsIn(k)) = (x + y) + (g + 1)
        <4>1. CASE g > Gap
          <5>1. SumOver(w, 1 .. k) = x + 1 /\ SumOver(Gaps, CutsIn(k)) = y + g
            BY <3>3, <3>5, <3>6, <3>8, <4>1
          <5> QED BY ONLY <5>1, x \in Nat, y \in Nat, g \in Nat
        <4>2. CASE ~(g > Gap)
          <5>1. SumOver(w, 1 .. k) = x + (g + 1) /\ SumOver(Gaps, CutsIn(k)) = y
            BY <3>3, <3>4, <3>5, <3>6, <3>7, <3>8, <4>2
          <5> QED BY ONLY <5>1, x \in Nat, y \in Nat, g \in Nat
        <4> QED BY <4>1, <4>2
      <3>11. slots[k] - slots[1] + 1 = (f - z + 1) + (g + 1)
        <4>1. slots[k] = f + g + 1 /\ slots[1] = z
          BY <3>4, <3>8
        <4>2. (f + g + 1) - z + 1 = (f - z + 1) + (g + 1)
          BY ONLY f \in Nat, g \in Nat, z \in Nat
        <4> QED BY <4>1, <4>2
      <3> QED BY <2>3, <3>9, <3>10, <3>11
    <2> QED BY <2>4, <2>5
  <1>7. n \in 1 .. n
    BY <1>1
  <1>8. SumOver(w, 1 .. n) + SumOver(Gaps, CutsIn(n)) = slots[n] - slots[1] + 1
    BY <1>5, <1>6, <1>7
  <1> QED BY <1>3, <1>4, <1>8

\* The list grouped, without a limit: reads that are runs, as many and as long as the slots say.
LEMMA Settled ==
    ASSUME Sure, pc = "done", limit = 0, NEW n, n = Len(slots), n # 0
    PROVE  /\ reads \in Seq(Nat \X Nat) /\ Len(reads) \in Nat /\ Len(reads) # 0
           /\ \A m \in 1 .. Len(reads) :
                  reads[m][1] \in Wanted /\ reads[m][2] \in Wanted /\ reads[m][1] <= reads[m][2]
           /\ \A m, l \in 1 .. Len(reads) : m < l => reads[m][2] < reads[l][1]
           /\ \A j \in 1 .. n : \E m \in 1 .. Len(reads) : reads[m][1] <= slots[j] /\ slots[j] <= reads[m][2]
           /\ Len(reads) = Cardinality({j \in 1 .. n : Starts(j)})
           /\ SumOver([m \in DOMAIN reads |-> reads[m][2] - reads[m][1] + 1], DOMAIN reads) = SumOver(Widths, 1 .. n)
           /\ runs # << >>
  <1>1. /\ IInv /\ Measured /\ WholeReads /\ Complete /\ TypeOK /\ RunsMeasured /\ RunsApart
        /\ slots # <<>> /\ n \in Nat \ {0}
    BY DEF Sure, IInv, TypeOK
  <1>2. PICK k \in Nat : k = Len(runs) /\ r = k + 1
    BY <1>1 DEF TypeOK, IInv
  <1>3. runs \in Seq(Nat \X Nat) /\ reads \in Seq(Nat \X Nat)
    BY <1>1 DEF TypeOK
  <1>4. Len(reads) = k /\ \A m \in 1 .. k : reads[m] = runs[m]
    BY <1>1, <1>2 DEF WholeReads
  <1>5. reads = runs
    <2>1. DOMAIN reads = 1 .. k /\ DOMAIN runs = 1 .. k
      BY <1>2, <1>3, <1>4
    <2>2. reads = [m \in 1 .. k |-> reads[m]] /\ runs = [m \in 1 .. k |-> runs[m]]
      BY <1>3, <2>1
    <2> QED BY <1>4, <2>2
  <1>6. k = Cardinality(CutsIn(n)) + 1 /\ IsFiniteSet(CutsIn(n)) /\ CutsIn(n) \subseteq 1 .. n - 1
    BY <1>1, <1>2, ListIs DEF Complete
  <1>7. Cardinality({j \in 1 .. n : Starts(j)}) = k
    <2>1. PICK f, C : C = CutsIn(n) /\ f = [j \in C |-> j + 1]
      OBVIOUS
    <2>2. PICK T : T = {j + 1 : j \in C}
      OBVIOUS
    <2>3. f \in Injection(C, T) /\ f \in Surjection(C, T)
      <3>1. \A x, y \in C : f[x] = f[y] => x = y
        BY <1>6, <2>1
      <3>2. f \in [C -> T] /\ \A y \in T : \E x \in C : f[x] = y
        BY <2>1, <2>2
      <3>3. f \in Injection(C, T)
        <4>1. DOMAIN f = C
          BY <2>1
        <4> QED BY <3>1, <3>2, <4>1 DEF Injection, IsInjective
      <3>4. f \in Surjection(C, T)
        BY <3>2 DEF Surjection
      <3> QED BY <3>3, <3>4
    <2>4. IsFiniteSet(T) /\ Cardinality(T) = Cardinality(C)
      BY <1>6, <2>1, <2>3, FS_Surjection
    <2>5. {j \in 1 .. n : Starts(j)} = T \cup {1} /\ 1 \notin T
      <3>1. \A j \in 1 .. n : j # 1 => (Starts(j) <=> j - 1 \in C)
        BY <1>1, <2>1 DEF Starts, CutsIn
      <3>2. \A j \in 1 .. n : j \in T <=> j # 1 /\ j - 1 \in C
        BY <1>6, <2>1, <2>2
      <3>3. Starts(1) /\ 1 \in 1 .. n
        BY <1>1 DEF Starts
      <3>4. T \subseteq 1 .. n /\ 1 \notin T
        BY <1>1, <1>6, <2>1, <2>2
      <3> QED BY <3>1, <3>2, <3>3, <3>4
    <2>6. Cardinality(T \cup {1}) = Cardinality(T) + 1
      BY <2>4, <2>5, FS_AddElement
    <2> QED BY <1>6, <2>1, <2>4, <2>5, <2>6
  <1>8. SumOver(Sizes, DOMAIN runs) = SumOver(Widths, 1 .. n)
    <2>1. PICK x \in Nat, y \in Nat, z \in Nat :
              x = SumOver(Sizes, DOMAIN runs) /\ y = SumOver(Gaps, CutsIn(n)) /\ z = SumOver(Widths, 1 .. n)
      <3>1. SumOver(Sizes, DOMAIN runs) \in Nat
        BY <1>1, SizesNat
      <3>2. SumOver(Gaps, CutsIn(n)) \in Nat
        <4>1. \A j \in CutsIn(n) : Gaps[j] \in Nat
          BY <1>1, <1>6, ListIs
        <4> QED BY <1>6, <4>1, SumNat
      <3>3. SumOver(Widths, 1 .. n) \in Nat
        <4>1. IsFiniteSet(1 .. n)
          BY <1>1, FS_Interval
        <4> QED BY <1>1, <4>1, WidthsAddUp, SumNat
      <3> QED BY <3>1, <3>2, <3>3
    <2>2. x + y = slots[n] - slots[1] + 1
      BY <1>1, <2>1 DEF Complete
    <2>3. z + y = slots[n] - slots[1] + 1
      BY <1>1, <2>1, WidthsAddUp
    <2>4. x + y = z + y
      BY <2>2, <2>3
    <2> QED BY <2>1, <2>4
  <1>9. ASSUME NEW j \in 1 .. n PROVE \E m \in 1 .. k : runs[m][1] <= slots[j] /\ slots[j] <= runs[m][2]
    <2>1. j \in 1 .. i - 1
      BY <1>1 DEF Complete
    <2>2. \E m \in 1 .. Len(runs) : Within(slots[j], runs[m])
      BY <1>1, <2>1 DEF IInv, AllIn
    <2> QED BY <1>2, <2>2 DEF Within
  <1>10. \A m, l \in 1 .. k : m < l => runs[m][2] < runs[l][1]
    BY <1>1, <1>2, RunsAscend
  <1>11. \A m \in 1 .. k : runs[m][1] \in Wanted /\ runs[m][2] \in Wanted /\ runs[m][1] <= runs[m][2]
    BY <1>1, <1>2 DEF RunsMeasured
  <1>12. k # 0
    <2>1. Cardinality(CutsIn(n)) \in Nat
      BY <1>6, FS_CardinalityType
    <2> QED BY <1>6, <2>1
  <1> QED BY <1>2, <1>3, <1>5, <1>7, <1>8, <1>9, <1>10, <1>11, <1>12 DEF Sizes

\* What the loop comes to: ascending reads that begin and end at wanted slots and cover them, as
\* many as there are slots behind a gap too wide, and as wide as the slots and the gaps read over.
Outcome ==
    /\ reads \in Seq(Nat \X Nat) /\ Len(reads) \in Nat /\ Len(reads) # 0
    /\ \A m \in 1 .. Len(reads) :
           reads[m][1] \in Wanted /\ reads[m][2] \in Wanted /\ reads[m][1] <= reads[m][2]
    /\ \A m, l \in 1 .. Len(reads) : m < l => reads[m][2] < reads[l][1]
    /\ \A j \in 1 .. Len(slots) : \E m \in 1 .. Len(reads) : reads[m][1] <= slots[j] /\ slots[j] <= reads[m][2]
    /\ Len(reads) = Cardinality({j \in 1 .. Len(slots) : Starts(j)})
    /\ SumOver([m \in DOMAIN reads |-> reads[m][2] - reads[m][1] + 1], DOMAIN reads) = SumOver(Widths, 1 .. Len(slots))
    /\ runs # << >>

LEMMA Result == ASSUME Sure, pc = "done", limit = 0, Len(slots) # 0 PROVE Outcome
  BY Settled DEF Outcome

LEMMA SureStill == ASSUME Sure, UNCHANGED vars PROVE Sure'
  <1>1. /\ slots' = slots /\ cost' = cost /\ limit' = limit /\ i' = i /\ start' = start /\ prev' = prev
        /\ runs' = runs /\ r' = r /\ a' = a /\ reads' = reads /\ pc' = pc
    BY DEF vars
  <1>2. Sizes' = Sizes /\ Gaps' = Gaps
    BY <1>1 DEF Sizes, Gaps
  <1>3. CutsIn(i - 1)' = CutsIn(i - 1) /\ CutsIn(Len(slots))' = CutsIn(Len(slots))
    BY <1>1, <1>2 DEF CutsIn, Gap, MaxGap
  <1>4. Measured => Measured'
    BY <1>1, <1>2, <1>3 DEF Measured
  <1>5. (WholeReads => WholeReads') /\ (Complete => Complete')
    BY <1>1, <1>2, <1>3 DEF WholeReads, Complete
  <1>6. IInv'
    <2>1. IInv
      BY DEF Sure
    <2> QED
      BY <2>1 DEF vars, IInv, TypeOK, AllIn, RunsMeasured, RunsApart, ReadsOrdered,
                  ReadsCover, Building, Splitting, Covered, Within, Gap, Wanted
  <1> QED
    BY <1>4, <1>5, <1>6 DEF Sure

\* A list about to be grouped.
LEMMA StartsSure ==
    ASSUME slots' \in Seq(Nat), IsIncreasing(slots'), cost'.fetch \in Nat, cost'.byte \in Nat, limit' \in Nat,
           i' = 1, start' \in Nat, prev' \in Nat, a' \in Nat, runs' = <<>>, reads' = <<>>, r' = 1, pc' = "begin"
    PROVE  Sure'
  <1>1. TypeOK'
    BY DEF TypeOK
  <1>2. RunsMeasured' /\ RunsApart' /\ AllIn' /\ ReadsOrdered' /\ ReadsCover'
    BY DEF RunsMeasured, RunsApart, AllIn, ReadsOrdered, ReadsCover, Covered
  <1>3. IInv'
    BY <1>1, <1>2 DEF IInv
  <1>4. Measured' /\ WholeReads' /\ Complete'
    BY DEF Measured, WholeReads, Complete
  <1> QED BY <1>3, <1>4 DEF Sure

=============================================================================
