----------------------------- MODULE GroupRuns -----------------------------
(***************************************************************************)
(* How the slots a token needs become reads of the file.  The loop that    *)
(* groups sorted slots into runs, bridging gaps of up to max_gap unwanted  *)
(* slots, stands three times in the code: plan (crates/coact/src/cost.rs), *)
(* runs (crates/fetchbench/src/cache.rs) and build_ranges                  *)
(* (crates/fetchbench/src/main.rs).  split_at_limit (cache.rs) then cuts a *)
(* run into reads of a bounded size.  max_gap comes from the cost model.   *)
(*                                                                         *)
(* Costs are integers here: `fetch` stands for n_tensors * c_fetch_ns,     *)
(* `byte` for bytes_per_expert * c_byte_ns, so floor(fetch / byte) is the  *)
(* code's max_gap.  A limit of 0 slots stands for limit_bytes = 0, which   *)
(* means no limit.                                                         *)
(***************************************************************************)
EXTENDS Integers, Sequences, FiniteSets, FiniteSetsExt

CONSTANTS
    Inputs,     \* slot lists after sort_unstable and dedup
    Costs,      \* cost models: records of fetch and byte
    Limits      \* largest reads, in slots: limit_bytes / stride

IsIncreasing(q) == \A j, k \in 1 .. Len(q) : j < k => q[j] < q[k]

ASSUME InputsAssumption == \A q \in Inputs : q \in Seq(Nat) /\ IsIncreasing(q)
ASSUME CostsAssumption == \A c \in Costs : c.fetch \in Nat /\ c.byte \in Nat
ASSUME LimitsAssumption == Limits \subseteq Nat

\* Mutant: rounded up.
MaxGapRoundedUp(c) == IF c.byte = 0 THEN 0 ELSE (c.fetch + c.byte - 1) \div c.byte

\* CostModel::max_gap
MaxGap(c) == IF c.byte = 0 THEN 0 ELSE c.fetch \div c.byte

VARIABLES
    slots,      \* the sorted slots
    cost,       \* the cost model
    limit,      \* the limit of a read
    i,          \* next slot to look at
    start, prev,\* the run being built
    runs,       \* runs emitted so far, as pairs of first and last slot
    r,          \* the run being split
    a,          \* first slot of the next read
    reads,      \* reads emitted so far
    pc

vars == <<slots, cost, limit, i, start, prev, runs, r, a, reads, pc>>
input == <<slots, cost, limit>>

Gap == MaxGap(cost)

Init ==
    /\ slots \in Inputs /\ cost \in Costs /\ limit \in Limits
    /\ i = 1 /\ start = 0 /\ prev = 0 /\ runs = <<>>
    /\ r = 1 /\ a = 0 /\ reads = <<>>
    /\ pc = "begin"

\* No slot, no read.
Empty ==
    /\ pc = "begin" /\ slots = <<>>
    /\ pc' = "done"
    /\ UNCHANGED <<i, start, prev, runs, r, a, reads, input>>

Begin ==
    /\ pc = "begin" /\ slots # <<>>
    /\ start' = slots[1] /\ prev' = slots[1]
    /\ i' = 2
    /\ pc' = "group"
    /\ UNCHANGED <<runs, r, a, reads, input>>

\* The gap to the next slot is worth reading through.
Bridge ==
    /\ pc = "group" /\ i <= Len(slots)
    /\ slots[i] - prev - 1 <= Gap
    /\ prev' = slots[i]
    /\ i' = i + 1
    /\ UNCHANGED <<start, runs, r, a, reads, pc, input>>

\* Mutant: a gap just worth bridging is cut.
CutEager ==
    /\ pc = "group" /\ i <= Len(slots)
    /\ slots[i] - prev - 1 >= Gap
    /\ runs' = Append(runs, <<start, prev>>)
    /\ start' = slots[i] /\ prev' = slots[i]
    /\ i' = i + 1
    /\ UNCHANGED <<r, a, reads, pc, input>>

Cut ==
    /\ pc = "group" /\ i <= Len(slots)
    /\ slots[i] - prev - 1 > Gap
    /\ runs' = Append(runs, <<start, prev>>)
    /\ start' = slots[i] /\ prev' = slots[i]
    /\ i' = i + 1
    /\ UNCHANGED <<r, a, reads, pc, input>>

\* The last run; split_at_limit starts at the first one.
LastRun ==
    /\ pc = "group" /\ i > Len(slots)
    /\ runs' = Append(runs, <<start, prev>>)
    /\ a' = runs'[1][1]
    /\ pc' = "split"
    /\ UNCHANGED <<i, start, prev, r, reads, input>>

\* Mutant: one slot over the limit.
ReadEndOver ==
    LET to == runs[r][2]
    IN  IF limit = 0 \/ a + limit > to THEN to ELSE a + limit

\* Last slot of the read that starts at a.
ReadEnd ==
    LET to == runs[r][2]
    IN  IF limit = 0 \/ a + limit - 1 > to THEN to ELSE a + limit - 1

SplitRead ==
    /\ pc = "split" /\ r <= Len(runs)
    /\ reads' = Append(reads, <<a, ReadEnd>>)
    /\ IF ReadEnd < runs[r][2]
       THEN a' = ReadEnd + 1 /\ r' = r
       ELSE /\ r' = r + 1
            /\ a' = IF r < Len(runs) THEN runs[r + 1][1] ELSE a
    /\ UNCHANGED <<i, start, prev, runs, pc, input>>

Finish ==
    /\ pc = "split" /\ r > Len(runs)
    /\ pc' = "done"
    /\ UNCHANGED <<i, start, prev, runs, r, a, reads, input>>

Next == Empty \/ Begin \/ Bridge \/ Cut \/ LastRun \/ SplitRead \/ Finish

Spec == Init /\ [][Next]_vars

-----------------------------------------------------------------------------
(* Properties *)

Ranges(q) == {q[j] : j \in 1 .. Len(q)}
Within(x, run) == run[1] <= x /\ x <= run[2]
Wanted == {slots[j] : j \in 1 .. Len(slots)}

TypeOK ==
    /\ slots \in Seq(Nat) /\ IsIncreasing(slots)
    /\ cost.fetch \in Nat /\ cost.byte \in Nat /\ limit \in Nat
    /\ i \in 1 .. Len(slots) + 1
    /\ start \in Nat /\ prev \in Nat /\ a \in Nat
    /\ runs \in Seq(Nat \X Nat) /\ reads \in Seq(Nat \X Nat)
    /\ r \in 1 .. Len(runs) + 1
    /\ pc \in {"begin", "group", "split", "done"}

\* Every wanted slot looked at so far is in a run already emitted or in the one
\* being built: grouping loses no expert of the token.
NoneMissed ==
    \A j \in 1 .. i - 1 :
        \/ \E run \in Ranges(runs) : Within(slots[j], run)
        \/ pc = "group" /\ Within(slots[j], <<start, prev>>)

\* A run starts and ends with a wanted slot, and an unwanted stretch inside it
\* is never longer than the gap the cost model allows.
RunsWorthReading ==
    \A run \in Ranges(runs) :
        /\ run[1] \in Wanted /\ run[2] \in Wanted /\ run[1] <= run[2]
        /\ \A j \in 1 .. Len(slots) - 1 :
               Within(slots[j], run) /\ Within(slots[j + 1], run) =>
                   slots[j + 1] - slots[j] - 1 <= Gap

\* Runs are in ascending order and further apart than the gap: two of them are
\* never worth joining, and no byte is read twice.
RunsApart ==
    \A j, k \in 1 .. Len(runs) : j < k => runs[k][1] - runs[j][2] - 1 > Gap

\* The grouping that plan, runs and build_ranges make, each in a loop of its own: it covers
\* what is wanted, with runs worth reading, none of them worth joining.
Grouped == NoneMissed /\ RunsWorthReading /\ RunsApart

\* The cost of a way to cut the slot list into groups of neighbours, cuts holding the positions
\* after which it is cut: each group is one fetch and as many bytes as it spans.
GroupsCost(cuts) ==
    LET begins == {1} \cup {j + 1 : j \in cuts}
        EndOf(b) == Min({e \in cuts \cup {Len(slots)} : e >= b})
    IN  cost.fetch * Cardinality(begins)
            + cost.byte * SumFunction([b \in begins |-> slots[EndOf(b)] - slots[b] + 1])

RunsCost ==
    cost.fetch * Len(runs)
        + cost.byte * SumFunction([k \in DOMAIN runs |-> runs[k][2] - runs[k][1] + 1])

\* max_gap is "the largest run of unwanted experts worth reading through": no
\* other grouping of the token's slots is cheaper under the cost model.
Cheapest ==
    (pc = "split" /\ r = 1 /\ cost.byte > 0) =>
        \A cuts \in SUBSET (1 .. Len(slots) - 1) : RunsCost <= GroupsCost(cuts)

\* The reads of the runs split so far: none longer than the limit, each slot of
\* a run in exactly one of them, no other slot in any.
SplitExact ==
    /\ \A read \in Ranges(reads) :
           read[1] <= read[2] /\ (limit > 0 => read[2] - read[1] < limit)
    /\ \A j, k \in 1 .. Len(reads) : j < k => reads[j][2] < reads[k][1]
    /\ pc = "done" =>
           \A x \in 0 .. (IF slots = <<>> THEN 0 ELSE slots[Len(slots)] + 1) :
               (\E run \in Ranges(runs) : Within(x, run)) <=>
               (\E read \in Ranges(reads) : Within(x, read))

=============================================================================
