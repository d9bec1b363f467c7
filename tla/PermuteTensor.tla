--------------------------- MODULE PermuteTensor ---------------------------
(***************************************************************************)
(* permute_tensor of crates/ggufperm/src/main.rs: the in-place rewrite of  *)
(* one expert tensor so that slot x ends up holding what slot d[x] held.   *)
(* It follows the cycles of d with two blocks of memory, `saved` and       *)
(* `block`, so every intermediate file is something a crash can leave      *)
(* behind.  One step is one read or one write of the file; the arithmetic  *)
(* between two of them is local to the process.                            *)
(*                                                                         *)
(* A block is a value of Blocks; Torn is the content of a block whose      *)
(* write_all_at failed, or was killed, part of the way through.            *)
(***************************************************************************)
EXTENDS Integers, FiniteSets

CONSTANTS
    N,          \* number of expert slots, d.len() in the code
    Blocks,     \* the contents a slot may hold
    Torn        \* a half-written block

ASSUME NAssumption == N \in Nat
ASSUME TornAssumption == Torn \notin Blocks

C == INSTANCE CycleOrder

Slots == 0 .. N - 1

\* What Permutation::from_perm accepts: every slot named exactly once.
IsPermutation(p) ==
    /\ p \in [Slots -> Slots]
    /\ \A x, y \in Slots : p[x] = p[y] => x = y
    /\ \A y \in Slots : \E x \in Slots : p[x] = y

VARIABLES
    file,       \* the expert blocks on disk
    d,          \* the permutation argument
    visited,    \* the slots marked visited
    s,          \* index of the outer for loop
    cur,        \* slot the inner loop is about to fill
    saved,      \* first block of the current cycle
    block,      \* block in transit
    moved,      \* blocks written so far (bytes / stride in the code)
    pc,         \* "scan", "follow", "write", "done" or "failed"
    old,        \* history: the file before the first write
    written     \* history: the slots that have received their final block

vars == <<file, d, visited, s, cur, saved, block, moved, pc, old, written>>
inputs == <<d, old>>

Init ==
    /\ old \in [Slots -> Blocks]
    /\ file = old
    /\ d \in [Slots -> Slots] /\ IsPermutation(d)
    /\ visited = {} /\ written = {}
    /\ s = 0 /\ cur = 0
    /\ saved = Torn /\ block = Torn      \* the code's zeroed buffers
    /\ moved = 0
    /\ pc = "scan"

\* for s in 0..n: a visited slot and a fixed point are passed over.
Skip ==
    /\ pc = "scan" /\ s < N
    /\ s \in visited \/ d[s] = s
    /\ visited' = visited \cup {s}
    /\ s' = s + 1
    /\ written' = written \cup {s}
    /\ UNCHANGED <<file, cur, saved, block, moved, pc, inputs>>

\* Mutant: a visited slot starts its cycle again.
ReadSavedAgain ==
    /\ pc = "scan" /\ s < N
    /\ d[s] # s
    /\ saved' = file[s]
    /\ cur' = s
    /\ pc' = "follow"
    /\ UNCHANGED <<file, visited, s, block, moved, written, inputs>>

\* A new cycle: its first block is kept in memory.
ReadSaved ==
    /\ pc = "scan" /\ s < N
    /\ s \notin visited /\ d[s] # s
    /\ saved' = file[s]
    /\ cur' = s
    /\ pc' = "follow"
    /\ UNCHANGED <<file, visited, s, block, moved, written, inputs>>

\* Mutant: the slots of a cycle are not marked visited.
ReadBlockUnmarked ==
    /\ pc = "follow" /\ d[cur] # s
    /\ block' = file[d[cur]]
    /\ pc' = "write"
    /\ UNCHANGED <<file, visited, s, cur, saved, moved, written, inputs>>

ReadBlock ==
    /\ pc = "follow" /\ d[cur] # s
    /\ visited' = visited \cup {cur}
    /\ block' = file[d[cur]]
    /\ pc' = "write"
    /\ UNCHANGED <<file, s, cur, saved, moved, written, inputs>>

WriteBlock ==
    /\ pc = "write"
    /\ file' = [file EXCEPT ![cur] = block]
    /\ moved' = moved + 1
    /\ written' = written \cup {cur}
    /\ cur' = d[cur]
    /\ pc' = "follow"
    /\ UNCHANGED <<visited, s, saved, block, inputs>>

\* Mutants: the last slot gets the block in transit, or is not counted.
WriteSavedFromBlock ==
    /\ pc = "follow" /\ d[cur] = s
    /\ visited' = visited \cup {cur}
    /\ file' = [file EXCEPT ![cur] = block]
    /\ moved' = moved + 1
    /\ written' = written \cup {cur}
    /\ s' = s + 1
    /\ pc' = "scan"
    /\ UNCHANGED <<cur, saved, block, inputs>>

WriteSavedUncounted ==
    /\ pc = "follow" /\ d[cur] = s
    /\ visited' = visited \cup {cur}
    /\ file' = [file EXCEPT ![cur] = saved]
    /\ written' = written \cup {cur}
    /\ s' = s + 1
    /\ pc' = "scan"
    /\ UNCHANGED <<cur, saved, block, moved, inputs>>

\* The cycle is back at its start: the saved block goes into the last slot.
WriteSaved ==
    /\ pc = "follow" /\ d[cur] = s
    /\ visited' = visited \cup {cur}
    /\ file' = [file EXCEPT ![cur] = saved]
    /\ moved' = moved + 1
    /\ written' = written \cup {cur}
    /\ s' = s + 1
    /\ pc' = "scan"
    /\ UNCHANGED <<cur, saved, block, inputs>>

Finish ==
    /\ pc = "scan" /\ s = N
    /\ pc' = "done"
    /\ UNCHANGED <<file, visited, s, cur, saved, block, moved, written, inputs>>

\* The next file operation is a write of slot cur.
AtWrite == pc = "write" \/ (pc = "follow" /\ d[cur] = s)

\* read_exact_at or write_all_at returns an error (propagated by `?`), or the
\* process is killed.  A write may have changed part of the block.
Fail ==
    /\ pc \in {"scan", "follow", "write"}
    /\ file' = file \/ (AtWrite /\ file' = [file EXCEPT ![cur] = Torn])
    /\ pc' = "failed"
    /\ UNCHANGED <<visited, s, cur, saved, block, moved, written, inputs>>

Progress ==
    Skip \/ ReadSaved \/ ReadBlock \/ WriteBlock \/ WriteSaved \/ Finish

Next == Progress \/ Fail

Spec == Init /\ [][Next]_vars

-----------------------------------------------------------------------------
(* Properties *)

TypeOK ==
    /\ file \in [Slots -> Blocks \cup {Torn}]
    /\ old \in [Slots -> Blocks]
    /\ d \in [Slots -> Slots] /\ IsPermutation(d)
    /\ visited \in SUBSET Slots
    /\ written \in SUBSET Slots
    /\ s \in 0 .. N
    /\ cur \in 0 .. N
    /\ saved \in Blocks \cup {Torn}
    /\ block \in Blocks \cup {Torn}
    /\ moved \in Nat
    /\ pc \in {"scan", "follow", "write", "done", "failed"}

\* When permute_tensor returns Ok, slot x holds what slot d[x] held: the doc
\* comment of the function, for every permutation whatever its cycles.
Permuted == pc = "done" => file = [x \in Slots |-> old[d[x]]]

\* Until it returns, the file is the old one with the final block in the slots
\* written so far, and at most the slot being written when a write failed is torn.
PartlyPermuted ==
    \A x \in Slots :
        \/ file[x] = IF x \in written THEN old[d[x]] ELSE old[x]
        \/ pc = "failed" /\ x = cur /\ x \notin written /\ file[x] = Torn

\* Wherever the process stops, at most one block of the tensor is no longer in
\* the file: the one kept in memory, the first of the cycle being followed.
AtMostOneLost ==
    \A y \in Slots :
        (\A x \in Slots : file[x] # old[y]) =>
            y = s /\ pc \in {"follow", "write", "failed"}

\* The returned byte count counts each slot that moves once, fixed points never.
MovedExact ==
    pc = "done" => moved = Cardinality({x \in Slots : d[x] # x})

\* What a caller of permute_tensor counts on once it has returned Ok: the order of the
\* tensor and the number of blocks that moved, of which apply makes its report.
Rewritten == Permuted /\ MovedExact

\* What is left if it does not return Ok: slots that are final or untouched, one torn at
\* most, and one block at most that is nowhere in the file.
FailureContained == PartlyPermuted /\ AtMostOneLost

\* Whatever the step it stops at, permute_tensor leaves one of the images that
\* GgufPerm lets a killed command leave behind.
OnlyCrashImages == file \in C!CrashImages(d, old, Torn)

\* A slot is written at most once, and a write that completes puts the final
\* block there: no write is ever undone or repeated by a later one.
WriteOnce ==
    [][\A x \in Slots : x \in written => file'[x] = file[x]]_vars

=============================================================================
