----------------------------- MODULE CycleOrder -----------------------------
(***************************************************************************)
(* The file images permute_tensor (crates/ggufperm/src/main.rs) passes     *)
(* through, as pure definitions: which slots have been rewritten when it   *)
(* is stopped between two of its writes.  PermuteTensor is the step by     *)
(* step machine, and its runs check that it never leaves CrashImages;      *)
(* GgufPerm uses CrashImages for a command that dies inside a tensor.      *)
(***************************************************************************)
EXTENDS Integers, FiniteSets

\* p^0[x], p^1[x], ..., p^n[x]
Iterate(p, x) ==
    LET it[i \in 0 .. Cardinality(DOMAIN p)] == IF i = 0 THEN x ELSE p[it[i - 1]]
    IN  it

\* The first k slots that following p from x visits.
Path(p, x, k) == {Iterate(p, x)[i] : i \in 0 .. k - 1}

Cycle(p, x) == Path(p, x, Cardinality(DOMAIN p))

Moving(p) == {x \in DOMAIN p : p[x] # x}

\* The outer loop enters a cycle at its smallest slot.
Leaders(p) == {x \in Moving(p) : \A y \in Cycle(p, x) : x <= y}

\* The cycles rewritten before the one of leader x.
Before(p, x) == UNION {Cycle(p, y) : y \in {z \in Leaders(p) : z < x}}

\* f with the slots of W holding what the permutation brings there.
Rewritten(p, f, W) == [x \in DOMAIN p |-> IF x \in W THEN f[p[x]] ELSE f[x]]

\* Mutant: slots copied in ascending order with nothing saved.
PermuteNaively(p, f) ==
    LET g[x \in DOMAIN p] == IF p[x] < x THEN g[p[x]] ELSE f[p[x]]
    IN  g

Permute(p, f) == Rewritten(p, f, DOMAIN p)

\* Stopped in the cycle of leader x after k of its writes, the next write
\* either not begun or, with torn, half done.
Stopped(p, f, x, k, torn) ==
    LET img == Rewritten(p, f, Before(p, x) \cup Path(p, x, k))
    IN  {img, [img EXCEPT ![Iterate(p, x)[k]] = torn]}

CrashImages(p, f, torn) ==
    {f, Permute(p, f)} \cup
    UNION {UNION {Stopped(p, f, x, k, torn) : k \in 0 .. Cardinality(Cycle(p, x)) - 1} :
               x \in Leaders(p)}

=============================================================================
