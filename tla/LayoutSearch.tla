---------------------------- MODULE LayoutSearch ----------------------------
(***************************************************************************)
(* The search for the layout of one layer: build (crates/coact/src/        *)
(* main.rs) begins with the better of two proposed orders, greedy_refine   *)
(* (crates/coact/src/cluster.rs) exchanges and moves experts in it as long *)
(* as that lowers the cost.  What an order costs and which are proposed    *)
(* are parameters, and so is the order in which pairs are tried, which a   *)
(* generator of random numbers decides.                                    *)
(***************************************************************************)
EXTENDS Integers, FiniteSets

CONSTANTS
    Jobs,           \* layers to lay out: records with n, the number of experts, and sweeps
    Cost(_, _),     \* Cost(j, order): cost_ns on the tokens of the search
    Bisected(_),    \* orders the spectral bisection may come to
    Chained(_),     \* the order of the greedy chain
    Shuffle(_)      \* which of the pairs left may be tried next

VARIABLES
    job,
    p, best,        \* greedy_refine: the order, and what it costs
    sweep, improved,
    todo,           \* pairs the sweep has still to try
    stage,          \* "seed", "swap", "move" or "done"
    mincut          \* what the bisection came to

searchVars == <<job, p, best, sweep, improved, todo, stage, mincut>>

Slots(j) == 0 .. j.n - 1

\* What Permutation::from_perm accepts.
IsOrder(j, q) ==
    /\ q \in [Slots(j) -> Slots(j)]
    /\ \A x, y \in Slots(j) : q[x] = q[y] => x = y

Orders(j) == {q \in [Slots(j) -> Slots(j)] : IsOrder(j, q)}

ASSUME JobsAssumption == \A j \in Jobs : j.n \in Nat \ {0} /\ j.sweeps \in Nat
ASSUME CostAssumption == \A j \in Jobs : \A q \in Orders(j) : Cost(j, q) \in Nat
ASSUME SeedsAssumption == \A j \in Jobs : IsOrder(j, Chained(j)) /\ \A q \in Bisected(j) : IsOrder(j, q)

NoOrder == << >>
SearchInit ==
    /\ job \in Jobs
    /\ p = NoOrder /\ best = 0 /\ mincut = NoOrder
    /\ sweep = 0 /\ improved = FALSE /\ todo = {}
    /\ stage = "seed"

Swaps(j) == {e \in Slots(j) \X Slots(j) : e[1] < e[2]}
Moves(j) == {e \in Slots(j) \X Slots(j) : e[1] # e[2]}

\* The loop over sweeps, at its head.
NextSweep(done) ==
    IF done = job.sweeps THEN stage' = "done" /\ todo' = {} /\ UNCHANGED improved
    ELSE stage' = "swap" /\ todo' = Swaps(job) /\ improved' = FALSE

\* The search starts from whichever construction is ahead.
Seed ==
    /\ stage = "seed"
    /\ \E spectral \in Bisected(job) :
           /\ mincut' = spectral
           /\ p' = IF Cost(job, Chained(job)) < Cost(job, spectral) THEN Chained(job) ELSE spectral
    /\ best' = Cost(job, p')
    /\ NextSweep(0)
    /\ UNCHANGED <<job, sweep>>

\* Permutation::swap
Swapped(order, e) == [order EXCEPT ![e[1]] = order[e[2]], ![e[2]] = order[e[1]]]

\* Mutant: the slot is not counted from where it was before the expert was taken out.
RelocatedShort(order, e) ==
    [x \in DOMAIN order |->
        IF x = e[2] THEN order[e[1]]
        ELSE IF e[1] < x /\ x < e[2] THEN order[x + 1]
        ELSE IF e[2] < x /\ x <= e[1] THEN order[x - 1]
        ELSE order[x]]

\* relocate: the expert of slot e[1] moves to slot e[2], those between shift by one.
Relocated(order, e) ==
    [x \in DOMAIN order |->
        IF x = e[2] THEN order[e[1]]
        ELSE IF e[1] <= x /\ x < e[2] THEN order[x + 1]
        ELSE IF e[2] < x /\ x <= e[1] THEN order[x - 1]
        ELSE order[x]]

\* A candidate is kept if it costs less.
Consider(candidate) ==
    IF Cost(job, candidate) < best
    THEN p' = candidate /\ best' = Cost(job, candidate) /\ improved' = TRUE
    ELSE UNCHANGED <<p, best, improved>>

TrySwap ==
    /\ stage = "swap"
    /\ \E e \in todo \cap Shuffle(todo) : Consider(Swapped(p, e)) /\ todo' = todo \ {e}
    /\ UNCHANGED <<job, sweep, stage, mincut>>

StartMoves ==
    /\ stage = "swap" /\ todo = {}
    /\ stage' = "move" /\ todo' = Moves(job)
    /\ UNCHANGED <<job, p, best, sweep, improved, mincut>>

TryMove ==
    /\ stage = "move"
    /\ \E e \in todo \cap Shuffle(todo) : Consider(Relocated(p, e)) /\ todo' = todo \ {e}
    /\ UNCHANGED <<job, sweep, stage, mincut>>

\* A sweep that improved nothing is the last.
EndSweep ==
    /\ stage = "move" /\ todo = {}
    /\ sweep' = sweep + 1
    /\ IF improved THEN NextSweep(sweep') ELSE stage' = "done" /\ UNCHANGED <<todo, improved>>
    /\ UNCHANGED <<job, p, best, mincut>>

SearchNext == Seed \/ TrySwap \/ StartMoves \/ TryMove \/ EndSweep
SearchSpec == SearchInit /\ [][SearchNext]_searchVars

-----------------------------------------------------------------------------
\* What is saved as a layout is a permutation at every point of the search, and what the
\* search goes by is what the order it holds costs.
Tracked == stage # "seed" => IsOrder(job, p) /\ best = Cost(job, p)

\* "greedy_refine never regresses": the result costs no more than either proposal.
NeverWorse ==
    stage # "seed" => best <= Cost(job, Chained(job)) /\ best <= Cost(job, mincut)

\* A search that ends for want of improvement ends at an order that no exchange and no move
\* of an expert makes cheaper.
LocallyBest ==
    stage = "done" /\ ~improved /\ job.sweeps > 0 =>
        /\ \A e \in Swaps(job) : best <= Cost(job, Swapped(p, e))
        /\ \A e \in Moves(job) : best <= Cost(job, Relocated(p, e))

LayoutSound == Tracked /\ NeverWorse /\ LocallyBest
=============================================================================
