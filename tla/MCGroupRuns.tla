---------------------------- MODULE MCGroupRuns ----------------------------
(***************************************************************************)
(* Instance of GroupRuns for TLC: every set of slots below MaxSlot, fetch  *)
(* and byte costs whose quotients include 0, exact and rounded ones, and   *)
(* limits of none, one and several slots.                                  *)
(***************************************************************************)
EXTENDS GroupRuns

CONSTANTS MaxSlot, MaxFetch

\* The elements of W in ascending order.
Sorted(W) ==
    [k \in 1 .. Cardinality(W) |->
        CHOOSE x \in W : Cardinality({y \in W : y < x}) = k - 1]

MCInputs == {Sorted(W) : W \in SUBSET (0 .. MaxSlot)}
MCCosts == [fetch : 0 .. MaxFetch, byte : 0 .. 2]
MCLimits == {0, 1, 3}

=============================================================================
