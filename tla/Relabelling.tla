---------------------------- MODULE Relabelling ----------------------------
(***************************************************************************)
(* What ggufperm promises its user, with nothing of how it does it: once   *)
(* the pristine order is on record, the expert order of a model file can   *)
(* be replaced by any other one, all tensors of all layers at the same     *)
(* instant, and the record always says which order the file is in.         *)
(***************************************************************************)
EXTENDS Integers

CONSTANTS Models, N, NL, NT, Orders, Unrecorded

VARIABLES
    bytes,      \* bytes[m]: the expert in each slot of each tensor
    order       \* order[m]: Unrecorded, or the order on record for each layer

vars == <<bytes, order>>

Shipped == [l \in 0 .. NL - 1 |-> [x \in 0 .. N - 1 |-> x]]

\* The tensors of a layer, its router included, move together.
InOrder(o) == [k \in 0 .. NL * NT - 1 |-> o[k \div NT]]

Init ==
    /\ bytes = [m \in Models |-> InOrder(Shipped)]
    /\ order = [m \in Models |-> Unrecorded]

Record(m) ==
    /\ order[m] = Unrecorded
    /\ order' = [order EXCEPT ![m] = Shipped]
    /\ UNCHANGED bytes

Relabel(m, o) ==
    /\ order[m] # Unrecorded
    /\ order' = [order EXCEPT ![m] = o]
    /\ bytes' = [bytes EXCEPT ![m] = InOrder(o)]

Next == \E m \in Models : Record(m) \/ \E o \in Orders : Relabel(m, o)

Spec == Init /\ [][Next]_vars

=============================================================================
