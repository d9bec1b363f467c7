----------------------------- MODULE FetchCost -----------------------------
(***************************************************************************)
(* What a layout costs: plan and evaluate of crates/coact/src/cost.rs.  An *)
(* order maps each slot to the expert in it; a token is the set of experts *)
(* routed to; geom is [tensors, bytes], a cost model [fetch, byte], whole  *)
(* numbers here.                                                           *)
(***************************************************************************)
EXTENDS Integers, Sequences, FiniteSets, FiniteSetsExt

\* max_gap
GapOf(geom, cm) ==
    IF cm.byte = 0 \/ geom.bytes = 0 THEN 0 ELSE (geom.tensors * cm.fetch) \div (geom.bytes * cm.byte)

\* The slots of a token, and the nearest one below.
SlotsOf(token, order) == {x \in DOMAIN order : order[x] \in token}
Below(S, x) == {y \in S : y < x}
Distance(S, x) == x - Max(Below(S, x))

\* A group begins where the gap before a slot is too long to read through.
Begins(S, x, gap) == Below(S, x) = {} \/ Distance(S, x) - 1 > gap

\* plan: groups of slots, and the slots they span.
Plan(token, order, gap) ==
    LET S == SlotsOf(token, order)
        width == [x \in S |-> IF Begins(S, x, gap) THEN 1 ELSE Distance(S, x)]
    IN  [groups |-> Cardinality({x \in S : Begins(S, x, gap)}),
         span |-> MapThenSumSet(LAMBDA x : width[x], S)]

\* evaluate: cost_ns over the tokens of a trace.
Evaluate(tokens, order, geom, cm) ==
    LET gap == GapOf(geom, cm)
        plan == [k \in DOMAIN tokens |-> Plan(tokens[k], order, gap)]
        cost == [k \in DOMAIN tokens |->
                    plan[k].groups * geom.tensors * cm.fetch + plan[k].span * geom.bytes * cm.byte]
    IN  MapThenSumSet(LAMBDA k : cost[k], DOMAIN tokens)
=============================================================================
