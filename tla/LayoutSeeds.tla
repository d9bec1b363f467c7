---------------------------- MODULE LayoutSeeds ----------------------------
(***************************************************************************)
(* The orders coact proposes from a graph of experts that are selected     *)
(* together (crates/coact/src/cluster.rs).  A graph is given by the number *)
(* n of experts and the tokens of the training trace, each the set of its  *)
(* experts; an edge counts the tokens that hold both ends (EdgeWeight of   *)
(* Count, no sharpening).  The Fiedler vector, floating point, is any      *)
(* vector: all that is used of it is the order of the nodes by it.         *)
(* A job is a layer to lay out: n, trace, every (--holdout-every), most    *)
(* (--search-tokens) and what other modules need.                          *)
(***************************************************************************)
EXTENDS Integers, Sequences, FiniteSets, FiniteSetsExt

\* LayerTrace::split keeps every token but one in `every' for training; subsample takes `most'
\* of these, evenly spaced.
TrainTokens(j) ==
    LET kept == {k \in DOMAIN j.trace : j.every = 0 \/ (k - 1) % j.every # 0}
    IN  [k \in 1 .. Cardinality(kept) |->
            j.trace[CHOOSE x \in kept : Cardinality({y \in kept : y < x}) = k - 1]]
SearchTokens(j) ==
    LET train == TrainTokens(j)
    IN  IF j.most = 0 \/ Len(train) <= j.most THEN train
        ELSE [k \in 1 .. j.most |-> train[((k - 1) * Len(train)) \div j.most + 1]]

\* CoGraph::build
Edge(tokens, x, y) == IF x = y THEN 0 ELSE Cardinality({k \in DOMAIN tokens : {x, y} \subseteq tokens[k]})
Freq(tokens, x) == Cardinality({k \in DOMAIN tokens : x \in tokens[k]})

\* CoGraph::cut: the weight between the nodes of one side and the others.
CutOf(tokens, nodes, side) ==
    LET weight == [e \in nodes \X nodes |-> Edge(tokens, e[1], e[2])]
    IN  MapThenSumSet(LAMBDA e : weight[e], (nodes \ side) \X side)

\* D[x]: external less internal weight.
External(tokens, nodes, side, x) ==
    LET weight == [y \in nodes |-> Edge(tokens, x, y)]
        other == IF x \in side THEN nodes \ side ELSE side
        sum(S) == MapThenSumSet(LAMBDA y : weight[y], S)
    IN  sum(other) - sum(nodes \ other)

\* Mutant: the edge between the two, which stays cut, is taken to be mended.
GainOverlapping(tokens, nodes, side, x, y) ==
    External(tokens, nodes, side, x) + External(tokens, nodes, side, y)

\* What exchanging x and y gains.
Gain(tokens, nodes, side, x, y) ==
    External(tokens, nodes, side, x) + External(tokens, nodes, side, y) - 2 * Edge(tokens, x, y)

\* The first of the exchanges with the best gain, in the order of the two loops.
BestExchange(tokens, nodes, side) ==
    LET crossing == {e \in nodes \X nodes : e[1] < e[2] /\ (e[1] \in side) # (e[2] \in side)}
        gain(e) == Gain(tokens, nodes, side, e[1], e[2])
        most == {e \in crossing : gain(e) > 0 /\ \A f \in crossing : gain(f) <= gain(e)}
    IN  {e \in most : \A f \in most : e[1] < f[1] \/ (e[1] = f[1] /\ e[2] <= f[2])}

Exchanged(side, e) == IF e[1] \in side THEN (side \ {e[1]}) \cup {e[2]} ELSE (side \ {e[2]}) \cup {e[1]}

\* A round of kernighan_lin.
Round(tokens, nodes, side) ==
    LET best == BestExchange(tokens, nodes, side)
    IN  IF best = {} THEN side ELSE Exchanged(side, CHOOSE e \in best : TRUE)

\* kernighan_lin, in as many rounds as there are nodes.
KernighanLin(tokens, nodes, side) ==
    LET after[k \in 0 .. Cardinality(nodes)] ==
            IF k = 0 THEN side ELSE Round(tokens, nodes, after[k - 1])
    IN  after[Cardinality(nodes)]

Halves(nodes) == kSubset(Cardinality(nodes) - Cardinality(nodes) \div 2, nodes)

InOrder(S) == [k \in 1 .. Cardinality(S) |-> CHOOSE x \in S : Cardinality({y \in S : y < x}) = k - 1]
AsOrder(q) == [x \in 0 .. Len(q) - 1 |-> q[x + 1]]

\* bisect: the nodes are split at the median of the Fiedler vector, the sides improved, and
\* each laid out by itself.  All the orders that can come of it.
Bisections(tokens, n) ==
    LET of[nodes \in SUBSET (0 .. n - 1)] ==
            IF Cardinality(nodes) <= 2 THEN {InOrder(nodes)}
            ELSE LET sides == {KernighanLin(tokens, nodes, side) : side \in Halves(nodes)}
                 IN  UNION {{left \o right : left \in of[nodes \ side], right \in of[side]} : side \in sides}
    IN  of[0 .. n - 1]

\* spectral_order
Mincuts(j) == {AsOrder(q) : q \in Bisections(TrainTokens(j), j.n)}

\* Affinity normalised by expected co-occurrence: a fraction, 0 where it has no denominator.
Affinity(tokens, x, y) ==
    LET d == Freq(tokens, x) * Freq(tokens, y)
    IN  IF d = 0 THEN [num |-> 0, den |-> 1] ELSE [num |-> Edge(tokens, x, y), den |-> d]
AtLeast(f, g) == f.num * g.den >= g.num * f.den
Stronger(f, g) == ~AtLeast(g, f)

\* The option of the greatest affinity, the first in order where they are equal.
Strongest(options, aff) ==
    CHOOSE o \in options : \A f \in options \ {o} :
        \/ Stronger(aff[o], aff[f])
        \/ AtLeast(aff[o], aff[f]) /\ (o[1] < f[1] \/ (o[1] = f[1] /\ o[2] < f[2]))

BestPair(tokens, n) ==
    LET pairs == {e \in (0 .. n - 1) \X (0 .. n - 1) : e[1] < e[2]}
    IN  Strongest(pairs, [e \in pairs |-> Affinity(tokens, e[1], e[2])])

\* Whichever end has the strongest neighbour left is extended by it; the lower expert, then the
\* front before the back, where they are equal.
Extended(tokens, path, left) ==
    LET end(o) == IF o[2] = 0 THEN path[1] ELSE path[Len(path)]
        options == left \X {0, 1}
        pick == Strongest(options, [o \in options |-> Affinity(tokens, end(o), o[1])])
    IN  IF pick[2] = 0 THEN <<pick[1]>> \o path ELSE Append(path, pick[1])

\* chain_order
Chain(j) ==
    LET tokens == TrainTokens(j)
        first == BestPair(tokens, j.n)
        placed(q) == {q[k] : k \in DOMAIN q}
        path[k \in 2 .. j.n] ==
            IF k = 2 THEN <<first[1], first[2]>>
            ELSE Extended(tokens, path[k - 1], (0 .. j.n - 1) \ placed(path[k - 1]))
    IN  AsOrder(IF j.n < 2 THEN InOrder(0 .. j.n - 1) ELSE path[j.n])

\* frequency_order: a stable sort, the most frequent first.
FrequencyOrder(j) ==
    LET before(x, y) == \/ Freq(TrainTokens(j), x) > Freq(TrainTokens(j), y)
                        \/ Freq(TrainTokens(j), x) = Freq(TrainTokens(j), y) /\ x < y
    IN  [s \in 0 .. j.n - 1 |->
            CHOOSE x \in 0 .. j.n - 1 : Cardinality({y \in 0 .. j.n - 1 : before(y, x)}) = s]
=============================================================================
