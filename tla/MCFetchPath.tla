---------------------------- MODULE MCFetchPath ----------------------------
(***************************************************************************)
(* Instance of FetchPath for TLC: searches over four experts, proposals    *)
(* alone over six, and tables of every kind for one order.                 *)
(***************************************************************************)
EXTENDS FetchPath

Tensor(kind, rel, nbytes, lastDim) == [kind |-> kind, rel |-> rel, nbytes |-> nbytes, lastDim |-> lastDim]
Table(tensors) == [alignment |-> 4, dataOffset |-> 8, fileSize |-> 40, tensors |-> tensors]

\* Two weight tensors of strides 2 and 1, a router, and a tensor without experts.
Good(n) ==
    LET base == 4 * ((n + 3) \div 4)
    IN  Table(<<Tensor("gate_inp", 0, n, n), Tensor("exps", base, 2 * n, n),
                Tensor("exps", base + 2 * n, n, n), Tensor("dense", base + 3 * n + 2, 3, 3)>>)

\* Three experts; sizes and places in and out of order, apart, too far apart, overlapping,
\* beyond the end of the file, not divisible.
Tables ==
    {Table(<<Tensor("exps", first, size, 3), Tensor("gate_inp", router, 3, 3), Tensor("exps", last, 6, 3)>>) :
        first \in {0, 4, 12}, size \in {3, 4, 6}, router \in {0, 4, 8}, last \in {0, 8, 12, 28}}

\* The first two have tokens that the sample of the search leaves out.
Traces4 == {<<{0, 1}, {1, 3}, {0, 3}>>, <<{0, 1}, {0, 2}, {1, 3}, {2, 3}>>, <<{0, 3}, {1, 2}, {0, 3}>>}

\* The first or the last pair left: every pair comes before and after every other.
Outermost(pairs) ==
    LET key(e) == 10 * e[1] + e[2]
    IN  {e \in pairs : \A f \in pairs : key(e) <= key(f)} \cup {e \in pairs : \A f \in pairs : key(e) >= key(f)}

Traces6 ==
    {<<{0, 3}, {3, 5}, {1, 4}, {2, 4}, {0, 5}>>, <<{0, 2, 4}, {1, 3, 5}, {0, 4, 5}, {2, 3, 4}>>,
     <<{5, 1}, {5, 2}, {5, 3}, {4, 1}>>}

Job(n, table, trace, every, most, sweeps, cm) ==
    [n |-> n, table |-> table, trace |-> trace, every |-> every, most |-> most, sweeps |-> sweeps, cm |-> cm]

\* Gaps of one slot are worth bridging, none is, bytes are free.
CostModels == {[fetch |-> 3, byte |-> 2], [fetch |-> 1, byte |-> 1], [fetch |-> 5, byte |-> 0]}
MCJobs ==
    {Job(4, Good(4), trace, split[1], split[2], sweeps, cm) :
        trace \in Traces4, split \in {<<0, 2>>, <<3, 0>>}, sweeps \in {1, 2},
        cm \in CostModels \ {[fetch |-> 5, byte |-> 0]}}
    \cup
    \* Bisection comes to an order that a move improves and no exchange does.
    {Job(4, Good(4), <<{0, 1}, {0, 2, 3}, {0, 3}>>, 0, 0, 2, [fetch |-> 3, byte |-> 2])}
    \cup
    {Job(6, Good(6), trace, 0, 0, 0, cm) : trace \in Traces6, cm \in CostModels}
    \cup
    \* Every token held out: nothing to learn from.
    {Job(5, Good(5), <<{0, 4}, {1, 2}>>, 1, 0, 0, cm) : cm \in CostModels}
    \cup
    {Job(3, table, <<{0, 2}, {1}>>, 0, 0, 1, [fetch |-> 3, byte |-> 1]) : table \in Tables}

MCReplays ==
    [batch : {1, 2}, gap : {NoGap}, tokens : {3}] \cup [batch : {0, 2}, gap : {1}, tokens : {2}]
=============================================================================
