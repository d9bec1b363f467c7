----------------------------- MODULE BrickLedger -----------------------------
(***************************************************************************)
(* experiments/loopmem/brickassume.py: a conversion walks a path of bricks *)
(* some of which have two sides (a bank buys and sells).  At such an edge  *)
(* the lower outcome is assumed, and a ledger keeps what the other would   *)
(* have given; an answer to the question reruns what crossed the edge.     *)
(***************************************************************************)
EXTENDS Fractions, Sequences, FiniteSets

CONSTANTS Rate,          \* <<src, dst>> -> <<scale, offset>>
          TwoSided,      \* the bricks declared two-sided
          Computations,  \* 1 .. n
          Paths,         \* the paths asked about
          Input

\* No brick leads from a type to itself, and scales are above zero, as in the registry.
ASSUME QuotesAssumption ==
    /\ \A n \in DOMAIN Rate : /\ n[1] # n[2] /\ Num(Rate[n][1]) > 0
                             /\ InLowestTerms(Rate[n][1]) /\ InLowestTerms(Rate[n][2])
    /\ Paths \subseteq Seq(DOMAIN Rate) /\ InLowestTerms(Input)

VARIABLES path,     \* computation -> its path
          results,  \* computation -> its result, or NotYet
          pending,  \* computation -> the edges assumed
          ledger,   \* [comp, edge, taken, other]
          settled   \* edge -> the side that applies

ledgerVars == <<path, results, pending, ledger, settled>>

NotYet == <<>>
Unanswered == <<>>

Reversed(n) == <<n[2], n[1]>>
Edge(n) == {n, Reversed(n)}
Asks(n) == n \in TwoSided /\ Reversed(n) \in DOMAIN Rate

ThisSide(n, v) == Plus(Times(v, Rate[n][1]), Rate[n][2])
OtherSide(n, v) == Over(Minus(v, Rate[Reversed(n)][2]), Rate[Reversed(n)][1])

Lower(a, b) == IF Less(b, a) THEN b ELSE a
Higher(a, b) == IF Less(b, a) THEN a ELSE b

Assumed(n, v) == Lower(ThisSide(n, v), OtherSide(n, v))

\* What is left of the path, each brick as it is quoted.
AsQuoted(p, i, v) ==
    LET w[k \in i .. Len(p)] == IF k = i THEN v ELSE ThisSide(p[k], w[k - 1])
    IN  w[Len(p)]

Otherwise(p, i, v) == AsQuoted(p, i, Higher(ThisSide(p[i], v), OtherSide(p[i], v)))

Crossed(n, v, answers) ==
    IF ~Asks(n) THEN ThisSide(n, v)
    ELSE IF Edge(n) \in DOMAIN answers
         THEN IF answers[Edge(n)] = n THEN ThisSide(n, v) ELSE OtherSide(n, v)
    ELSE Assumed(n, v)

CarriedAlong(p, answers) ==
    LET w[i \in 0 .. Len(p)] == IF i = 0 THEN Input ELSE Crossed(p[i], w[i - 1], answers)
    IN  w

\* lazy_convert: the value at the end, and what was assumed on the way.
Converted(p, answers) == CarriedAlong(p, answers)[Len(p)]
Assumptions(j, p, answers) ==
    LET v == CarriedAlong(p, answers)
    IN  {[comp |-> j, edge |-> Edge(p[i]), at |-> i, taken |-> v[i], other |-> Otherwise(p, i, v[i - 1])] :
            i \in {k \in 1 .. Len(p) : Asks(p[k]) /\ Edge(p[k]) \notin DOMAIN answers}}

LedgerInit ==
    /\ path \in [Computations -> Paths]
    /\ results = [j \in Computations |-> NotYet] /\ pending = [j \in Computations |-> {}]
    /\ ledger = {} /\ settled = Unanswered

\* The paths are converted one after another.
Convert(j) ==
    /\ results[j] = NotYet /\ \A k \in 1 .. j - 1 : results[k] # NotYet
    /\ results' = [results EXCEPT ![j] = Converted(path[j], Unanswered)]
    /\ LET made == Assumptions(j, path[j], Unanswered)
       IN  /\ pending' = [pending EXCEPT ![j] = {e.edge : e \in made}]
           /\ ledger' = ledger \cup made
    /\ UNCHANGED <<path, settled>>

\* Mutant: only the newest computation that crossed the edge is rerun.
DependentsLast(edge) ==
    {j \in Computations : /\ \E e \in ledger : e.comp = j /\ e.edge = edge
                          /\ \A k \in Computations : k > j => ~\E e \in ledger : e.comp = k /\ e.edge = edge}

Dependents(edge) == {e.comp : e \in {x \in ledger : x.edge = edge}}

\* The answer for one edge arrives: its dependents are converted again under it.
Settle(edge, side) ==
    /\ \A j \in Computations : results[j] # NotYet
    /\ settled = Unanswered
    /\ settled' = [e \in {edge} |-> side]
    /\ results' = [j \in Computations |-> IF j \in Dependents(edge) THEN Converted(path[j], settled') ELSE results[j]]
    /\ pending' = [j \in Computations |-> IF j \in Dependents(edge) THEN pending[j] \ {edge} ELSE pending[j]]
    /\ UNCHANGED <<path, ledger>>

LedgerNext ==
    \/ \E j \in Computations : Convert(j)
    \/ \E edge \in {e.edge : e \in ledger} : \E side \in edge : Settle(edge, side)

LedgerSpec == LedgerInit /\ [][LedgerNext]_ledgerVars

-----------------------------------------------------------------------------
Edges == {Edge(n) : n \in {m \in DOMAIN Rate : Asks(m)}}

AllAnswers == {a \in [Edges -> UNION Edges] : \A e \in Edges : a[e] \in e}

\* Every way the open questions can be answered that agrees with the answer there is.
PossibleAnswers == {a \in AllAnswers : \A e \in DOMAIN settled : a[e] = settled[e]}

Done == {j \in Computations : results[j] # NotYet}

\* brickassume.py:19: what is assumed is the least that any answer to the open questions can give,
\* however many questions the path crosses, before and after one of them is answered.
DefaultLowest == \A j \in Done : \A a \in PossibleAnswers : ~Less(Converted(path[j], a), results[j])

\* brickassume.py:21: an answered question is pending nowhere, what was not rerun needed no rerun, and
\* a result that carries no pending flag is final: no answer to any question changes it.
SettledIsFinal ==
    \A j \in Done : /\ pending[j] \cap DOMAIN settled = {}
                    /\ pending[j] = {} => \A a \in PossibleAnswers : Converted(path[j], a) = results[j]

Crossings(p) == {i \in 1 .. Len(p) : Asks(p[i])}
Reruns(e) == {Converted(path[e.comp], [x \in {e.edge} |-> side]) : side \in e.edge}
Reproduced(e) == e.other = CHOOSE v \in Reruns(e) : \A w \in Reruns(e) : ~Less(v, w)

\* brickassume.py:22: rerun under both answers, a computation with one open question reproduces what
\* the ledger says of the other branch, wherever on the path the question comes up.
CounterfactualExact == \A e \in ledger : Cardinality(Crossings(path[e.comp])) = 1 => Reproduced(e)

\* The same of every computation, as the file states it (brickassume.py:22).
EveryCounterfactual == \A e \in ledger : Reproduced(e)

\* What lazy_convert assumes and records is what the answers to its questions would show.
LedgerSound == DefaultLowest /\ SettledIsFinal /\ CounterfactualExact
=============================================================================
