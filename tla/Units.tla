-------------------------------- MODULE Units --------------------------------
(***************************************************************************)
(* mpeqs/units.py: units are nodes and known conversions edges of a module *)
(* global GRAPH; a conversion is a breadth-first walk that looks GRAPH up  *)
(* again at every node.  audit() leaves each edge out in turn, by putting  *)
(* a smaller graph in the global's place, and restores a copy afterwards.  *)
(* Callers are threads: between any two lookups another one may run.       *)
(***************************************************************************)
EXTENDS Fractions, FiniteSets, SequencesExt

CONSTANTS Callers,    \* threads that convert, compare or ask for a path
          Auditors,   \* threads that audit
          Tables,     \* EDGES: sequences of [a, b, f], one a is f of b
          Requests,   \* [op, from, to, value, other]: names are sequences of candidates
          MaxCalls    \* calls and audits of each thread

\* EDGES is not empty, and _graph refuses a factor that is not above zero.
ASSUME TablesAssumption ==
    \A es \in Tables :
        /\ es \in Seq({es[i] : i \in DOMAIN es}) /\ es # << >>
        /\ \A i \in DOMAIN es : InLowestTerms(es[i].f) /\ Num(es[i].f) > 0
ASSUME RequestsAssumption ==
    \A r \in Requests :
        /\ \A name \in {r.from, r.to} : name \in Seq({name[i] : i \in DOMAIN name})
        /\ r.op = "compare" => InLowestTerms(r.value) /\ InLowestTerms(r.other)
ASSUME ThreadsAssumption == Callers \cap Auditors = {}

VARIABLES edges,      \* the table of this build
          graph,      \* GRAPH
          upc,        \* for each thread: where it is
          request, ends, found, queue, answer,   \* its call
          at, saved, complaints,                 \* its audit
          calls,      \* calls each thread has begun
          disturbed   \* history: an audit was under way during the thread's call

call == <<request, ends, found, queue, answer>>
unitsVars == <<edges, graph, upc, call, at, saved, complaints, calls, disturbed>>

Threads == Callers \cup Auditors

(***************************************************************************)
(* The graph of some entries of the table, one edge each way.  The list of *)
(* a node is the set of the edges at it, in the order of their places.     *)
(***************************************************************************)

Rebuild(entries) ==
    {[place |-> 2 * i, at |-> edges[i].a, to |-> edges[i].b, f |-> edges[i].f] : i \in entries}
        \cup {[place |-> 2 * i + 1, at |-> edges[i].b, to |-> edges[i].a, f |-> Inv(edges[i].f)] : i \in entries}
Whole == Rebuild(DOMAIN edges)
Nodes(g) == {h.at : h \in g}

\* EDGES without every entry from a to b.
Without(i) == {j \in DOMAIN edges : ~(edges[j].a = edges[i].a /\ edges[j].b = edges[i].b)}

\* The node a written name stands for: the first of its candidate spellings that is one.
Known(name, g) == \E i \in DOMAIN name : name[i] \in Nodes(g)
Canonical(name, g) ==
    name[CHOOSE i \in DOMAIN name : name[i] \in Nodes(g) /\ \A j \in DOMAIN name : name[j] \in Nodes(g) => i <= j]

Nothing == [kind |-> "nothing"]
Found(value) == [kind |-> "found", value |-> value]
KeyError == [kind |-> "error", value |-> "KeyError"]
Refused(why) == [kind |-> "refused", value |-> why]

UnitsTypeOK ==
    /\ graph \subseteq Whole
    /\ \A t \in Threads : calls[t] \in 0 .. MaxCalls
    /\ \A t \in Threads : \A i \in 1 .. Len(queue[t]) : queue[t][i] \in DOMAIN found[t]

UnitsInit ==
    /\ edges \in Tables
    /\ graph = Whole
    /\ upc = [t \in Threads |-> "idle"]
    /\ request = [t \in Threads |-> Nothing]
    /\ ends = [t \in Threads |-> << >>]
    /\ found = [t \in Threads |-> << >>]
    /\ queue = [t \in Threads |-> << >>]
    /\ answer = [t \in Threads |-> Nothing]
    /\ at = [t \in Auditors |-> 0]
    /\ saved = [t \in Auditors |-> {}]
    /\ complaints = [t \in Auditors |-> {}]
    /\ calls = [t \in Threads |-> 0]
    /\ disturbed = [t \in Threads |-> FALSE]

Auditing == {t \in Auditors : at[t] > 0}

-----------------------------------------------------------------------------
\* factor, path, convert and compare.

Begin(t, r) ==
    /\ request' = [request EXCEPT ![t] = r]
    /\ ends' = [ends EXCEPT ![t] = << >>]
    /\ found' = [found EXCEPT ![t] = << >>]
    /\ queue' = [queue EXCEPT ![t] = << >>]
    /\ answer' = [answer EXCEPT ![t] = Nothing]
    /\ upc' = [upc EXCEPT ![t] = "resolve"]

Ask(t, r) ==
    /\ t \in Callers /\ upc[t] = "idle" /\ calls[t] < MaxCalls
    /\ calls' = [calls EXCEPT ![t] = @ + 1]
    /\ Begin(t, r)
    /\ disturbed' = [disturbed EXCEPT ![t] = Auditing # {}]
    /\ UNCHANGED <<edges, graph, at, saved, complaints>>

Return(t, a) ==
    /\ answer' = [answer EXCEPT ![t] = a]
    /\ upc' = [upc EXCEPT ![t] = IF t \in Auditors THEN "derived" ELSE "idle"]

\* What canonical is called with next, each time on the GRAPH of that moment: factor and path
\* resolve both ends; compare has parsed, hence resolved, both units before.
Lookups(t) == IF request[t].op = "compare" THEN 4 ELSE 2
Lookup(t) ==
    LET k == Len(ends[t])
    IN  IF request[t].op # "compare" THEN IF k = 0 THEN request[t].from ELSE request[t].to
        ELSE IF k < 2 THEN IF k = 0 THEN request[t].to ELSE request[t].from ELSE <<ends[t][4 - k]>>

Here(n) == [acc |-> One, hops |-> <<n>>]

Resolve(t) ==
    LET resolved == Append(ends[t], Canonical(Lookup(t), graph))
        last == Len(resolved) = Lookups(t)
        start == ends[t][Lookups(t) - 1]
    IN  /\ upc[t] = "resolve"
        /\ \/ /\ ~Known(Lookup(t), graph)
              /\ Return(t, Refused("unknown unit"))
              /\ UNCHANGED <<ends, found, queue>>
           \/ /\ Known(Lookup(t), graph) /\ ~last
              /\ ends' = [ends EXCEPT ![t] = resolved]
              /\ UNCHANGED <<found, queue, answer, upc>>
           \/ /\ Known(Lookup(t), graph) /\ last /\ start # Last(resolved)
              /\ ends' = [ends EXCEPT ![t] = resolved]
              /\ found' = [found EXCEPT ![t] = [n \in {start} |-> Here(n)]]
              /\ queue' = [queue EXCEPT ![t] = <<start>>]
              /\ upc' = [upc EXCEPT ![t] = "walk"]
              /\ UNCHANGED answer
           \/ /\ Known(Lookup(t), graph) /\ last /\ start = Last(resolved)
              /\ ends' = [ends EXCEPT ![t] = resolved]
              /\ Return(t, Found(Here(start)))
              /\ UNCHANGED <<found, queue>>
        /\ UNCHANGED <<edges, graph, request, at, saved, complaints, calls, disturbed>>

\* Mutant: the factor of the last hop only.
OnwardOneHop(from, h) == [acc |-> h.f, hops |-> Append(from.hops, h.to)]
Onward(from, h) == [acc |-> Times(from.acc, h.f), hops |-> Append(from.hops, h.to)]

\* Of the edges at the node, the first to each neighbour not seen.
NewFrom(node, seen) ==
    LET fresh == {h \in graph : h.at = node /\ h.to \notin seen}
    IN  {h \in fresh : \A e \in fresh : e.to = h.to => h.place <= e.place}

InOrder(new) ==
    [k \in 1 .. Cardinality(new) |-> (CHOOSE h \in new : Cardinality({e \in new : e.place < h.place}) = k - 1).to]

\* One node of the queue: its list is looked up in GRAPH now, every neighbour not seen is
\* reached over the first edge to it, and the walk stops at the first that is the end.
Walk(t) ==
    LET node == Head(queue[t])
        new == NewFrom(node, DOMAIN found[t])
        next == {h.to : h \in new}
        reached == [n \in DOMAIN found[t] \cup next |->
                      IF n \in DOMAIN found[t] THEN found[t][n]
                      ELSE Onward(found[t][node], CHOOSE h \in new : h.to = n)]
    IN  /\ upc[t] = "walk" /\ queue[t] # << >>
        /\ \/ /\ node \notin Nodes(graph)
              /\ Return(t, KeyError)
              /\ UNCHANGED <<found, queue>>
           \/ /\ node \in Nodes(graph) /\ Last(ends[t]) \in next
              /\ Return(t, Found(reached[Last(ends[t])]))
              /\ UNCHANGED <<found, queue>>
           \/ /\ node \in Nodes(graph) /\ Last(ends[t]) \notin next
              /\ found' = [found EXCEPT ![t] = reached]
              /\ queue' = [queue EXCEPT ![t] = Tail(@) \o InOrder(new)]
              /\ UNCHANGED <<answer, upc>>
        /\ UNCHANGED <<edges, graph, request, ends, at, saved, complaints, calls, disturbed>>

Unconnected(t) ==
    /\ upc[t] = "walk" /\ queue[t] = << >>
    /\ Return(t, Refused("different dimensions"))
    /\ UNCHANGED <<edges, graph, request, ends, found, queue, at, saved, complaints, calls,
                   disturbed>>

\* compare: the right quantity, in the units of the left one, against the left one.
Comparison(r, derived) ==
    LET converted == Times(r.other, derived)
    IN  IF r.value = converted THEN 0 ELSE IF Less(converted, r.value) THEN 1 ELSE -1

-----------------------------------------------------------------------------
\* audit.

Audit(t) ==
    /\ t \in Auditors /\ upc[t] = "idle" /\ calls[t] < MaxCalls
    /\ calls' = [calls EXCEPT ![t] = @ + 1]
    /\ at' = [at EXCEPT ![t] = 1]
    /\ complaints' = [complaints EXCEPT ![t] = {}]
    /\ upc' = [upc EXCEPT ![t] = "save"]
    /\ disturbed' = [u \in Threads |-> u # t \/ Auditing # {}]
    /\ UNCHANGED <<edges, graph, call, saved>>

Save(t) ==
    /\ upc[t] = "save"
    /\ saved' = [saved EXCEPT ![t] = graph]
    /\ upc' = [upc EXCEPT ![t] = "swap"]
    /\ UNCHANGED <<edges, graph, call, at, complaints, calls, disturbed>>

Swap(t) ==
    /\ upc[t] = "swap"
    /\ graph' = Rebuild(Without(at[t]))
    /\ Begin(t, [op |-> "factor", from |-> <<edges[at[t]].a>>, to |-> <<edges[at[t]].b>>])
    /\ UNCHANGED <<edges, at, saved, complaints, calls, disturbed>>

\* Mutant: the finally clause is skipped when there is only one way.
PutBackIfDerived(t) ==
    graph' = IF answer[t].kind = "refused" THEN graph ELSE saved[t]

PutBack(t) == graph' = saved[t]

Disagrees(t) == answer[t].kind = "found" /\ answer[t].value.acc # edges[at[t]].f

\* A Refusal of factor means there is no other way; the finally clause runs in any case, and
\* a KeyError then ends the audit.
Restore(t) ==
    LET more == at[t] < Len(edges) /\ answer[t].kind # "error"
    IN  /\ upc[t] = "derived"
        /\ PutBack(t)
        /\ complaints' = [complaints EXCEPT ![t] = @ \cup (IF Disagrees(t) THEN {at[t]} ELSE {})]
        /\ at' = [at EXCEPT ![t] = IF more THEN @ + 1 ELSE 0]
        /\ upc' = [upc EXCEPT ![t] = IF more THEN "save" ELSE "idle"]
        /\ UNCHANGED <<edges, call, saved, calls, disturbed>>

UnitsStep(t) ==
    \/ Resolve(t) \/ Walk(t) \/ Unconnected(t)
    \/ t \in Auditors /\ (Save(t) \/ Swap(t) \/ Restore(t))

UnitsNext ==
    \E t \in Threads :
        \/ \E r \in Requests : Ask(t, r)
        \/ Audit(t)
        \/ UnitsStep(t)

UnitsFairness == \A t \in Threads : WF_unitsVars(UnitsStep(t))
UnitsSpec == UnitsInit /\ [][UnitsNext]_unitsVars /\ UnitsFairness

-----------------------------------------------------------------------------
\* Every way from a node through a graph that visits no node twice.
Ways(g, start) ==
    LET longer(w) == {[acc |-> Times(w.acc, h.f), hops |-> Append(w.hops, h.to)] :
                        h \in {x \in g : x.at = Last(w.hops) /\ x.to \notin ToSet(w.hops)}}
        ways[k \in 0 .. Cardinality(Nodes(g))] == IF k = 0 THEN {Here(start)} ELSE UNION {longer(w) : w \in ways[k - 1]}
    IN  UNION {ways[k] : k \in DOMAIN ways}

WaysTo(g, start, end) ==
    IF start \in Nodes(g) THEN {w \in Ways(g, start) : Last(w.hops) = end} ELSE {}

Start(t) == ends[t][Len(ends[t]) - 1]
Answered(t) == upc[t] = "idle" /\ answer[t].kind = "found"

\* A conversion that returns at all returns the product along a real path of the table, also
\* when audits exchange the graph under it (factor and path look GRAPH up at every node).
AnswersDerived ==
    \A t \in Callers : Answered(t) => answer[t].value \in WaysTo(Whole, Start(t), Last(ends[t]))

\* A refusal is final knowledge -- there is no path -- unless an audit was under way.
RefusedOnlyBesideAudit ==
    \A t \in Callers :
        upc[t] = "idle" /\ answer[t].kind \in {"refused", "error"} /\ ~disturbed[t] =>
            \/ answer[t].value = "unknown unit" /\ \E n \in {request[t].from, request[t].to} : ~Known(n, Whole)
            \/ answer[t].value = "different dimensions" /\ WaysTo(Whole, Start(t), Last(ends[t])) = {}

\* Left alone, the walk takes the fewest hops ("short enough for a person to check").
FewestHops ==
    \A t \in Callers :
        Answered(t) /\ ~disturbed[t] =>
            \A w \in WaysTo(Whole, Start(t), Last(ends[t])) : Len(answer[t].value.hops) <= Len(w.hops)

\* The table agrees with itself: any two ways between two units give one factor.
Agreeing == \A a \in Nodes(Whole) : \A v, w \in Ways(Whole, a) : Last(v.hops) = Last(w.hops) => v.acc = w.acc

\* compare orders two quantities as their values in any common unit do, whichever unit that
\* is, when the table agrees with itself.
ComparesInAnyUnit ==
    \A t \in Callers :
        Answered(t) /\ request[t].op = "compare" /\ Agreeing =>
            \A l \in Ways(Whole, Last(ends[t])), r \in Ways(Whole, Start(t)) :
                Last(l.hops) = Last(r.hops) =>
                    Comparison(request[t], answer[t].value.acc)
                        = Sign(Minus(Times(request[t].value, l.acc), Times(request[t].other, r.acc)))

\* A conversion beside an audit may be refused, but never answered wrongly; alone it is
\* answered by a shortest way whenever there is one.
ConversionsDerived == AnswersDerived /\ RefusedOnlyBesideAudit /\ FewestHops /\ ComparesInAnyUnit

\* The ways an entry is compared with.
OtherWays(i) == WaysTo(Rebuild(Without(i)), edges[i].a, edges[i].b)

\* An audit that has ended leaves the graph as it was, however it ended (the finally clause).
GraphRestored == Auditing = {} => graph = Whole

\* What an audit complains of is wrong somewhere, and an entry that every other way
\* contradicts is complained of.
ComplaintsExact ==
    \A t \in Auditors :
        calls[t] > 0 /\ at[t] = 0 /\ ~disturbed[t] =>
            \A i \in 1 .. Len(edges) :
                /\ i \in complaints[t] => \E w \in OtherWays(i) : w.acc # edges[i].f
                /\ OtherWays(i) # {} /\ (\A w \in OtherWays(i) : w.acc # edges[i].f) => i \in complaints[t]

\* An audit tells what it should of the table, and leaves no trace in it.
AuditExact == GraphRestored /\ ComplaintsExact

\* "Where two paths connect the same pair, they must give the same factor. audit() walks every
\* such pair and reports the disagreements" (units.py:33).
AuditReportsDisagreement ==
    \A t \in Auditors :
        calls[t] > 0 /\ at[t] = 0 /\ complaints[t] = {} => Agreeing

\* Every call returns, and every audit ends.
CallsReturn == \A t \in Threads : upc[t] # "idle" ~> upc[t] = "idle"
=============================================================================
