----------------------------- MODULE IslandRoute -----------------------------
(***************************************************************************)
(* experiments/loopmem/islands.py, route: from the types a problem holds   *)
(* to the type it asks for, by the machines that turn one into another.    *)
(* Two rims, one from each end, the smaller expanding, until they meet.    *)
(***************************************************************************)
EXTENDS Integers, Sequences, FiniteSets, SequencesExt

CONSTANTS Haves,     \* the lists of types held that are asked about
          MaxRounds  \* 6 in the code

VARIABLES have, sought,
          fwd,     \* type -> machines that lead to it from what is held
          bwd,     \* type -> machines that lead from it to the type wanted, last first
          rounds,
          roadOutcome

routeVars == <<have, sought, fwd, bwd, rounds, roadOutcome>>

\* SOLVER_TYPES, in its order; of machines that eat and leave the same the first stands for all.
SolverTypes == <<
    [name |-> "search", eats |-> <<"range">>, leaves |-> "count"],
    [name |-> "factor", eats |-> <<"integer">>, leaves |-> "count"],
    [name |-> "strcount", eats |-> <<"word">>, leaves |-> "count"],
    [name |-> "datetime", eats |-> <<"date", "date">>, leaves |-> "count"],
    [name |-> "statistics", eats |-> <<"list">>, leaves |-> "amount"],
    [name |-> "finance", eats |-> <<"amount">>, leaves |-> "amount"],
    [name |-> "iterate", eats |-> <<"amount">>, leaves |-> "fraction"],
    [name |-> "probability", eats |-> <<"range">>, leaves |-> "fraction"],
    [name |-> "approx", eats |-> <<"fraction">>, leaves |-> "fraction"],
    [name |-> "sequence", eats |-> <<"list">>, leaves |-> "integer"],
    [name |-> "equation", eats |-> <<"equation">>, leaves |-> "fraction"],
    [name |-> "linear_system", eats |-> <<"equation">>, leaves |-> "amount"],
    [name |-> "matrix", eats |-> <<"matrix">>, leaves |-> "amount"],
    [name |-> "basearith", eats |-> <<"digit_string">>, leaves |-> "digit_string"],
    [name |-> "roman", eats |-> <<"integer">>, leaves |-> "digit_string"],
    [name |-> "checksum", eats |-> <<"digit_string">>, leaves |-> "count"],
    [name |-> "modular", eats |-> <<"integer">>, leaves |-> "integer"],
    [name |-> "inclusion_exclusion", eats |-> <<"list">>, leaves |-> "count"],
    [name |-> "ratio_split", eats |-> <<"amount">>, leaves |-> "list"]>>

\* The types, in the order of their names.
TypesByName == <<"amount", "count", "date", "digit_string", "equation", "fraction", "integer", "list",
                 "matrix", "range", "word">>
IslandTypes == ToSet(TypesByName)

Widens == {<<"count", "integer">>, <<"integer", "amount">>, <<"count", "amount">>,
           <<"fraction", "amount">>, <<"digit_string", "integer">>}

Widen(t) == {w[2] : w \in {x \in Widens : x[1] = t}} \cup {t}

NotFoundYet == [kind |-> "open", road |-> <<>>]
NoRoute == [kind |-> "no route", road |-> <<>>]

Held(S) == UNION {Widen(t) : t \in S}

RouteInit ==
    /\ have \in Haves /\ sought \in IslandTypes
    /\ fwd = [t \in Held(ToSet(have)) |-> <<>>]
    /\ bwd = [t \in {sought} |-> <<>>]
    /\ rounds = 0 /\ roadOutcome = NotFoundYet

First(S) == CHOOSE i \in S : \A j \in S : i <= j

Longest(roads) == CHOOSE r \in roads : \A q \in roads : Len(q) <= Len(r)

\* The machines of one round, and the types they reach: of several the first of the table.
OnwardBy == {i \in DOMAIN SolverTypes : ToSet(SolverTypes[i].eats) \subseteq DOMAIN fwd /\ SolverTypes[i].leaves \notin DOMAIN fwd}
Ahead == [t \in UNION {Widen(SolverTypes[i].leaves) : i \in OnwardBy} |->
             LET i == First({k \in OnwardBy : t \in Widen(SolverTypes[k].leaves)})
             IN  Append(Longest({fwd[c] : c \in ToSet(SolverTypes[i].eats)}), SolverTypes[i].name)]

Homeward == {i \in DOMAIN SolverTypes : SolverTypes[i].leaves \in DOMAIN bwd /\ ~(ToSet(SolverTypes[i].eats) \subseteq DOMAIN bwd)}
Behind == [t \in UNION {ToSet(SolverTypes[i].eats) : i \in Homeward} |->
              LET i == First({k \in Homeward : t \in ToSet(SolverTypes[k].eats)})
              IN  Append(bwd[SolverTypes[i].leaves], SolverTypes[i].name)]

\* side.update: what is new replaces what the rim had.
Updated(rim, new) == [t \in DOMAIN rim \cup DOMAIN new |-> IF t \in DOMAIN new THEN new[t] ELSE rim[t]]

JoinedRoad(t) == fwd[t] \o Reverse(bwd[t])

Met == DOMAIN fwd \cap DOMAIN bwd
Searching == roadOutcome = NotFoundYet /\ rounds < MaxRounds

MeetingPoint == TypesByName[First({i \in DOMAIN TypesByName : TypesByName[i] \in Met})]

Meet ==
    /\ Searching /\ Met # {}
    /\ roadOutcome' = [kind |-> "found", road |-> JoinedRoad(MeetingPoint)]
    /\ UNCHANGED <<have, sought, fwd, bwd, rounds>>

GivesUp(new) == new = <<>> \/ rounds + 1 = MaxRounds

GrowsForward == Cardinality(DOMAIN fwd) <= Cardinality(DOMAIN bwd)

Forward ==
    /\ Searching /\ Met = {} /\ GrowsForward
    /\ fwd' = Updated(fwd, Ahead)
    /\ rounds' = rounds + 1
    /\ roadOutcome' = IF GivesUp(Ahead) THEN NoRoute ELSE NotFoundYet
    /\ UNCHANGED <<have, sought, bwd>>

Backward ==
    /\ Searching /\ Met = {} /\ ~GrowsForward
    /\ bwd' = Updated(bwd, Behind)
    /\ rounds' = rounds + 1
    /\ roadOutcome' = IF GivesUp(Behind) THEN NoRoute ELSE NotFoundYet
    /\ UNCHANGED <<have, sought, fwd>>

RouteNext == Meet \/ Forward \/ Backward

RouteSpec == RouteInit /\ [][RouteNext]_routeVars

-----------------------------------------------------------------------------
RoadIsFound == roadOutcome.kind = "found"
Road == roadOutcome.road
SolverNamed(name) == CHOOSE i \in DOMAIN SolverTypes : SolverTypes[i].name = name

\* What is held after each machine of the road, if each finds what it eats.
RideFrom(S, road) ==
    LET h[k \in 0 .. Len(road)] == IF k = 0 THEN S ELSE h[k - 1] \cup Widen(SolverTypes[SolverNamed(road[k])].leaves)
    IN  h

\* A road that is found can be driven: every machine finds what it eats among what is held or what
\* the machines before it left, and at the end the type asked for is there (islands.py:21-24).
RoadDelivers ==
    RoadIsFound => LET h == RideFrom(Held(ToSet(have)), Road)
             IN  /\ \A k \in DOMAIN Road : ToSet(SolverTypes[SolverNamed(Road[k])].eats) \subseteq h[k - 1]
                 /\ sought \in h[Len(Road)]

\* Everything the machines can make of what is held.
Reach ==
    LET step(S) == S \cup UNION {Widen(SolverTypes[i].leaves) : i \in {k \in DOMAIN SolverTypes : ToSet(SolverTypes[k].eats) \subseteq S}}
        r[k \in 0 .. Cardinality(IslandTypes)] == IF k = 0 THEN Held(ToSet(have)) ELSE step(r[k - 1])
    IN  r[Cardinality(IslandTypes)]

\* Neither the end of one rim nor the limit of rounds hides a road: no route is said only of a type
\* that no machines lead to.
NoRouteNone == roadOutcome = NoRoute => sought \notin Reach

\* How often a list has a type.
TimesIn(t, s) == Cardinality({i \in DOMAIN s : s[i] = t})

\* "each island consumed once" (islands.py:23-24): of a type that no machine leaves, a road eats no more
\* than is held.
RawTypes == {t \in IslandTypes : \A i \in DOMAIN SolverTypes : t \notin Widen(SolverTypes[i].leaves)}
Eaten(t) == LET e[k \in 0 .. Len(Road)] == IF k = 0 THEN 0 ELSE e[k - 1] + TimesIn(t, SolverTypes[SolverNamed(Road[k])].eats)
            IN  e[Len(Road)]

EachConsumedOnce == \A t \in RawTypes : Eaten(t) <= TimesIn(t, have)

\* What route finds can be driven, and what it does not find is not there.
RoadsRight == RoadDelivers /\ NoRouteNone
=============================================================================
