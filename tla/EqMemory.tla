------------------------------ MODULE EqMemory ------------------------------
(***************************************************************************)
(* experiments/loopmem/eqbricks.py: a linear equation p*x + q = r*x + s is *)
(* the state <<p, q, r, s>>; moves change both sides; it is solved when the*)
(* state is <<1, 0, 0, x>>.  experiments/loopmem/eqmemory.py: a memory of  *)
(* solved equations.  A road found by search is stored under a prefix of   *)
(* its equation's signature and serves every equation whose signature      *)
(* begins so.  A road that fails, or that an audit finds too dear, splits  *)
(* its key; where the signature cannot tell two equations apart, the memory*)
(* adds a bit to it.                                                       *)
(***************************************************************************)
EXTENDS Fractions, FiniteSets

CONSTANTS Equations,
          MaxSolves   \* equations of a run

\* An equation is four fractions, and has one solution.
ASSUME EquationsAssumption ==
    \A st \in Equations : /\ st = <<st[1], st[2], st[3], st[4]>> /\ st[1] # st[3]
                          /\ \A i \in 1 .. 4 : InLowestTerms(st[i])

VARIABLES store,     \* prefix of a signature -> [road, ex]
          minted,    \* names of the bits added
          counts,    \* what run_stream counts
          lastAnswer       \* history: the equation answered last and the state its road led to

memVars == <<store, minted, counts, lastAnswer>>

-----------------------------------------------------------------------------
\* The moves.

SolveDirect(st) == Over(Minus(st[4], st[2]), Minus(st[1], st[3]))
Solved(x) == <<One, Zero, Zero, x>>

ScaledBy(st, k) == [i \in 1 .. 4 |-> Times(st[i], k)]

NoParameter == Zero   \* the parameter of a move that has none

ApplyMove(st, mv) ==
    CASE mv[1] = "add"   -> <<st[1], Plus(st[2], mv[2]), st[3], Plus(st[4], mv[2])>>
      [] mv[1] = "mul"   -> ScaledBy(st, mv[2])
      [] mv[1] = "movex" -> <<Minus(st[1], st[3]), st[2], Zero, st[4]>>
      [] mv[1] = "movec" -> <<st[1], Zero, st[3], Minus(st[4], st[2])>>

\* The states after each move of a road.
StatesAlong(st, road) ==
    LET here[i \in 0 .. Len(road)] == IF i = 0 THEN st ELSE ApplyMove(here[i - 1], road[i])
    IN  here

Largest(S) == CHOOSE m \in S : \A n \in S : n <= m
ResidueOf(st) == Largest({Den(st[i]) : i \in 1 .. 4})

Lcm2(m, n) == (m * n) \div Gcd(m, n)
LcmOf(st) == Lcm2(Lcm2(Den(st[1]), Den(st[2])), Lcm2(Den(st[3]), Den(st[4])))

-----------------------------------------------------------------------------
\* strategy_road: one road for each order of the first step.

Orders == {"clear_first", "divide_early", "plain"}

Normalise(st) == IF st[1] \in {Zero, One} THEN << >> ELSE <<<<"mul", Inv(st[1])>>>>

FirstStep(st, order) ==
    CASE order = "clear_first"  -> IF LcmOf(st) = 1 THEN << >> ELSE <<<<"mul", Int2F(LcmOf(st))>>>>
      [] order = "divide_early" -> Normalise(st)
      [] order = "plain"        -> << >>

\* Gather x, gather the constants, normalise.
CommonFinish(st) ==
    LET x == IF st[3] # Zero THEN <<<<"movex", NoParameter>>>> ELSE << >>
        c == IF st[2] # Zero THEN <<<<"movec", NoParameter>>>> ELSE << >>
        gathered == StatesAlong(st, x \o c)[Len(x \o c)]
    IN  x \o c \o Normalise(gathered)

StrategyRoad(st, order) ==
    LET first == FirstStep(st, order)
    IN  first \o CommonFinish(StatesAlong(st, first)[Len(first)])

-----------------------------------------------------------------------------
\* Roads of the memory.

MacroOps == {"CLEAR", "MOVEX", "MOVEC", "DIV"}
NoMove == <<"none", Zero>>

\* An op reads its parameter off the state and has no move where it does not apply.
OpMove(op, st) ==
    CASE op = "CLEAR" -> IF LcmOf(st) > 1 THEN <<"mul", Int2F(LcmOf(st))>> ELSE NoMove
      [] op = "MOVEX" -> IF st[3] # Zero THEN <<"movex", NoParameter>> ELSE NoMove
      [] op = "MOVEC" -> IF st[2] # Zero THEN <<"movec", NoParameter>> ELSE NoMove
      [] op = "DIV"   -> IF st[1] \in {Zero, One} THEN NoMove ELSE <<"mul", Inv(st[1])>>

\* walk: where a road leads, and its price: the largest denominator after each move, summed.
AfterMove(cur, next) == [st |-> next, price |-> cur.price + ResidueOf(next)]
Move(cur, mv) == IF mv = NoMove THEN cur ELSE AfterMove(cur, ApplyMove(cur.st, mv))
WalkRoad(st, road) ==
    LET here[i \in 0 .. Len(road)] ==
            IF i = 0 THEN [st |-> st, price |-> 0]
            ELSE Move(here[i - 1], OpMove(road[i], here[i - 1].st))
    IN  here[Len(road)]

Goal(st) == Solved(SolveDirect(st))

\* search: of the orders of some of the ops that land, the cheapest; then the shortest; then the
\* first in the order of the names.
OpRoads ==
    {r \in UNION {[1 .. n -> MacroOps] : n \in 0 .. 4} : \A i, j \in DOMAIN r : r[i] = r[j] => i = j}

Rank(op) == CASE op = "CLEAR" -> 1 [] op = "DIV" -> 2 [] op = "MOVEC" -> 3 [] op = "MOVEX" -> 4

NamedBefore(a, b) ==
    \E i \in DOMAIN a : a[i] # b[i] /\ Rank(a[i]) < Rank(b[i]) /\ \A j \in 1 .. i - 1 : a[j] = b[j]

Landing(st, out) == {r \in OpRoads : out[r].st = Goal(st)}
Cheapest(S, out) == {r \in S : \A o \in S : out[r].price <= out[o].price}
Shortest(S) == {r \in S : \A o \in S : Len(r) <= Len(o)}
FirstNamed(S) == CHOOSE r \in S : \A o \in S : r = o \/ NamedBefore(r, o)
Priced(road, out) == [road |-> road, price |-> out[road].price]
BestOf(st, out) == Priced(FirstNamed(Shortest(Cheapest(Landing(st, out), out))), out)
SearchIn(st) == BestOf(st, [r \in OpRoads |-> WalkRoad(st, r)])

Search == [st \in Equations |-> SearchIn(st)]

-----------------------------------------------------------------------------
\* Signatures, and the bits that can be added to them.

Library == <<"lead_one", "lcm_two", "q_whole", "s_whole">>

BitHolds(name, st) ==
    CASE name = "lead_one" -> Minus(st[1], st[3]) = One
      [] name = "lcm_two"  -> LcmOf(st) = 2
      [] name = "q_whole"  -> IsWhole(st[2])
      [] name = "s_whole"  -> IsWhole(st[4])

\* Mutant: minted bits come first.
SigBitsFirst(st, bits) ==
    [i \in DOMAIN bits |-> BitHolds(bits[i], st)]
    \o <<LcmOf(st) > 1, st[3] # Zero, st[2] # Zero,
         Times(Minus(st[1], st[3]), Int2F(LcmOf(st))) # One>>

Sig(st, bits) ==
    <<LcmOf(st) > 1, st[3] # Zero, st[2] # Zero,
      Times(Minus(st[1], st[3]), Int2F(LcmOf(st))) # One>>
    \o [i \in DOMAIN bits |-> BitHolds(bits[i], st)]

Prefix(s, d) == SubSeq(s, 1, d)
Begins(key, s) == Len(key) <= Len(s) /\ Prefix(s, Len(key)) = key

\* lookup: the keys that serve a signature; the code takes the first, there is one at most.
Matching(s) == {key \in DOMAIN store : Begins(key, s)}

NewEntry(st) == [road |-> Search[st].road, ex |-> st]

Put(f, key, e) == [k \in DOMAIN f \cup {key} |-> IF k = key THEN e ELSE f[k]]

\* store_at: the shortest prefix that no key extends.
StoredAt(s) ==
    LET Taken(d) == \E k \in DOMAIN store : Len(k) > d /\ Prefix(k, d) = Prefix(s, d)
    IN  Prefix(s, CHOOSE d \in 0 .. Len(s) : ~Taken(d) /\ \A e \in 0 .. d - 1 : Taken(e))

-----------------------------------------------------------------------------
\* refine: the entry at key is set apart from st.

AgreeTo(s, t, d) == Prefix(s, d) = Prefix(t, d)

\* The first depth below the key where the two signatures differ, 0 if there is none.
SplitDepth(key, s, t) ==
    IF \E d \in Len(key) + 1 .. Len(s) : ~AgreeTo(s, t, d)
    THEN CHOOSE d \in Len(key) + 1 .. Len(s) : ~AgreeTo(s, t, d) /\ AgreeTo(s, t, d - 1)
    ELSE 0

\* The bit minted: the first of the library, not minted yet, that tells the two apart.
ToMint(old, st) ==
    LET new == {i \in DOMAIN Library : /\ Library[i] \notin {minted[j] : j \in DOMAIN minted}
                                       /\ BitHolds(Library[i], old) # BitHolds(Library[i], st)}
    IN  IF new = {} THEN << >> ELSE <<Library[CHOOSE i \in new : \A j \in new : i <= j]>>

Split(key, st, bits, d) ==
    LET old == store[key]
        rest == [k \in DOMAIN store \ {key} |-> store[k]]
    IN  Put(Put(rest, Prefix(Sig(old.ex, bits), d), old), Prefix(Sig(st, bits), d), NewEntry(st))

RefineVerdict(key, st) ==
    LET d == SplitDepth(key, Sig(store[key].ex, minted), Sig(st, minted))
    IN  IF d # 0 THEN (IF d > 4 THEN "minted" ELSE "split")
        ELSE IF ToMint(store[key].ex, st) = << >> THEN "near-tie" ELSE "minted"

Refine(key, st) ==
    LET old == store[key].ex
        d == SplitDepth(key, Sig(old, minted), Sig(st, minted))
        bits == minted \o ToMint(old, st)
    IN  IF d # 0 THEN store' = Split(key, st, minted, d) /\ UNCHANGED minted
        ELSE IF ToMint(old, st) = << >> THEN UNCHANGED <<store, minted>>
        ELSE store' = Split(key, st, bits, Len(Sig(st, bits))) /\ minted' = bits

-----------------------------------------------------------------------------
\* run_stream: one equation.

MemInit ==
    /\ store = << >> /\ minted = << >> /\ lastAnswer = << >>
    /\ counts = [solves |-> 0, miss |-> 0, hard |-> 0, soft |-> 0, mints |-> 0, ties |-> 0,
                 hardTies |-> 0]

Delivers(st, road) == lastAnswer' = [st |-> st, fin |-> WalkRoad(st, road).st]

Miss(st) ==
    /\ Matching(Sig(st, minted)) = {}
    /\ store' = Put(store, StoredAt(Sig(st, minted)), NewEntry(st))
    /\ counts' = [counts EXCEPT !.solves = @ + 1, !.miss = @ + 1]
    /\ Delivers(st, Search[st].road)
    /\ UNCHANGED minted

\* A road that does not land is caught before the answer is given.
Hard(st, key) ==
    /\ WalkRoad(st, store[key].road).st # Goal(st)
    /\ Refine(key, st)
    /\ counts' = [counts EXCEPT !.solves = @ + 1, !.hard = @ + 1,
                                !.hardTies = IF RefineVerdict(key, st) = "near-tie" THEN @ + 1 ELSE @]
    /\ Delivers(st, Search[st].road)

Lands(st, key) == WalkRoad(st, store[key].road).st = Goal(st)
Dear(st, key) == Search[st].price < WalkRoad(st, store[key].road).price

\* Served from the store: not audited, or audited and the price was right.
Served(st, key) ==
    /\ Lands(st, key)
    /\ counts' = [counts EXCEPT !.solves = @ + 1]
    /\ Delivers(st, store[key].road)
    /\ UNCHANGED <<store, minted>>

\* Served, and the audit finds a cheaper road.
Soft(st, key) ==
    /\ Lands(st, key) /\ Dear(st, key)
    /\ Refine(key, st)
    /\ counts' = [counts EXCEPT !.solves = @ + 1, !.soft = @ + 1,
                                !.mints = IF RefineVerdict(key, st) = "minted" THEN @ + 1 ELSE @,
                                !.ties = IF RefineVerdict(key, st) = "near-tie" THEN @ + 1 ELSE @]
    /\ Delivers(st, store[key].road)

MemNext ==
    /\ counts.solves < MaxSolves
    /\ \E st \in Equations :
        \/ Miss(st)
        \/ \E key \in Matching(Sig(st, minted)) : Hard(st, key) \/ Served(st, key) \/ Soft(st, key)

MemSpec == MemInit /\ [][MemNext]_memVars

-----------------------------------------------------------------------------
\* Correctness.

\* All three orders end in the same solved equation (eqbricks.py:12-14); and when the
\* denominators are cleared first no step but the last leaves one behind (eqbricks.py:16-18).
RoadsLand ==
    lastAnswer # << >> =>
        \A order \in Orders :
            LET road == StrategyRoad(lastAnswer.st, order)
                here == StatesAlong(lastAnswer.st, road)
            IN  /\ here[Len(road)] = Goal(lastAnswer.st)
                /\ order = "clear_first" => \A i \in 1 .. Len(road) - 1 : ResidueOf(here[i]) = 1

\* Every answer is exact, whatever road the memory offered (eqmemory.py:28-29).
AnswersExact == lastAnswer # << >> => lastAnswer.fin = Goal(lastAnswer.st)

\* No key begins another, so at most one serves an equation (eqmemory.py:108).
PrefixFree == \A k, l \in DOMAIN store : Begins(k, l) => k = l

\* What was learnt stays learnt: the equation an entry was made from is served by that entry, at
\* the best price there is, however the signature grew and the keys were split since
\* (eqmemory.py:22-25, 121-123).
LearntStays ==
    \A k \in DOMAIN store :
        /\ Matching(Sig(store[k].ex, minted)) = {k}
        /\ WalkRoad(store[k].ex, store[k].road).price = Search[store[k].ex].price

\* The store deepens only where the world pushed back: one key for every miss and for every split,
\* and none is lost (eqmemory.py:278-279).
OneKeyEach ==
    Cardinality(DOMAIN store) =
        counts.miss + counts.hard + counts.soft - counts.ties - counts.hardTies

\* A road that fails is searched again and the store is split (eqmemory.py:29).  It is not where
\* nothing tells the two equations apart: run_stream takes no notice of a near-tie here
\* (eqmemory.py:170-175), and searches again whenever such an equation comes.
FailuresSplit == counts.hardTies = 0

\* A near-tie is a true one: no predicate separates the two equations, minted or not, of the whole
\* library (eqmemory.py:140).
TiesTrue ==
    counts'.ties + counts'.hardTies # counts.ties + counts.hardTies =>
        \E key \in DOMAIN store : Sig(store[key].ex, Library) = Sig(lastAnswer'.st, Library)

\* Of the audits that changed the store, those counted as mints added a bit (eqmemory.py:272-273).
MintsCounted == counts.mints <= Len(minted)

\* However splits, added bits and audits follow each other, answers stay exact and what was
\* learnt is found again.
MemorySound == RoadsLand /\ AnswersExact /\ PrefixFree /\ LearntStays /\ OneKeyEach
=============================================================================
