----------------------------- MODULE BrickRoute -----------------------------
(***************************************************************************)
(* experiments/loopmem/bricks.py and bricks2.py, route2: conversions are   *)
(* bricks between units.  A brick is lifted into compound types (km/hour ->*)
(* m/hour); a frontier of types grows from the type held until it reaches  *)
(* the type wanted.  A brick with an offset is never lifted.               *)
(***************************************************************************)
EXTENDS Fractions, FiniteSetsExt, Folds

CONSTANTS BrickUnits,
          Bricks,      \* [src, dst, t], t = <<scale, offset>>
          BrickTypes,  \* exponents of the units: the types asked about
          MaxSteps     \* 10 in the code

VARIABLES held, wanted,  \* the types held and wanted
          frontier,      \* types reached in the last step -> transform from the type held
          seen,          \* types reached
          steps,
          roadFound      \* the transform found, or Undecided, or NoRoad

brickVars == <<held, wanted, frontier, seen, steps, roadFound>>

Undecided == <<>>
NoRoad == <<"no route">>
Identity == <<One, Zero>>

\* Apply a, then b.
Compose(a, b) == <<Times(a[1], b[1]), Plus(Times(a[2], b[1]), b[2])>>

Affine(b) == b.t[2] # Zero
TypeOf(u) == [v \in BrickUnits |-> IF v = u THEN 1 ELSE 0]
Simple(dims) == \E u \in BrickUnits : dims = TypeOf(u)

\* Mutant: a unit below the line is exchanged at the rate of one above it.
LiftedUpright(b, dims) ==
    LET sgn == IF dims[b.src] > 0 THEN 1 ELSE -1
    IN  [dims |-> [dims EXCEPT ![b.src] = @ - sgn, ![b.dst] = @ + sgn], t |-> <<b.t[1], Zero>>]

\* lift: one unit of the type is exchanged.
Lifted(b, dims) ==
    LET sgn == IF dims[b.src] > 0 THEN 1 ELSE -1
    IN  [dims |-> [dims EXCEPT ![b.src] = @ - sgn, ![b.dst] = @ + sgn],
         t |-> <<IF sgn = 1 THEN b.t[1] ELSE Inv(b.t[1]), Zero>>]

Applies(b, dims) == IF Affine(b) THEN dims = TypeOf(b.src) ELSE dims[b.src] # 0

Stepped(b, dims) == IF Affine(b) THEN [dims |-> TypeOf(b.dst), t |-> b.t] ELSE Lifted(b, dims)

\* The types one brick away that were not reached before.  The code keeps the transform it finds
\* last; which one is that, RouteExact shows not to matter.
StepsOn == {[dims |-> Stepped(b, d).dims, t |-> Compose(frontier[d], Stepped(b, d).t)] :
            <<d, b>> \in {p \in (DOMAIN frontier) \X Bricks : Applies(p[2], p[1])}}
New == {w \in StepsOn : w.dims \notin seen}
NewTypes == {w.dims : w \in New}
Reached == [d \in NewTypes |-> (CHOOSE w \in New : w.dims = d).t]

\* Where nothing new is reached: only a type asked for from itself can still be on the frontier.
LastHeld == IF wanted \in DOMAIN frontier THEN frontier[wanted] ELSE NoRoad

BrickInit ==
    /\ held \in BrickTypes /\ wanted \in BrickTypes
    /\ frontier = [d \in {held} |-> Identity]
    /\ seen = {held} /\ steps = 0 /\ roadFound = Undecided

Expand ==
    /\ roadFound = Undecided /\ steps < MaxSteps
    /\ steps' = steps + 1
    /\ \/ wanted \in NewTypes /\ roadFound' = Reached[wanted] /\ UNCHANGED <<frontier, seen>>
       \/ NewTypes = {} /\ roadFound' = LastHeld /\ UNCHANGED <<frontier, seen>>
       \/ /\ wanted \notin NewTypes /\ NewTypes # {}
          /\ frontier' = Reached /\ seen' = seen \cup NewTypes
          /\ roadFound' = IF steps + 1 = MaxSteps THEN NoRoad ELSE Undecided
    /\ UNCHANGED <<held, wanted>>

BrickSpec == BrickInit /\ [][Expand]_brickVars

-----------------------------------------------------------------------------
\* Correctness, against what one of each unit is in a base unit of its dimension.

CONSTANTS Dim,   \* unit -> dimension
          Base   \* unit -> <<scale, offset>>: v of it are v * scale + offset of the base

SizeOf(dims) == MapThenFoldSet(Times, One, LAMBDA u : Pow(Base[u][1], dims[u]),
                             LAMBDA S : CHOOSE u \in S : TRUE, BrickUnits)

UnitOf(dims) == CHOOSE u \in BrickUnits : dims = TypeOf(u)

InverseOf(t) == <<Inv(t[1]), Neg(Over(t[2], t[1]))>>

Converts(dims, t) ==
    IF Simple(held) /\ Simple(dims)
    THEN t = Compose(Base[UnitOf(held)], InverseOf(Base[UnitOf(dims)]))
    ELSE t = <<Over(SizeOf(held), SizeOf(dims)), Zero>>

\* For route2: whatever road led to a type, lifted or not, its transform is the true conversion:
\* every two roads to a type agree, and an offset is never carried into a rate (bricks2.py:6-11).
RouteExact == \A w \in New : Converts(w.dims, w.t)

\* What stands above and below the line, dimension by dimension.
Above(dims, k) == {u \in BrickUnits : Dim[u] = k /\ dims[u] > 0}
Below(dims, k) == {u \in BrickUnits : Dim[u] = k /\ dims[u] < 0}
TotalExponent(S, dims) == MapThenSumSet(LAMBDA u : dims[u], S)
Shape(dims) == [k \in {Dim[u] : u \in BrickUnits} |->
                   <<TotalExponent(Above(dims, k), dims), TotalExponent(Below(dims, k), dims)>>]

Warm(u) == \E b \in Bricks : Affine(b) /\ b.src = u
Convertible ==
    /\ Shape(held) = Shape(wanted)
    /\ Simple(held) \/ \A u \in BrickUnits : Warm(u) => held[u] = wanted[u]

\* A road is found exactly where there is a conversion: two types with as much of every dimension
\* above and below the line, and inside a rate the same temperatures (bricks.py:4-9, bricks2.py:8-12).
\* A type asked for from itself is seen before it is reached: the code finds no road, unless no brick applies.
RoadIffConvertible == held # wanted /\ roadFound # Undecided => (roadFound # NoRoad <=> Convertible)

\* The facts "cover unbounded compound space" (bricks.py:61-62): what can be converted is.
CoversCompounds == held # wanted /\ roadFound = NoRoad => ~Convertible

\* route2 finds the true conversion, and finds one where there is one.
RoutesSound == RouteExact /\ RoadIffConvertible
=============================================================================
