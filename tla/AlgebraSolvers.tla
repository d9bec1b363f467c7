--------------------------- MODULE AlgebraSolvers ---------------------------
(***************************************************************************)
(* The algebra of mpeqs: linear_system and quadratic (solvers.py),         *)
(* polynomial and geometry (solvers2.py), matrix and equation              *)
(* (solvers3.py), solve_linear and solve_quadratic of calculus.py.  All    *)
(* numbers are fractions; a matrix is a sequence of rows, a polynomial the *)
(* sequence of its coefficients, the highest first.                        *)
(***************************************************************************)
EXTENDS NumberSolvers

CONSTANT AreaDigits   \* 10^6 in the code: one over the grain of a triangle's area

Order(m) == Len(m)
IsSquareMatrix(m) == \A i \in DOMAIN m : Len(m[i]) = Order(m)
Dot(u, v) == SumF([i \in DOMAIN u |-> Times(u[i], v[i])])
Column(m, j) == [i \in DOMAIN m |-> m[i][j]]
Unit(n) == [i \in 1 .. n |-> [j \in 1 .. n |-> IF i = j THEN One ELSE Zero]]
Swapped(m, i, j) == [m EXCEPT ![i] = m[j], ![j] = m[i]]
Pivots(m, c) == {r \in c .. Order(m) : m[r][c] # Zero}
Beside(m, columns) == [i \in DOMAIN m |-> m[i] \o columns[i]]

\* One column of elimination: the first usable row moves up, is scaled to one and taken from
\* the others in `from': all for a solution, those below for a determinant.
Eliminated(m, c, from) ==
    LET s == Swapped(m, c, Min(Pivots(m, c)))
        row == [k \in DOMAIN s[c] |-> Over(s[c][k], s[c][c])]
    IN  [r \in DOMAIN s |-> IF r = c THEN row
             ELSE IF r \notin from THEN s[r]
             ELSE [k \in DOMAIN row |-> Minus(s[r][k], Times(s[r][c], row[k]))]]

Cleared(m, c) == Eliminated(m, c, DOMAIN m)
ClearedBelow(m, c) == Eliminated(m, c, c + 1 .. Order(m))

RECURSIVE Reduced(_, _)
Reduced(m, c) ==
    IF c > Order(m) THEN Ok(m) ELSE IF Pivots(m, c) = {} THEN Refusal ELSE Reduced(Cleared(m, c), c + 1)

SolveLinearSystem(spec) ==
    LET n == Len(spec.rows)
        r == Reduced(Beside(spec.rows, [i \in 1 .. n |-> <<spec.rhs[i]>>]), 1)
        sol == Column(r.value, n + 1)
    IN  IF ~IsSquareMatrix(spec.rows) \/ Len(spec.rhs) # n THEN Refusal
        ELSE IF ~r.ok THEN Refusal
        ELSE IF \E i \in 1 .. n : Dot(spec.rows[i], sol) # spec.rhs[i] THEN Refusal
        ELSE Ok(sol)

-----------------------------------------------------------------------------
\* Roots.

HasRoot(v) == Num(v) >= 0 /\ IsSquare(Num(v)) /\ IsSquare(Den(v))
Root(v) == <<ISqrt(Num(v)), ISqrt(Den(v))>>
Discriminant(a, b, c) == Minus(Times(b, b), Times(Int2F(4), Times(a, c)))
Roots(a, b, c) ==
    LET s == Root(Discriminant(a, b, c))
        twice == Times(Int2F(2), a)
    IN  <<Over(Plus(Neg(b), s), twice), Over(Minus(Neg(b), s), twice)>>

SolveQuadratic(spec) ==
    LET a == spec.a  b == spec.b  c == spec.c
        d == Discriminant(a, b, c)
    IN  IF a = Zero
        THEN IF b = Zero THEN Refusal ELSE Ok([kind |-> "linear", roots |-> <<Neg(Over(c, b))>>])
        ELSE IF Num(d) < 0 THEN Ok([kind |-> "no real roots", roots |-> << >>])
        ELSE IF HasRoot(d) THEN Ok([kind |-> "rational", roots |-> Roots(a, b, c)])
        ELSE Ok([kind |-> "surd", roots |-> << >>])

\* calculus.py: refuses where the other is content with a kind, and sorts the two.
CalculusQuadratic(spec) ==
    LET rs == Roots(spec.a, spec.b, spec.c)
    IN  IF spec.a = Zero \/ ~HasRoot(Discriminant(spec.a, spec.b, spec.c)) THEN Refusal
        ELSE Ok(IF Less(rs[1], rs[2]) THEN <<rs[2], rs[1]>> ELSE rs)
CalculusLinear(spec) == IF spec.a = Zero THEN Refusal ELSE Ok(Neg(Over(spec.b, spec.a)))

\* polynomial: leading zeros are dropped; candidates are the quotients of a divisor of the
\* lowest coefficient that is not zero and a divisor of the highest, with either sign.
PolyValue(cs, x) == FoldLeft(LAMBDA v, c : Plus(Times(v, x), c), Zero, cs)

RECURSIVE Trimmed(_)
Trimmed(cs) == IF cs # << >> /\ Head(cs) = Zero THEN Trimmed(Tail(cs)) ELSE cs

Candidates(low, high) ==
    {Frac(s * p, q) : p \in DivisorsOf(Abs(low)), q \in DivisorsOf(Abs(high)), s \in {1, -1}}

SolvePolynomial(spec) ==
    LET cs == Trimmed(spec.coefficients)
        n == Len(cs) - 1
        den == FoldLeft(LAMBDA l, c : (l \div Gcd(l, Den(c))) * Den(c), 1, cs)
        ints == [i \in DOMAIN cs |-> Num(Times(cs[i], Int2F(den)))]
        last == Max({i \in DOMAIN ints : ints[i] # 0})
    IN  IF Len(cs) < 2 THEN Refusal
        ELSE IF Has(spec, "at") THEN Ok(PolyValue(cs, spec.at))
        ELSE Ok([roots |-> (IF last < Len(ints) THEN {Zero} ELSE {})
                              \cup {r \in Candidates(ints[last], ints[1]) : PolyValue(cs, r) = Zero},
                 sum_of_roots |-> Neg(Over(cs[2], cs[1])),
                 product_of_roots |-> Times(Int2F(IF n % 2 = 0 THEN 1 ELSE -1), Over(Last(cs), cs[1]))])

\* equation: the terms of each side, [x |-> with the variable or not, c |-> coefficient],
\* are added up; a side is <<coefficient of x, constant>>.
Side(terms) ==
    LET sum(with) == SumF([i \in DOMAIN terms |-> IF terms[i].x = with THEN terms[i].c ELSE Zero])
    IN  <<sum(TRUE), sum(FALSE)>>

SolveEquation(spec) ==
    LET l == Side(spec.left)  r == Side(spec.right)
    IN  IF l[1] = r[1] THEN Refusal ELSE Ok(Over(Minus(r[2], l[2]), Minus(l[1], r[1])))

-----------------------------------------------------------------------------
\* matrix.

MatMul(a, b) == [i \in DOMAIN a |-> [j \in DOMAIN b[1] |-> Dot(a[i], Column(b, j))]]

\* The pivots' product, with a sign for every exchange, by elimination downwards.
DetStep(m, c) ==
    LET piv == Min(Pivots(m, c)) IN IF piv = c THEN m[c][c] ELSE Neg(m[piv][c])

RECURSIVE Det(_, _)
Det(m, c) ==
    IF c > Order(m) THEN One
    ELSE IF Pivots(m, c) = {} THEN Zero
    ELSE Times(DetStep(m, c), Det(ClearedBelow(m, c), c + 1))

RECURSIVE MatPow(_, _)
MatPow(a, k) == IF k = 0 THEN Unit(Order(a)) ELSE MatMul(MatPow(a, k - 1), a)

SolveMatrix(spec) ==
    LET a == spec.matrix
        n == Order(a)
        r == Reduced(Beside(a, Unit(n)), 1)
    IN  IF ~IsSquareMatrix(a) \/ n > 8 THEN Refusal
        ELSE CASE spec.kind = "determinant" -> Ok(Det(a, 1))
               [] spec.kind = "multiply" -> Ok(MatMul(a, spec.b))
               [] spec.kind = "power" ->
                     IF spec.exponent \notin 0 .. 64 THEN Refusal ELSE Ok(MatPow(a, spec.exponent))
               [] spec.kind = "inverse" ->
                     IF Det(a, 1) = Zero THEN Refusal
                     ELSE Ok([i \in 1 .. n |-> SubSeq(r.value[i], n + 1, 2 * n)])

-----------------------------------------------------------------------------
\* geometry: points <<x, y>>, lines <<a, b, c>> of a x + b y = c.

Sq(x) == Times(x, x)
Dist2(p, q) == Plus(Sq(Minus(q[1], p[1])), Sq(Minus(q[2], p[2])))
Cross(p, q) == Minus(Times(p[1], q[2]), Times(q[1], p[2]))
AbsF(x) == <<Abs(Num(x)), Den(x)>>
Half(x) == Over(x, Int2F(2))

Shoelace(ps) == Half(AbsF(SumF([i \in DOMAIN ps |-> Cross(ps[i], ps[(i % Len(ps)) + 1])])))

\* Of three points: what collinear compares, and twice that area with its sign.
Turn(p, q, r) == Minus(Times(Minus(q[1], p[1]), Minus(r[2], p[2])), Times(Minus(r[1], p[1]), Minus(q[2], p[2])))

Centre(p, q, r) ==
    LET s(u) == Plus(Sq(u[1]), Sq(u[2]))
        mix(f, g) == SumF(<<Times(f[1], Minus(g[2], g[3])), Times(f[2], Minus(g[3], g[1])),
                            Times(f[3], Minus(g[1], g[2]))>>)
        xs == <<p[1], q[1], r[1]>>  ys == <<p[2], q[2], r[2]>>  ss == <<s(p), s(q), s(r)>>
        d == Times(Int2F(2), mix(xs, ys))
    IN  IF d = Zero THEN Refusal ELSE Ok(<<Over(mix(ss, ys), d), Over(Neg(mix(ss, xs)), d)>>)

Meeting(l, m) ==
    LET det == Minus(Times(l[1], m[2]), Times(m[1], l[2]))
    IN  IF det = Zero THEN Refusal
        ELSE Ok(<<Over(Minus(Times(l[3], m[2]), Times(m[3], l[2])), det),
                  Over(Minus(Times(l[1], m[3]), Times(m[1], l[3])), det)>>)

Irrational == Int2F(-1)   \* the word, where a length is expected

\* The area of a triangle with these sides: its square, and the area itself cut off at a grain
\* when the square is whole, called irrational when it is not.
TriangleSides(sides) ==
    LET a2 == Sq(sides[1])  b2 == Sq(sides[2])  c2 == Sq(sides[3])
        sixteen == Minus(Times(Int2F(4), Times(a2, b2)), Sq(Minus(Plus(a2, b2), c2)))
        square == Over(sixteen, Int2F(16))
    IN  IF Num(sixteen) <= 0 THEN Refusal
        ELSE Ok([value_squared |-> square,
                 value |-> IF IsWhole(square)
                           THEN Frac(ISqrt(Num(square) * AreaDigits * AreaDigits), AreaDigits)
                           ELSE Irrational])

SolveGeometry(spec) ==
    LET p == spec.points
    IN  CASE spec.kind = "distance_squared" -> Ok(Dist2(p[1], p[2]))
          [] spec.kind = "polygon_area" -> IF Len(p) < 3 THEN Refusal ELSE Ok(Shoelace(p))
          [] spec.kind = "collinear" -> Ok(Turn(p[1], p[2], p[3]) = Zero)
          [] spec.kind = "circle_through" -> Centre(p[1], p[2], p[3])
          [] spec.kind = "line_intersection" -> Meeting(spec.line1, spec.line2)
          [] spec.kind = "triangle_sides" -> TriangleSides(spec.sides)

-----------------------------------------------------------------------------
\* What the machines promise.

\* A system is refused only if its determinant -- the signed sum over permutations -- is zero.
Inversions(f) == Cardinality({<<i, j>> \in (DOMAIN f) \X (DOMAIN f) : i < j /\ f[i] > f[j]})
Leibniz(m) ==
    LET n == Order(m)
        perms == {f \in [1 .. n -> 1 .. n] : IsInjective(f)}
        term(f) == Times(Int2F(IF Inversions(f) % 2 = 0 THEN 1 ELSE -1), ProductF([i \in 1 .. n |-> m[i][f[i]]]))
    IN  SumFOver(perms, term)

SystemRight(spec, o) ==
    /\ o.ok => \A i \in DOMAIN spec.rows : Dot(spec.rows[i], o.value) = spec.rhs[i]
    /\ IsSquareMatrix(spec.rows) /\ Len(spec.rhs) = Len(spec.rows) => (o.ok <=> Leibniz(spec.rows) # Zero)

MatrixRight(spec, o) ==
    CASE spec.kind = "determinant" -> o.value = Leibniz(spec.matrix)
      [] spec.kind = "inverse" ->
            IF o.ok THEN MatMul(spec.matrix, o.value) = Unit(Order(spec.matrix)) /\ MatMul(o.value, spec.matrix) = Unit(Order(spec.matrix))
            ELSE Leibniz(spec.matrix) = Zero
      [] spec.kind = "power" ->
            o.ok /\ spec.exponent >= 2 => MatMul(MatPow(spec.matrix, spec.exponent - 2), MatMul(spec.matrix, spec.matrix)) = o.value
      [] OTHER -> Leibniz(MatMul(spec.matrix, spec.b)) = Times(Leibniz(spec.matrix), Leibniz(spec.b))

\* The fractions of small height: where roots are looked for without a theorem.
SmallFractions == {Frac(p, q) : p \in -6 .. 6, q \in 1 .. 6}
Vanishing(cs) == {x \in SmallFractions : PolyValue(cs, x) = Zero}

QuadraticRight(spec, o) ==
    LET zeros == Vanishing(<<spec.a, spec.b, spec.c>>)
    IN  /\ o.ok /\ o.value.kind = "rational" => ToSet(o.value.roots) = zeros
        /\ o.ok /\ o.value.kind \in {"surd", "no real roots"} => zeros = {}
        /\ ~o.ok => spec.a = Zero /\ spec.b = Zero

\* calculus.py and solvers.py agree about the same equation.
TwoQuadraticsAgree(spec, o) ==
    LET other == SolveQuadratic(spec)
    IN  IF o.ok THEN other.value.kind = "rational" /\ ToSet(o.value) = ToSet(other.value.roots) /\ ~Less(o.value[1], o.value[2])
        ELSE ~other.ok \/ other.value.kind # "rational"

\* Every rational root is found; when they are all there are, they add and multiply up to
\* what is reported of them.
PolynomialRight(spec, o) ==
    o.ok /\ ~Has(spec, "at") =>
      LET roots == o.value.roots  cs == Trimmed(spec.coefficients)
      IN  /\ Vanishing(cs) \subseteq roots /\ \A r \in roots : PolyValue(cs, r) = Zero
          /\ Cardinality(roots) = Len(cs) - 1 =>
                /\ SumFOver(roots, LAMBDA r : r) = o.value.sum_of_roots
                /\ MapThenFoldSet(Times, One, LAMBDA r : r, LAMBDA T : CHOOSE r \in T : TRUE, roots) = o.value.product_of_roots

EquationRight(spec, o) ==
    LET balanced(x) == Plus(Times(Side(spec.left)[1], x), Side(spec.left)[2])
                          = Plus(Times(Side(spec.right)[1], x), Side(spec.right)[2])
    IN  IF o.ok THEN balanced(o.value) /\ \A x \in SmallFractions : balanced(x) => x = o.value
        ELSE balanced(Zero) = balanced(One)

\* Pick: the area of a triangle on lattice points is the points inside plus half the points on
\* its sides less one.
Pick(p, q, r) ==
    LET xs == {Num(p[1]), Num(q[1]), Num(r[1])}  ys == {Num(p[2]), Num(q[2]), Num(r[2])}
        sides(u) == {Sign(Turn(p, q, u)), Sign(Turn(q, r, u)), Sign(Turn(r, p, u))}
        covered == {u \in {<<Int2F(x), Int2F(y)>> : x \in Min(xs) .. Max(xs), y \in Min(ys) .. Max(ys)} :
                        ~({1, -1} \subseteq sides(u))}
        inside == {u \in covered : 0 \notin sides(u)}
    IN  Minus(Plus(Int2F(Cardinality(inside)), Frac(Cardinality(covered \ inside), 2)), One)

GeometryRight(spec, o) ==
    LET p == spec.points
    IN  CASE spec.kind = "polygon_area" /\ Len(p) = 3 ->
                IF Turn(p[1], p[2], p[3]) = Zero THEN o.value = Zero ELSE o.value = Pick(p[1], p[2], p[3])
          [] spec.kind = "circle_through" ->
                IF o.ok THEN Dist2(o.value, p[1]) = Dist2(o.value, p[2]) /\ Dist2(o.value, p[1]) = Dist2(o.value, p[3])
                ELSE Shoelace(p) = Zero
          [] spec.kind = "line_intersection" ->
                LET on(l, u) == Plus(Times(l[1], u[1]), Times(l[2], u[2])) = l[3]
                IN  IF o.ok THEN on(spec.line1, o.value) /\ on(spec.line2, o.value)
                    ELSE Times(spec.line1[1], spec.line2[2]) = Times(spec.line2[1], spec.line1[2])
          [] spec.kind = "triangle_sides" ->
                LET a == spec.sides[1]  b == spec.sides[2]  c == spec.sides[3]
                    s == Half(SumF(spec.sides))
                    heron == ProductF(<<s, Minus(s, a), Minus(s, b), Minus(s, c)>>)
                IN  IF o.ok THEN o.value.value_squared = heron ELSE Num(heron) <= 0
          [] OTHER -> TRUE

\* "Exact coordinate geometry": an area that is reported is the area.
AreaExact(spec, o) ==
    spec.kind = "triangle_sides" /\ o.ok =>
        IF o.value.value = Irrational THEN ~HasRoot(o.value.value_squared)
        ELSE Sq(o.value.value) = o.value.value_squared
=============================================================================
