---------------------------- MODULE SeriesSolvers ----------------------------
(***************************************************************************)
(* Sums, counts and word problems of mpeqs: series, combinatorics,         *)
(* recurrence, rate_work, ratio_split, mixture and interest (solvers.py),  *)
(* statistics, finance, shape, inclusion_exclusion, sequence, partition,   *)
(* logexp, approx, strcount, kinematics and the leap years of datetime     *)
(* (solvers3.py).                                                          *)
(***************************************************************************)
EXTENDS NumberSolvers

Total(s) == SumF(s)
Map(s, f(_)) == [i \in DOMAIN s |-> f(s[i])]
Choose(n, k) == IF k > n THEN 0 ELSE ProductInt([i \in 1 .. k |-> n - k + i]) \div FactorialOf(k)

-----------------------------------------------------------------------------
\* solvers.py.

SolveSeries(spec) ==
    LET a == spec.first  n == spec.terms
    IN  CASE spec.kind = "arithmetic" ->
                Ok(Over(Times(Int2F(n), Plus(Times(Int2F(2), a), Times(Int2F(n - 1), spec.step))), Int2F(2)))
          [] spec.kind = "geometric" ->
                IF spec.ratio = One THEN Ok(Times(a, Int2F(n)))
                ELSE Ok(Over(Times(a, Minus(One, Pow(spec.ratio, n))), Minus(One, spec.ratio)))
          [] spec.kind = "infinite" ->
                IF ~Less(spec.ratio, One) \/ ~Less(Neg(One), spec.ratio) THEN Refusal
                ELSE Ok(Over(a, Minus(One, spec.ratio)))

\* Derangements by (i - 1) * (d[i-1] + d[i-2]).
Derangements[n \in Nat] ==
    IF n < 2 THEN 1 - n ELSE (n - 1) * (Derangements[n - 1] + Derangements[n - 2])

SolveCombinatorics(spec) ==
    CASE spec.kind = "choose" -> Ok(Choose(spec.n, spec.k))
      [] spec.kind = "permute" -> Ok(IF spec.k > spec.n THEN 0 ELSE ProductInt([i \in 1 .. spec.k |-> spec.n - i + 1]))
      [] spec.kind = "factorial" -> Ok(FactorialOf(spec.n))
      [] spec.kind = "stars_and_bars" -> IF spec.k = 0 THEN Refusal ELSE Ok(Choose(spec.n + spec.k - 1, spec.k - 1))
      [] spec.kind = "derangement" -> Ok(Derangements[spec.n])

NextTerm(cs, seq) == Total([i \in DOMAIN cs |-> Times(cs[i], seq[Len(seq) + 1 - i])])

RECURSIVE Extended(_, _, _)
Extended(cs, seq, n) == IF Len(seq) > n THEN seq ELSE Extended(cs, Append(seq, NextTerm(cs, seq)), n)

SolveRecurrence(spec) ==
    IF Len(spec.initial) # Len(spec.coefficients) THEN Refusal
    ELSE Ok(Extended(spec.coefficients, spec.initial, spec.n)[spec.n + 1])

SolveRateWork(spec) ==
    IF \E i \in DOMAIN spec.times : Num(spec.times[i]) <= 0 THEN Refusal
    ELSE Ok(Inv(Total(Map(spec.times, Inv))))

SolveRatioSplit(spec) ==
    LET s == Total(spec.ratio)
    IN  IF s = Zero THEN Refusal ELSE Ok(Map(spec.ratio, LAMBDA p : Over(Times(spec.total, p), s)))

SolveMixture(spec) ==
    LET qs == spec.quantities  cs == spec.concentrations
    IN  IF Len(qs) # Len(cs) \/ qs = << >> THEN Refusal
        ELSE IF Total(qs) = Zero THEN Refusal
        ELSE Ok(Over(Total([i \in DOMAIN qs |-> Times(qs[i], cs[i])]), Total(qs)))

SolveInterest(spec) ==
    IF Has(spec, "kind") /\ spec.kind = "simple" THEN Ok(Times(spec.principal, Plus(One, Times(spec.rate, spec.periods))))
    ELSE IF ~IsWhole(spec.periods) THEN Refusal
    ELSE Ok(Times(spec.principal, Pow(Plus(One, spec.rate), Num(spec.periods))))

-----------------------------------------------------------------------------
\* solvers3.py.

Sorted(s) == SortSeq(s, Less)
Count(s, x) == Cardinality({i \in DOMAIN s : s[i] = x})

SolveStatistics(spec) ==
    LET xs == spec.values
        n == Len(xs)
        srt == Sorted(xs)
        mean == Over(Total(xs), Int2F(n))
        squares == Total(Map(xs, LAMBDA x : Times(Minus(x, mean), Minus(x, mean))))
    IN  IF n = 0 THEN Refusal
        ELSE Ok([mean |-> mean,
                 median |-> IF n % 2 = 1 THEN srt[n \div 2 + 1]
                            ELSE Over(Plus(srt[n \div 2], srt[n \div 2 + 1]), Int2F(2)),
                 population_variance |-> Over(squares, Int2F(n)),
                 sample_variance |-> IF n > 1 THEN Over(squares, Int2F(n - 1)) ELSE Zero,
                 range |-> Minus(srt[n], srt[1]),
                 mode |-> {x \in ToSet(xs) : \A y \in ToSet(xs) : Count(xs, y) <= Count(xs, x)}])

SolveFinance(spec) ==
    CASE spec.kind = "percent_chain" ->
            Ok(FoldLeft(LAMBDA v, pct : Times(v, Plus(One, Over(pct, Int2F(100)))), spec.start, spec.changes))
      [] spec.kind = "annuity" ->
            LET p == spec.principal  r == spec.rate  n == Num(spec.periods)
                shrunk == Minus(One, Pow(Plus(One, r), -n))
            IN  IF n = 0 THEN Refusal
                ELSE IF r = Zero THEN Ok(Over(p, Int2F(n)))
                ELSE IF r = Neg(One) \/ shrunk = Zero THEN Refusal
                ELSE Ok(Over(Times(p, r), shrunk))
      [] spec.kind = "vat" ->
            LET rate == IF Has(spec, "percent") THEN Over(spec.percent, Int2F(100))
                        ELSE IF Less(One, spec.rate) THEN Over(spec.rate, Int2F(100)) ELSE spec.rate
            IN  Ok(Times(spec.net, Plus(One, rate)))

\* A measure of a shape: a rational times a power of pi.
Shapes == {"circle", "rectangle", "triangle", "trapezium", "cylinder", "sphere", "cone", "cube", "box"}
F3(a, b, c) == ProductF(<<a, b, c>>)
Measures(spec) ==
    LET two == Int2F(2)
        m(c, p) == [coefficient |-> c, pi_power |-> p]
        h == spec.height  r == spec.radius  a == spec.side
    IN  CASE spec.shape = "circle" -> [area |-> m(Times(r, r), 1), perimeter |-> m(Times(two, r), 1)]
          [] spec.shape = "rectangle" ->
                [area |-> m(Times(spec.length, spec.width), 0), perimeter |-> m(Times(two, Plus(spec.length, spec.width)), 0)]
          [] spec.shape = "triangle" -> [area |-> m(Over(Times(spec.base, h), two), 0)]
          [] spec.shape = "trapezium" -> [area |-> m(Over(Times(Plus(spec.a, spec.b), h), two), 0)]
          [] spec.shape = "cylinder" -> [volume |-> m(F3(r, r, h), 1), surface |-> m(F3(two, r, Plus(r, h)), 1)]
          [] spec.shape = "sphere" -> [volume |-> m(Times(<<4, 3>>, F3(r, r, r)), 1), surface |-> m(F3(Int2F(4), r, r), 1)]
          [] spec.shape = "cone" -> [volume |-> m(Times(<<1, 3>>, F3(r, r, h)), 1)]
          [] spec.shape = "cube" -> [volume |-> m(F3(a, a, a), 0), surface |-> m(F3(Int2F(6), a, a), 0)]
          [] spec.shape = "box" ->
                LET l == spec.length  w == spec.width
                IN  [volume |-> m(F3(l, w, h), 0),
                     surface |-> m(Times(two, SumF(<<Times(l, w), Times(w, h), Times(l, h)>>)), 0)]

SolveShape(spec) ==
    IF spec.shape \notin Shapes \/ spec.report \notin DOMAIN Measures(spec) THEN Refusal
    ELSE Ok(Measures(spec)[spec.report])

\* inclusion_exclusion: sizes by non-empty set of names.
SolveInclusion(spec) ==
    LET names == UNION DOMAIN spec.sizes
        combos == SUBSET names \ {{}}
        union == SumOver(combos, LAMBDA c : IF Cardinality(c) % 2 = 1 THEN spec.sizes[c] ELSE -spec.sizes[c])
    IN  IF Cardinality(names) > 4 \/ ~(combos \subseteq DOMAIN spec.sizes) THEN Refusal
        ELSE Ok([union |-> union, neither |-> spec.total - union])

\* sequence: the first rule that fits all terms, and its value at index n.
Diffs(xs) == [i \in 1 .. Len(xs) - 1 |-> Minus(xs[i + 1], xs[i])]
AllEqual(s) == \A i \in DOMAIN s : s[i] = s[1]
Geometric(xs) ==
    (\A i \in DOMAIN xs : xs[i] # Zero) /\ \A i \in 1 .. Len(xs) - 1 : xs[i + 1] = Times(xs[i], Over(xs[2], xs[1]))
QuadraticRule(xs, n) ==
    LET a == Over(Diffs(Diffs(xs))[1], Int2F(2))
    IN  SumF(<<F3(a, Int2F(n), Int2F(n)), Times(Minus(Diffs(xs)[1], a), Int2F(n)), xs[1]>>)
\* p and q with x(k) = p x(k-1) + q x(k-2), from the first four terms.
RuleDet(xs) == Minus(Times(xs[2], xs[2]), Times(xs[1], xs[3]))
TwoTerm(xs) == <<Over(Minus(Times(xs[3], xs[2]), Times(xs[4], xs[1])), RuleDet(xs)),
                 Over(Minus(Times(xs[2], xs[4]), Times(xs[3], xs[3])), RuleDet(xs))>>

SolveSequence(spec) ==
    LET xs == spec.terms  n == spec.n
        fits == \A i \in 3 .. Len(xs) : xs[i] = NextTerm(TwoTerm(xs), SubSeq(xs, 1, i - 1))
    IN  IF Len(xs) < 3 THEN Refusal
        ELSE IF AllEqual(Diffs(xs)) THEN Ok(Plus(xs[1], Times(Int2F(n), Diffs(xs)[1])))
        ELSE IF Geometric(xs) THEN Ok(Times(xs[1], Pow(Over(xs[2], xs[1]), n)))
        ELSE IF Len(xs) < 4 THEN Refusal
        ELSE IF AllEqual(Diffs(Diffs(xs))) THEN Ok(QuadraticRule(xs, n))
        ELSE IF RuleDet(xs) = Zero \/ ~fits THEN Refusal
        ELSE Ok(Extended(TwoTerm(xs), xs, n)[n + 1])

\* partition: the table of ways, part by part; with repetition each entry already counts the
\* part itself.
WithPart(ways, p) ==
    LET new[v \in DOMAIN ways] == ways[v] + (IF v >= p THEN new[v - p] ELSE 0) IN new
OnceOnly(ways, p) == [v \in DOMAIN ways |-> ways[v] + (IF v >= p THEN ways[v - p] ELSE 0)]

SolvePartition(spec) ==
    LET none == [v \in 0 .. spec.total |-> IF v = 0 THEN 1 ELSE 0]
        parts == spec.parts
        ordered[v \in 0 .. spec.total] ==
            IF v = 0 THEN 1 ELSE SumInt([i \in DOMAIN parts |-> IF parts[i] <= v THEN ordered[v - parts[i]] ELSE 0])
    IN  IF \E i \in DOMAIN parts : parts[i] <= 0 THEN Refusal
        ELSE CASE spec.kind = "unordered" -> Ok(FoldLeft(WithPart, none, parts)[spec.total])
               [] spec.kind = "ordered" -> Ok(ordered[spec.total])
               [] spec.kind = "distinct" -> Ok(FoldLeft(OnceOnly, none, parts)[spec.total])

RECURSIVE LogUp(_, _, _)
LogUp(b, x, v) == IF v >= x THEN <<0, v>> ELSE LET r == LogUp(b, x, v * b) IN <<r[1] + 1, r[2]>>

SolveLogexp(spec) ==
    CASE spec.kind = "digits_of_power" ->
            IF spec.base <= 0 \/ spec.exponent < 0 THEN Refusal ELSE Ok(Len(Digits(spec.base ^ spec.exponent)))
      [] spec.kind = "integer_log" ->
            IF spec.base < 2 \/ spec.value < 1 \/ LogUp(spec.base, spec.value, 1)[2] # spec.value THEN Refusal
            ELSE Ok(LogUp(spec.base, spec.value, 1)[1])
      [] spec.kind = "trailing_zeros_factorial" -> Ok(Legendre(spec.n, 5, 5))

\* approx: partial quotients, at most so many, and their convergents <<h, k>>.
RECURSIVE PartialQuotients(_, _)
PartialQuotients(x, terms) ==
    LET a == FloorOf(x)
        rest == Minus(x, Int2F(a))
    IN  IF terms = 0 THEN << >> ELSE IF rest = Zero THEN <<a>> ELSE <<a>> \o PartialQuotients(Inv(rest), terms - 1)

Convergents(as) ==
    LET c[i \in -1 .. Len(as)] ==
            IF i = -1 THEN <<0, 1>> ELSE IF i = 0 THEN <<1, 0>>
            ELSE <<as[i] * c[i - 1][1] + c[i - 2][1], as[i] * c[i - 1][2] + c[i - 2][2]>>
    IN  [i \in 1 .. Len(as) |-> c[i]]

SolveApprox(spec) ==
    LET as == PartialQuotients(spec.value, spec.terms)
    IN  Ok(IF spec.kind = "continued_fraction" THEN as ELSE Convergents(as))

SolveStrcount(spec) ==
    LET w == spec.word
        letters == ToSet(w)
    IN  IF w = << >> THEN Refusal
        ELSE CASE spec.kind = "arrangements" ->
                     Ok(FoldSet(LAMBDA l, t : t \div FactorialOf(Count(w, l)), FactorialOf(Len(w)), letters))
               [] spec.kind = "letter_count" -> Ok(Count(w, spec.letter))
               [] spec.kind = "distinct_letters" -> Ok(Cardinality(letters))
               [] spec.kind = "is_palindrome" -> Ok(w = Reverse(w))

LeapYear(y) == y % 4 = 0 /\ (y % 100 # 0 \/ y % 400 = 0)
SolveDatetime(spec) == Ok(Cardinality({y \in spec.from_year .. spec.to_year : LeapYear(y)}))

\* kinematics: the relations in the order they are tried; g holds what is known so far.
Given(g, slots) == slots \subseteq DOMAIN g
Learn(g, x, needs, when, value) ==
    IF x \notin DOMAIN g /\ Given(g, needs) /\ when THEN (x :> value) @@ g ELSE g
Sqr(x) == Times(x, x)
Twice(x) == Times(Int2F(2), x)
Halved(x) == Over(x, Int2F(2))
SpeedSquared(g) == Plus(Sqr(g["u"]), Twice(Times(g["a"], g["s"])))

FinalSpeed(g) == Learn(g, "v", {"u", "a", "t"}, TRUE, Plus(g["u"], Times(g["a"], g["t"])))
WayFromRest(g) == Learn(g, "s", {"u", "a", "t"}, TRUE, Plus(Times(g["u"], g["t"]), Halved(F3(g["a"], g["t"], g["t"]))))
WayByMean(g) == Learn(g, "s", {"u", "v", "t"}, TRUE, Halved(Times(Plus(g["u"], g["v"]), g["t"])))
AccByTime(g) == Learn(g, "a", {"u", "v", "t"}, g["t"] # Zero, Over(Minus(g["v"], g["u"]), g["t"]))
TimeTaken(g) == Learn(g, "t", {"u", "v", "a"}, g["a"] # Zero, Over(Minus(g["v"], g["u"]), g["a"]))
FirstSpeed(g) == Learn(g, "u", {"v", "a", "t"}, TRUE, Minus(g["v"], Times(g["a"], g["t"])))
FirstByMean(g) == Learn(g, "u", {"s", "v", "t"}, g["t"] # Zero, Minus(Over(Twice(g["s"]), g["t"]), g["v"]))
AccByWay(g) == Learn(g, "a", {"u", "v", "s"}, g["s"] # Zero, Over(Minus(Sqr(g["v"]), Sqr(g["u"])), Twice(g["s"])))

KinematicsPass(g) ==
    AccByWay(FirstByMean(FirstSpeed(TimeTaken(AccByTime(WayByMean(WayFromRest(FinalSpeed(g))))))))

RationalRoot(x) == IsSquare(Num(x)) /\ IsSquare(Den(x))
\* The last relation of a pass takes the root that is not negative, or refuses.
WithFinalSpeed(g) ==
    IF "v" \in DOMAIN g \/ ~Given(g, {"u", "a", "s"}) THEN Ok(g)
    ELSE IF ~RationalRoot(SpeedSquared(g)) THEN Refusal
    ELSE Ok(("v" :> <<ISqrt(Num(SpeedSquared(g))), ISqrt(Den(SpeedSquared(g)))>>) @@ g)

RECURSIVE Propagate(_, _, _)
UntilKnown(want, r, passes) ==
    IF ~r.ok THEN Refusal ELSE IF want \in DOMAIN r.value THEN r ELSE Propagate(r.value, want, passes)
Propagate(g, want, passes) ==
    IF passes = 0 THEN Refusal ELSE UntilKnown(want, WithFinalSpeed(KinematicsPass(g)), passes - 1)

SolveKinematics(spec) ==
    LET g == [k \in DOMAIN spec \cap {"u", "v", "a", "s", "t"} |-> spec[k]]
    IN  IF spec.find \in DOMAIN g \/ Cardinality(DOMAIN g) < 3 THEN Refusal
        ELSE Propagate(g, spec.find, 4)

-----------------------------------------------------------------------------
\* What the machines promise.

SeriesRight(spec, o) ==
    LET term(i) == IF spec.kind = "arithmetic" THEN Plus(spec.first, Times(Int2F(i - 1), spec.step))
                   ELSE Times(spec.first, Pow(spec.ratio, i - 1))
    IN  IF spec.kind # "infinite" THEN o.value = Total([i \in 1 .. spec.terms |-> term(i)])
        ELSE o.ok => o.value = Plus(Total([i \in 1 .. 4 |-> term(i)]), Times(Pow(spec.ratio, 4), o.value))

\* Counting without a formula.
Functions(n, k) == [1 .. k -> 0 .. n]
CombinatoricsRight(spec, o) ==
    CASE spec.kind = "choose" -> o.value = Cardinality({T \in SUBSET (1 .. spec.n) : Cardinality(T) = spec.k})
      [] spec.kind = "permute" -> o.value = Cardinality({f \in [1 .. spec.k -> 1 .. spec.n] : IsInjective(f)})
      [] spec.kind = "factorial" -> o.value = Cardinality({f \in [1 .. spec.n -> 1 .. spec.n] : IsInjective(f)})
      [] spec.kind = "stars_and_bars" ->
            o.ok => o.value = Cardinality({f \in Functions(spec.n, spec.k) : SumInt(f) = spec.n})
      [] spec.kind = "derangement" ->
            o.value = Cardinality({f \in [1 .. spec.n -> 1 .. spec.n] : IsInjective(f) /\ \A i \in 1 .. spec.n : f[i] # i})

\* The ways to make a total, one by one: how often each part is taken, or in which order.
Weight(parts, f) == SumInt([i \in DOMAIN parts |-> f[i] * parts[i]])
PartitionRight(spec, o) ==
    LET ps == spec.parts  n == spec.total
    IN  o.ok =>
        CASE spec.kind = "unordered" -> o.value = Cardinality({f \in [DOMAIN ps -> 0 .. n] : Weight(ps, f) = n})
          [] spec.kind = "distinct" -> o.value = Cardinality({f \in [DOMAIN ps -> {0, 1}] : Weight(ps, f) = n})
          [] spec.kind = "ordered" ->
                o.value = Cardinality({w \in UNION {[1 .. k -> DOMAIN ps] : k \in 0 .. n} :
                                        SumInt([i \in DOMAIN w |-> ps[w[i]]]) = n})

StrcountRight(spec, o) ==
    o.ok /\ spec.kind = "arrangements" =>
        LET w == spec.word
            places == {f \in [DOMAIN w -> DOMAIN w] : IsInjective(f)}
        IN  o.value = Cardinality({[i \in DOMAIN w |-> w[f[i]]] : f \in places})

\* The sizes are those of actual sets (spec.sets) in a whole of spec.total.
InclusionRight(spec, o) ==
    o.ok => /\ o.value.union = Cardinality(UNION ToSet(spec.sets))
            /\ o.value.neither = spec.total - Cardinality(UNION ToSet(spec.sets))

\* Every worker's share of the job adds up to the job; the shares of a total add up to it and
\* keep their ratio; a mixture holds what went into it.
SharesRight(spec, o) ==
    CASE spec.solver = "rate_work" -> o.ok => Total(Map(spec.times, LAMBDA t : Over(o.value, t))) = One
      [] spec.solver = "ratio_split" ->
            o.ok => /\ Total(o.value) = spec.total
                    /\ \A i, j \in DOMAIN spec.ratio : Times(o.value[i], spec.ratio[j]) = Times(o.value[j], spec.ratio[i])
      [] spec.solver = "mixture" ->
            o.ok => Times(o.value, Total(spec.quantities))
                        = Total([i \in DOMAIN spec.quantities |-> Times(spec.quantities[i], spec.concentrations[i])])

\* A recurrence, a compound interest and an annuity, step by step: the last payment clears the
\* debt to nothing.
Repeated(n, step(_), x) == FoldLeft(LAMBDA v, i : step(v), x, [i \in 1 .. n |-> i])
RepeatedRight(spec, o) ==
    CASE spec.solver = "recurrence" ->
            LET window(w) == Append(Tail(w), Total([i \in DOMAIN w |-> Times(spec.coefficients[Len(w) + 1 - i], w[i])]))
            IN  o.ok => o.value = Head(Repeated(spec.n, window, spec.initial))
      [] spec.solver = "interest" ->
            o.ok /\ spec.kind = "compound" =>
                o.value = Repeated(Num(spec.periods), LAMBDA v : Plus(v, Times(v, spec.rate)), spec.principal)
      [] spec.solver = "finance" ->
            o.ok /\ spec.kind = "annuity" =>
                Repeated(Num(spec.periods), LAMBDA v : Minus(Plus(v, Times(v, spec.rate)), o.value), spec.principal) = Zero

\* The variance is half the mean square of all differences; as many values lie below the
\* median as above.
StatisticsRight(spec, o) ==
    LET xs == spec.values  n == Len(xs)
        square(i, j) == Times(Minus(xs[i], xs[j]), Minus(xs[i], xs[j]))
    IN  o.ok =>
          /\ o.value.population_variance = Over(SumFOver((1 .. n) \X (1 .. n), LAMBDA p : square(p[1], p[2])), Int2F(2 * n * n))
          /\ Times(o.value.sample_variance, Int2F(n - 1)) = IF n > 1 THEN Times(o.value.population_variance, Int2F(n)) ELSE Zero
          /\ 2 * Cardinality({i \in 1 .. n : Less(xs[i], o.value.median)}) <= n
          /\ 2 * Cardinality({i \in 1 .. n : Less(o.value.median, xs[i])}) <= n

\* A rule reproduces the terms it was found from, and a term it predicts, given in its turn,
\* changes no further prediction.
SequenceRight(spec, o) ==
    LET at(terms, n) == SolveSequence([terms |-> terms, n |-> n])
        xs == spec.terms
    IN  o.ok => /\ \A n \in 0 .. Len(xs) - 1 : at(xs, n).value = xs[n + 1]
                /\ at(Append(xs, at(xs, Len(xs)).value), spec.n) = o

\* The quotients put together again give the number, if they ended; each convergent is nearer
\* than any other fraction whose denominator is no larger.
Folded(as) == FoldRight(LAMBDA a, x : IF x = Zero THEN Int2F(a) ELSE Plus(Int2F(a), Inv(x)), as, Zero)
Distance(x, y) == LET d == Minus(x, y) IN <<Abs(Num(d)), Den(d)>>
ApproxRight(spec, o) ==
    LET as == PartialQuotients(spec.value, spec.terms)
    IN  /\ Len(as) < spec.terms => Folded(as) = spec.value
        /\ spec.kind = "convergents" =>
            \A i \in 2 .. Len(o.value) :
                LET c == Frac(o.value[i][1], o.value[i][2])
                IN  /\ c = Folded(SubSeq(as, 1, i))
                    /\ \A q \in 1 .. Den(c), p \in -20 .. 20 :
                          ~Less(Distance(Frac(p, q), spec.value), Distance(c, spec.value))

LogexpRight(spec, o) ==
    CASE spec.kind = "integer_log" ->
            IF o.ok THEN spec.base ^ o.value = spec.value ELSE spec.base < 2 \/ \A k \in 0 .. 8 : spec.base ^ k # spec.value
      [] spec.kind = "digits_of_power" -> o.ok => 10 ^ (o.value - 1) <= spec.base ^ spec.exponent /\ spec.base ^ spec.exponent < 10 ^ o.value
      [] spec.kind = "trailing_zeros_factorial" ->
            /\ Divides(10 ^ o.value, FactorialOf(spec.n))
            /\ ~Divides(10 ^ (o.value + 1), FactorialOf(spec.n))

\* Twice as large: four times the area, eight times the volume.  And between shapes: a cube is
\* a box, a cone a third of its cylinder, a ball two thirds of the cylinder around it.
Doubling(spec) == [s \in DOMAIN spec |-> IF s \in {"solver", "shape", "report"} THEN spec[s] ELSE Times(Int2F(2), spec[s])]
ShapeRight(spec, o) ==
    LET power == CASE spec.report = "perimeter" -> 2 [] spec.report \in {"area", "surface"} -> 4 [] spec.report = "volume" -> 8
        coefficient(shape, slots) == Measures([shape |-> shape] @@ slots)["volume"].coefficient
        r == spec.radius
    IN  o.ok =>
          /\ SolveShape(Doubling(spec)).value.coefficient = Times(Int2F(power), o.value.coefficient)
          /\ CASE spec.shape = "cube" -> Measures([shape |-> "box", length |-> spec.side, width |-> spec.side, height |-> spec.side]) = Measures(spec)
               [] spec.shape = "cone" -> Times(Int2F(3), o.value.coefficient) = coefficient("cylinder", [radius |-> r, height |-> spec.height])
               [] spec.shape = "sphere" /\ spec.report = "volume" ->
                     Times(Int2F(3), o.value.coefficient) = Times(Int2F(2), coefficient("cylinder", [radius |-> r, height |-> Times(Int2F(2), r)]))
               [] OTHER -> TRUE

\* What is answered, with all that was found on the way, satisfies every relation of constant
\* acceleration -- but for a body moving backwards at constant speed, whose final speed is
\* given the other sign.
Backwards(spec) == {"u", "a", "s"} \subseteq DOMAIN spec /\ Num(spec.u) < 0 /\ spec.a = Zero
Relations(g) ==
    /\ Given(g, {"u", "v", "a", "t"}) => g["v"] = Plus(g["u"], Times(g["a"], g["t"]))
    /\ Given(g, {"u", "v", "s", "t"}) => Times(Int2F(2), g["s"]) = Times(Plus(g["u"], g["v"]), g["t"])
    /\ Given(g, {"u", "a", "s", "t"}) =>
          Times(Int2F(2), g["s"]) = Plus(F3(Int2F(2), g["u"], g["t"]), F3(g["a"], g["t"], g["t"]))
    /\ Given(g, {"u", "v", "a", "s"}) => Sqr(g["v"]) = SpeedSquared(g)
MotionRight(spec, o) == o.ok /\ ~Backwards(spec) => Relations(o.value)

\* Four centuries have 97 leap years, wherever they begin.
LeapYearsRight(spec, o) == spec.to_year = spec.from_year + 399 => o.value = 97
=============================================================================
