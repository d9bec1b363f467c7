---------------------------- MODULE SearchSolvers ----------------------------
(***************************************************************************)
(* The machines of mpeqs that evaluate expressions of the caller: search   *)
(* (solvers.py), multisearch, arith and iterate (solvers2.py), probability *)
(* (solvers3.py).  An expression is a tree over names, as in               *)
(* SpellInterpreter, with // and %, comparisons and calls.  What Python    *)
(* computes with is an int, a Fraction or a float; a boolean is an int.    *)
(***************************************************************************)
EXTENDS SpellInterpreter, NumberSolvers

CONSTANTS TupleBudget,   \* TUPLE_BUDGET, 4000000 in the code
          MaxIterations, \* of iterate, 200000 in the code
          FloatGrain     \* floats are modelled as the multiples of 1/FloatGrain

Call(f, args) == [op |-> "call", f |-> f, args |-> args]
Comparisons == {"<", "<=", ">", ">=", "==", "!="}

Parts(e) ==
    CASE e.op \in {"const", "name"}      -> << >>
      [] e.op \in {"neg", "pos", "**"}   -> <<e.left>>
      [] e.op = "not"                    -> <<e.part>>
      [] e.op \in {"and", "or"}          -> e.parts
      [] e.op = "call"                   -> e.args
      [] OTHER                           -> <<e.left, e.right>>

RECURSIVE NamesOf(_), HasDivision(_)
NamesOf(e) == IF e.op = "name" THEN {e.name} ELSE UNION {NamesOf(p) : p \in ToSet(Parts(e))}
HasDivision(e) == e.op = "/" \/ \E p \in ToSet(Parts(e)) : HasDivision(p)

-----------------------------------------------------------------------------
\* Values.

Val(kind, x) == [err |-> "none", kind |-> kind, v |-> x]
IntVal(n) == Val("int", Int2F(n))
Truth(holds) == IntVal(IF holds THEN 1 ELSE 0)
Error(err) == [err |-> err, kind |-> "int", v |-> Zero]

\* A float is the nearest point of the grid.
Rounded(x) == Frac((2 * Num(x) * FloatGrain + Den(x)) \div (2 * Den(x)), FloatGrain)
Made(kind, x) == Val(kind, IF kind = "float" THEN Rounded(x) ELSE x)
Wider(a, b) == IF "float" \in {a.kind, b.kind} THEN "float" ELSE IF "frac" \in {a.kind, b.kind} THEN "frac" ELSE "int"
IntOf(a) == IF Num(a.v) < 0 THEN -FloorOf(Neg(a.v)) ELSE FloorOf(a.v)   \* int(): towards zero

\* The kind of a quotient: of two ints Python makes a float, in exact arithmetic a fraction.
Divided(kind, how) == IF kind # "int" THEN kind ELSE IF how = "exact" THEN "frac" ELSE "float"

Arith(op, a, b, how) ==
    LET kind == Wider(a, b)
        floor == Int2F(FloorOf(Over(a.v, b.v)))
    IN  IF op \in {"/", "//", "%"} /\ b.v = Zero THEN Error("zero")
        ELSE CASE op = "+"  -> Made(kind, Plus(a.v, b.v))
               [] op = "-"  -> Made(kind, Minus(a.v, b.v))
               [] op = "*"  -> Made(kind, Times(a.v, b.v))
               [] op = "/"  -> Made(Divided(kind, how), Over(a.v, b.v))
               [] op = "//" -> Made(IF kind = "float" THEN kind ELSE "int", floor)
               [] op = "%"  -> Made(kind, Minus(a.v, Times(b.v, floor)))

Power(a, n, how) ==
    IF n < 0 /\ a.v = Zero THEN Error("zero")
    ELSE Made(IF n < 0 THEN Divided(a.kind, how) ELSE a.kind, Pow(a.v, n))

\* EXPR_FUNCS, those that tell something apart: gcd takes ints only, the others truncate.
Called(f, vs) ==
    LET n == IntOf(vs[1])
    IN  CASE f = "gcd" -> IF \E i \in DOMAIN vs : vs[i].kind # "int" THEN Error("type")
                          ELSE IntVal(Gcd(Num(vs[1].v), Num(vs[2].v)))
          [] f = "abs" -> Made(vs[1].kind, <<Abs(Num(vs[1].v)), Den(vs[1].v)>>)
          [] f = "digit_sum" -> IntVal(SumInt(Digits(n)))
          [] f = "is_square" -> Truth(IsSquare(n))
          [] f = "is_prime" -> Truth(IsPrime(n))
          [] f = "num_divisors" -> IF n = 0 THEN IntVal(0)
                                   ELSE IF ~Factorisable(Abs(n)) THEN Error("refused")
                                   ELSE IntVal(DivisorCount(Factorise(Abs(n))))

\* eval_expr.  how: "plain" Python, "rational" with every constant a Fraction (what
\* _Rationalise makes of an expression that divides), or "exact", for the promises below.
Applied(e, vs, how) ==
    CASE e.op = "neg" -> [vs[1] EXCEPT !.v = Neg(@)]
      [] e.op = "pos" -> vs[1]
      [] e.op = "not" -> Truth(vs[1].v = Zero)
      [] e.op = "**" -> Power(vs[1], e.power, how)
      [] e.op = "call" -> Called(e.f, vs)
      [] e.op \in Comparisons -> Truth(Holds(e.op, vs[1].v, vs[2].v))
      [] OTHER -> Arith(e.op, vs[1], vs[2], how)
Unbroken(e, vs, broken, how) == IF broken = {} THEN Applied(e, vs, how) ELSE vs[Min(broken)]
Combined(e, vs, how) ==
    IF e.op \in {"and", "or"}
    THEN IF vs[1].err # "none" \/ (vs[1].v # Zero) = (e.op = "or") THEN vs[1] ELSE vs[2]
    ELSE Unbroken(e, vs, {i \in DOMAIN vs : vs[i].err # "none"}, how)

RECURSIVE EvalExpr(_, _, _)
EvalExpr(e, env, how) ==
    CASE e.op = "const" -> IF how = "rational" THEN Val("frac", Int2F(e.value)) ELSE IntVal(e.value)
      [] e.op = "name" -> IF e.name \in DOMAIN env THEN env[e.name] ELSE Error("type")
      [] OTHER -> Combined(e, [i \in DOMAIN Parts(e) |-> EvalExpr(Parts(e)[i], env, how)], how)

\* A compiled expression.
Run(e, env) == EvalExpr(e, env, IF HasDivision(e) THEN "rational" ELSE "plain")

\* Mutant: a straight line through three samples is taken for linearity.
LinearBySamples(e, x) == TRUE

\* is_linear_in.
RECURSIVE IsLinearIn(_, _)
IsLinearIn(e, x) ==
    \/ x \notin NamesOf(e)
    \/ e.op = "name"
    \/ e.op \in {"neg", "pos"} /\ IsLinearIn(e.left, x)
    \/ e.op \in {"+", "-"} /\ IsLinearIn(e.left, x) /\ IsLinearIn(e.right, x)
    \/ e.op = "*" /\ \/ x \notin NamesOf(e.left) /\ IsLinearIn(e.right, x)
                     \/ x \notin NamesOf(e.right) /\ IsLinearIn(e.left, x)
    \/ e.op = "/" /\ x \notin NamesOf(e.right) /\ IsLinearIn(e.left, x)

-----------------------------------------------------------------------------
\* multisearch.  variables: a sequence of [name, from, to]; conditions: of expressions.

Names(spec) == [i \in DOMAIN spec.variables |-> spec.variables[i].name]
Bound(spec, i) == ToSet(SubSeq(Names(spec), 1, i))
Innermost(spec) == Last(Names(spec))
AggregateOf(spec) == IF Has(spec, "aggregate") THEN spec.aggregate ELSE "count"
Width(v) == v.to - v.from + 1
Ready(spec, i) ==
    SelectSeq(spec.conditions, LAMBDA c : NamesOf(c) \subseteq Bound(spec, i) /\ ~(NamesOf(c) \subseteq Bound(spec, i - 1)))

\* equality_residual: what the two sides differ by, to be solved for the innermost variable.
Residual(c) == Bin("-", c.left, c.right)
SolvedFor(c, x) == c.op = "==" /\ x \in NamesOf(c) /\ IsLinearIn(Residual(c), x)

Bind1(env, x, n) == (x :> IntVal(n)) @@ env
Probe(c, x, env) == [n \in 0 .. 2 |-> Run(Residual(c), Bind1(env, x, n))]
Slope(p) == Minus(p[1].v, p[0].v)
Straight(p) == (\A n \in 0 .. 2 : p[n].err = "none") /\ Slope(p) # Zero /\ Minus(p[2].v, p[1].v) = Slope(p)

\* all(...): the first condition that fails or breaks decides.
RECURSIVE AllHold(_, _)
AllHold(cs, env) ==
    IF cs = << >> THEN "yes"
    ELSE LET after(r) == IF r.err # "none" THEN r.err ELSE IF r.v = Zero THEN "no" ELSE AllHold(Tail(cs), env)
         IN  after(Run(Head(cs), env))

\* The least value of a variable: its own bound, or what the ordering leaves.
Lowest(spec, i, env) ==
    LET own == spec.variables[i].from
    IN  IF spec.ordering = "none" \/ i = 1 THEN own
        ELSE Max({own, Num(env[Names(spec)[i - 1]].v) + (IF spec.ordering = "strict_increasing" THEN 1 ELSE 0)})

\* A division by zero drops the tuple it met; any other exception ends the search.
Caught(acc) == IF acc.err = "zero" THEN [acc EXCEPT !.err = "none"] ELSE acc

RECURSIVE Rec(_, _, _, _), Scan(_, _, _, _, _)
\* One value of variable i, tried, when the conditions that can be tested now came to all.
Trying(spec, i, bound, all, acc) ==
    CASE all = "yes" -> Caught(Rec(spec, i + 1, bound, acc))
      [] all \in {"no", "zero"} -> acc
      [] OTHER -> [acc EXCEPT !.err = all]
Try(spec, i, env, n, acc) ==
    LET bound == Bind1(env, Names(spec)[i], n)
    IN  Trying(spec, i, bound, AllHold(Ready(spec, i), bound), acc)

Scan(spec, i, env, n, acc) ==
    IF n > spec.variables[i].to \/ acc.err # "none" THEN acc
    ELSE IF acc.work + 1 > TupleBudget THEN [acc EXCEPT !.err = "refused"]
    ELSE Scan(spec, i, env, n + 1, Try(spec, i, env, n, [acc EXCEPT !.work = @ + 1]))

\* A tuple all of whose conditions hold, with its objective.
Hit(acc, tuple, value) ==
    IF value.err # "none" THEN [acc EXCEPT !.work = @ + 1, !.err = value.err]
    ELSE [acc EXCEPT !.work = @ + 1, !.hits = Append(@, [tuple |-> tuple, value |-> value])]
Objective(spec, env, tuple) ==
    IF Has(spec, "objective") THEN Run(spec.objective, env)
    ELSE IntVal(IF AggregateOf(spec) = "product" THEN ProductInt(tuple) ELSE SumInt(tuple))

\* The conditions that can be solved for the innermost variable, and the value the first gives.
Usable(spec, x, env) ==
    {k \in DOMAIN spec.conditions :
        SolvedFor(spec.conditions[k], x) /\ Straight(Probe(spec.conditions[k], x, env))}
RootOf(probe) == Neg(Over(probe[0].v, Slope(probe)))
AtRoot(spec, i, env, root, acc) ==
    IF ~IsWhole(root) \/ Num(root) < Lowest(spec, i, env) \/ Num(root) > spec.variables[i].to THEN acc
    ELSE Try(spec, i, env, Num(root), acc)
SolvedOrScanned(spec, i, env, usable, acc) ==
    IF usable = {} THEN Scan(spec, i, env, Lowest(spec, i, env), acc)
    ELSE AtRoot(spec, i, env, RootOf(Probe(spec.conditions[Min(usable)], Names(spec)[i], env)), acc)

Rec(spec, i, env, acc) ==
    LET tuple == [k \in DOMAIN spec.variables |-> Num(env[Names(spec)[k]].v)]
    IN  IF i > Len(spec.variables) THEN Hit(acc, tuple, Objective(spec, env, tuple))
        ELSE SolvedOrScanned(spec, i, env, IF i < Len(spec.variables) THEN {} ELSE Usable(spec, Names(spec)[i], env), acc)

\* What is to be walked: without the innermost range when that is solved for.
Walked(spec) ==
    LET widths == [i \in DOMAIN spec.variables |-> Width(spec.variables[i])]
        solved == Len(widths) > 1 /\ \E c \in ToSet(spec.conditions) : SolvedFor(c, Innermost(spec))
    IN  ProductInt(IF solved THEN Front(widths) ELSE widths)

\* The aggregate of values; that of a list is the hits themselves.
Aggregate(how, vs) ==
    LET least == CHOOSE i \in DOMAIN vs : \A j \in DOMAIN vs : ~Less(vs[j].v, vs[i].v)
        most == CHOOSE i \in DOMAIN vs : \A j \in DOMAIN vs : ~Less(vs[i].v, vs[j].v)
    IN  CASE how = "count" -> IntVal(Len(vs))
          [] how = "sum" -> FoldLeft(LAMBDA a, b : Arith("+", a, b, "plain"), IntVal(0), vs)
          [] how = "product" -> Val("frac", ProductF([i \in DOMAIN vs |-> vs[i].v]))
          [] how \in {"min", "only"} -> IF vs = << >> THEN Val("none", Zero) ELSE vs[least]
          [] how = "max" -> IF vs = << >> THEN Val("none", Zero) ELSE vs[most]
          [] how = "list" -> Val("none", Zero)

ExponentSum(n) == LET f == Factorise(n) IN SumOver(DOMAIN f, LAMBDA p : f[p])
Posted(spec, x) ==
    IF ~Has(spec, "post") \/ x.kind = "none" THEN x
    ELSE LET arg == spec.post.arg
         IN  CASE spec.post.op = "mod" -> Arith("%", x, IntVal(arg), "plain")
               [] spec.post.op = "digit_sum" -> IntVal(SumInt(Digits(IntOf(x))))
               [] spec.post.op = "exponent_sum" ->
                     IF Factorisable(IntOf(x)) THEN IntVal(ExponentSum(IntOf(x))) ELSE Error("refused")
               [] spec.post.op = "add" -> Arith("+", x, IntVal(arg), "plain")
               [] spec.post.op = "divide_by" -> Arith("/", Val("frac", x.v), IntVal(arg), "plain")

\* A product has become a string by the time it is posted, and a string takes no remainder.
Unfit(spec) ==
    /\ Has(spec, "post")
    /\ spec.post.op \in {"add", "divide_by"} \/ (AggregateOf(spec) = "product" /\ spec.post.op = "mod")
Reported(spec, hits, answer) ==
    IF answer.err # "none" \/ Unfit(spec) THEN Refusal ELSE Ok([value |-> answer, hits |-> hits])
Concluded(spec, found) ==
    IF found.err # "none" \/ (AggregateOf(spec) = "only" /\ Len(found.hits) # 1) THEN Refusal
    ELSE Reported(spec, found.hits, Posted(spec, Aggregate(AggregateOf(spec),
                                                           [i \in DOMAIN found.hits |-> found.hits[i].value])))
SolveMultisearch(spec) ==
    LET exprs == ToSet(spec.conditions) \cup (IF Has(spec, "objective") THEN {spec.objective} ELSE {})
    IN  IF \/ spec.variables = << >> \/ Len(spec.variables) > 6
           \/ ~IsInjective(Names(spec))
           \/ \E i \in DOMAIN spec.variables : Width(spec.variables[i]) < 1
           \/ \E e \in exprs : ~(NamesOf(e) \subseteq ToSet(Names(spec)))
           \/ Walked(spec) > TupleBudget
        THEN Refusal
        ELSE Concluded(spec, Rec(spec, 1, << >>, [hits |-> << >>, work |-> 0, err |-> "none"]))

\* probability: the same search twice, with the event among the conditions and without.
Share(total, favourable) ==
    IF ~total.ok \/ total.value.hits = << >> \/ ~favourable.ok THEN Refusal
    ELSE Ok(Frac(Len(favourable.value.hits), Len(total.value.hits)))
SolveProbability(spec) ==
    LET counting(conditions) ==
            SolveMultisearch([variables |-> spec.variables, conditions |-> conditions, ordering |-> spec.ordering])
    IN  Share(counting(spec.conditions), counting(spec.conditions \o spec.event))

-----------------------------------------------------------------------------
\* arith, iterate and search.

\* arith: every step a fraction, seen by the later ones only.
WithStep(env, s, r) == IF "" \in DOMAIN env \/ r.err # "none" THEN "" :> IntVal(0) ELSE (s.name :> Val("frac", r.v)) @@ env
Worked(env, answer) == IF "" \in DOMAIN env \/ answer.err # "none" THEN Refusal ELSE Ok(answer.v)
AnswerIn(spec, env) ==
    Worked(env, IF Has(spec, "answer") THEN Run(spec.answer, env) ELSE env[Last(spec.let).name])
SolveArith(spec) ==
    IF Len(spec.let) > 30 \/ (spec.let = << >> /\ ~Has(spec, "answer")) THEN Refusal
    ELSE AnswerIn(spec, FoldLeft(LAMBDA env, s : WithStep(env, s, Run(s.e, env)), [n \in {} |-> IntVal(0)], spec.let))

\* iterate; the two slots stand for the step acc * (multiply) + (add).
StepOf(spec) ==
    IF Has(spec, "step") THEN spec.step
    ELSE Bin("+", Bin("*", Name("acc"), spec.multiply), spec.add)
AsFraction(r) == IF r.err # "none" THEN r ELSE Val("frac", r.v)
SolveIterate(spec) ==
    LET step(acc, k) == IF acc.err # "none" THEN acc
                        ELSE AsFraction(Run(StepOf(spec), [acc |-> Val("frac", acc.v), k |-> IntVal(k)]))
        told(out) == IF out.err # "none" THEN Refusal ELSE Ok(out.v)
    IN  IF spec.to - spec.from + 1 > MaxIterations THEN Refusal
        ELSE IF ~(NamesOf(spec.init) = {} /\ NamesOf(StepOf(spec)) \subseteq {"acc", "k"}) THEN Refusal
        ELSE told(FoldLeft(step, Run(spec.init, << >>), [i \in 1 .. spec.to - spec.from + 1 |-> spec.from + i - 1]))

\* The predicates of search; an argument is a sequence, of one number for most of them.
PredicateHolds(c, n) ==
    LET a == c.arg[1]  d == Digits(n)
    IN  CASE c.op = "divisible_by"     -> a # 0 /\ PyMod(n, a) = 0
          [] c.op = "not_divisible_by" -> a # 0 /\ PyMod(n, a) # 0
          [] c.op = "mod_eq"           -> PyMod(n, a) = c.arg[2]
          [] c.op = "is_square"        -> IsSquare(n)
          [] c.op = "is_cube"          -> IsCube(n)
          [] c.op = "is_prime"         -> IsPrime(n)
          [] c.op = "square_free"      -> LET f == Factorise(n) IN \A p \in DOMAIN f : f[p] = 1
          [] c.op = "coprime_to"       -> Coprime(n, a)
          [] c.op = "divides"          -> n # 0 /\ PyMod(a, n) = 0
          [] c.op = "quotient_is_square" -> n # 0 /\ PyMod(a, n) = 0 /\ IsSquare(FloorDiv(a, n))
          [] c.op = "quotient_is_cube" -> n # 0 /\ PyMod(a, n) = 0 /\ IsCube(FloorDiv(a, n))
          [] c.op = "digit_sum_eq"     -> SumInt(d) = a
          [] c.op = "digit_count_eq"   -> Len(d) = a
          [] c.op = "digits_distinct"  -> IsInjective(d)
          [] c.op = "palindrome"       -> d = Reverse(d)
          [] c.op = "gt" -> n > a [] c.op = "ge" -> n >= a [] c.op = "lt" -> n < a [] c.op = "le" -> n <= a
          [] c.op = "eq" -> n = a [] c.op = "ne" -> n # a [] c.op = "in_set" -> n \in ToSet(c.arg)

Ascending(S) == SortSeq(FoldSet(LAMBDA d, s : Append(s, d), << >>, S), <)
\* build_domain: a range, a list, or the divisors of a number or of a factorial, in order.
Domain(d) ==
    LET divisors(f) == LET r == Divisors(f) IN IF r.ok THEN Ok(Ascending(r.value)) ELSE Refusal
    IN  CASE d.kind = "range" ->
                IF d.to < d.from \/ d.to - d.from + 1 > TupleBudget THEN Refusal
                ELSE Ok([i \in 1 .. d.to - d.from + 1 |-> d.from + i - 1])
          [] d.kind = "divisors_of" -> IF ~Factorisable(d.n) THEN Refusal ELSE divisors(Factorise(d.n))
          [] d.kind = "divisors_of_factorial" -> divisors(FactorialFactorisation(d.k))
          [] d.kind = "set" -> Ok(d.values)

\* What a predicate raises.
Breaks(c, n) == (c.op = "mod_eq" /\ c.arg[1] = 0) \/ (c.op = "square_free" /\ ~Factorisable(n))
RECURSIVE Judged(_, _)
Judged(cs, n) ==
    IF cs = << >> THEN "yes" ELSE IF Breaks(Head(cs), n) THEN "error"
    ELSE IF ~PredicateHolds(Head(cs), n) THEN "no" ELSE Judged(Tail(cs), n)

SolveSearch(spec) ==
    LET domain == Domain(spec.domain)
        hits == SelectSeq(domain.value, LAMBDA n : Judged(spec.conditions, n) = "yes")
        answer == Posted(spec, Aggregate(spec.aggregate, [i \in DOMAIN hits |-> IntVal(hits[i])]))
    IN  IF ~domain.ok THEN Refusal
        ELSE IF Len(domain.value) > TupleBudget THEN Refusal
        ELSE IF \E i \in DOMAIN domain.value : Judged(spec.conditions, domain.value[i]) = "error" THEN Refusal
        ELSE IF answer.err # "none" THEN Refusal
        ELSE Ok([value |-> answer, hits |-> hits])

-----------------------------------------------------------------------------
\* What the machines promise.

\* An expression that Python evaluates, in part, in floats: it divides an int by an int, and
\* the constants, though they are fractions then, do not reach that quotient.
RECURSIVE StaysInt(_), DividesInts(_)
StaysInt(e) ==
    \/ e.op \in {"name", "call", "//"} \cup Comparisons
    \/ e.op \in {"neg", "pos", "+", "-", "*", "%", "**"} /\ \A p \in ToSet(Parts(e)) : StaysInt(p)
DividesInts(e) ==
    \/ e.op = "/" /\ StaysInt(e.left) /\ StaysInt(e.right)
    \/ e.op = "**" /\ e.power < 0 /\ StaysInt(e.left)
    \/ \E p \in ToSet(Parts(e)) : DividesInts(p)

InFloats(spec) ==
    \/ \E c \in ToSet(spec.conditions) : DividesInts(c)
    \/ Has(spec, "objective") /\ DividesInts(spec.objective)
    \/ Has(spec, "event") /\ \E c \in ToSet(spec.event) : DividesInts(c)

\* The tuples that a spec describes, found by looking at all of them in exact arithmetic.
\* A condition without a variable is never looked at, and a tuple for which a condition or
\* the objective divides by zero does not count: so the code has it.
Tuples(spec) == {t \in [DOMAIN spec.variables -> UNION {v.from .. v.to : v \in ToSet(spec.variables)}] :
                   \A i \in DOMAIN t : t[i] \in spec.variables[i].from .. spec.variables[i].to}
Binding(spec, t) == [n \in ToSet(Names(spec)) |-> IntVal(t[CHOOSE i \in DOMAIN t : Names(spec)[i] = n])]
Increasing(spec, t) ==
    \A i \in 1 .. Len(t) - 1 :
        CASE spec.ordering = "none" -> TRUE
          [] spec.ordering = "increasing" -> t[i] <= t[i + 1]
          [] spec.ordering = "strict_increasing" -> t[i] < t[i + 1]
Described(spec, conditions) ==
    {t \in Tuples(spec) :
        /\ Increasing(spec, t)
        /\ \A c \in ToSet(conditions) :
              NamesOf(c) # {} => LET r == EvalExpr(c, Binding(spec, t), "exact") IN r.err = "none" /\ r.v # Zero
        /\ Has(spec, "objective") => EvalExpr(spec.objective, Binding(spec, t), "exact").err = "none"}

Earlier(s, t) == \E i \in DOMAIN s : s[i] < t[i] /\ \A j \in 1 .. i - 1 : s[j] = t[j]

\* A search finds exactly the tuples described, each once and in order, and gives of each what
\* the objective comes to.
FindsAll(spec, o) ==
    o.ok =>
      LET hits == o.value.hits
      IN  /\ {hits[i].tuple : i \in DOMAIN hits} = Described(spec, spec.conditions)
          /\ \A i \in 1 .. Len(hits) - 1 : Earlier(hits[i].tuple, hits[i + 1].tuple)
          /\ Has(spec, "objective") =>
                \A i \in DOMAIN hits : hits[i].value.v = EvalExpr(spec.objective, Binding(spec, hits[i].tuple), "exact").v

ProbabilityExact(spec, o) ==
    o.ok => o.value = Frac(Cardinality(Described(spec, spec.conditions \o spec.event)),
                           Cardinality(Described(spec, spec.conditions)))

\* The search over numbers and the search over tuples find the same, the conditions of the one
\* written as expressions for the other.
AsExpression(c) ==
    LET n == Name("n")  a == Const(c.arg[1])
    IN  CASE c.op = "divisible_by" -> Compare("==", Bin("%", n, a), Const(0))
          [] c.op = "mod_eq" -> Compare("==", Bin("%", n, a), Const(c.arg[2]))
          [] c.op = "divides" -> Joined("and", Compare("!=", n, Const(0)), Compare("==", Bin("%", a, n), Const(0)))
          [] c.op = "is_square" -> Call("is_square", <<n>>)
          [] c.op = "is_prime" -> Call("is_prime", <<n>>)
          [] c.op = "digit_sum_eq" -> Compare("==", Call("digit_sum", <<n>>), a)
          [] c.op = "coprime_to" -> Compare("==", Call("gcd", <<n, a>>), Const(1))
          [] c.op = "ge" -> Compare(">=", n, a)
          [] c.op = "eq" -> Compare("==", n, a)
SearchesAgree(spec, o) ==
    LET other == SolveMultisearch([variables |-> <<[name |-> "n", from |-> spec.domain.from, to |-> spec.domain.to]>>,
                                   conditions |-> [i \in DOMAIN spec.conditions |-> AsExpression(spec.conditions[i])],
                                   ordering |-> "none"])
    IN  spec.domain.kind = "range" /\ o.ok /\ other.ok =>
            o.value.hits = [i \in DOMAIN other.value.hits |-> other.value.hits[i].tuple[1]]

\* The divisors of a number, by its factors, are the numbers that divide it.
DivisorsFound(spec, o) ==
    LET n == IF spec.domain.kind = "divisors_of" THEN spec.domain.n ELSE FactorialOf(spec.domain.k)
    IN  o.ok /\ spec.domain.kind \in {"divisors_of", "divisors_of_factorial"} =>
            o.value.hits = Ascending({d \in DivisorsOf(n) : Judged(spec.conditions, d) = "yes"})

\* Named steps come to what one expression with the steps written out comes to.
RECURSIVE Inlined(_, _)
Inlined(e, meaning) ==
    CASE e.op = "name" -> IF e.name \in DOMAIN meaning THEN meaning[e.name] ELSE e
      [] e.op = "const" -> e
      [] e.op \in {"neg", "pos", "**"} -> [e EXCEPT !.left = Inlined(@, meaning)]
      [] OTHER -> [e EXCEPT !.left = Inlined(@, meaning), !.right = Inlined(@, meaning)]
ArithRight(spec, o) ==
    LET step(meaning, s) == (s.name :> Inlined(s.e, meaning)) @@ meaning
        meaning == FoldLeft(step, [n \in {} |-> Const(0)], spec.let)
    IN  o.ok => EvalExpr(Inlined(spec.answer, meaning), << >>, "exact").v = o.value

\* Times m and plus b, over and over, has a closed form.
IterateRight(spec, o) ==
    o.ok /\ ~Has(spec, "step") =>
      LET n == Max({spec.to - spec.from + 1, 0})
          exact(e) == EvalExpr(e, << >>, "exact").v
          m == exact(spec.multiply)  b == exact(spec.add)
          grown == Times(Pow(m, n), exact(spec.init))
      IN  o.value = IF m = One THEN Plus(grown, Times(Int2F(n), b))
                    ELSE Plus(grown, Times(b, Over(Minus(Pow(m, n), One), Minus(m, One))))
=============================================================================
