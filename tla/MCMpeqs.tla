------------------------------ MODULE MCMpeqs ------------------------------
(***************************************************************************)
(* One Python process, which uses mpeqs or runs an experiment.  The        *)
(* conversion graph, the store of spell functions, the solvers and the     *)
(* experiments share no state, so a behaviour exercises one of them:       *)
(* which, chosen at the start.                                             *)
(***************************************************************************)
EXTENDS Dispatch, Units, PySpell, WorkPad, EqMemory, BrickLedger, BrickRoute, IslandGraph, IslandRoute

VARIABLE which

-----------------------------------------------------------------------------
\* The requests made of mpeqs: for every machine the specs with slots from small ranges, those
\* it must refuse among them.

I(n) == Int2F(n)
Ints(S) == {I(n) : n \in S}

NumberTasks == <<
    [solver : {"factor"}, n : 0 .. 60 \cup {97, 360, 1001, 1369}],
    [solver : {"factor"}, k : 1 .. 6],
    [solver : {"crt"}, residues : [1 .. 2 -> 0 .. 4], moduli : [1 .. 2 -> {2, 4, 5, 6}]],
    [solver : {"crt"}, residues : {<<1, 2, 3>>, <<1, 1, 0>>}, moduli : {<<3, 4, 5>>, <<4, 6, 10>>, <<2, 0, 3>>}],
    [solver : {"gcd_lcm"}, values : [1 .. 2 -> {-6, 0, 1, 4, 6, 15}]],
    [solver : {"gcd_lcm"}, values : {<<4, 6>>}, report : {"gcd", "mean"}],
    [solver : {"modular"}, kind : {"power"}, base : 0 .. 7, exponent : 0 .. 6, modulus : {1, 5, 12}],
    [solver : {"modular"}, kind : {"inverse", "order"}, a : 0 .. 9, modulus : {1, 7, 9, 10}],
    [solver : {"modular"}, kind : {"totient"}, n : 0 .. 40],
    [solver : {"primes"}, kind : {"nth"}, n : 0 .. 12],
    [solver : {"primes"}, kind : {"count", "sum"}, from : {0, 5, 13}, to : {13, 30, 49}],
    [solver : {"primes"}, kind : {"next"}, value : {1, 24, 89, 1368}],
    [solver : {"digit_ops"}, n : {0, -120, 1331}],
    [solver : {"digit_ops"}, n : {12, 28}, report : {"divisor_sum", "reversed"}],
    [solver : {"base_convert"}, n : {-35, 0, 7, 255}, base : {1, 2, 7, 36}],
    [solver : {"basearith"}, values : {<<<<1, 2>>, <<3>>>>, <<<<1, 0, 1>>, <<1, 1>>>>, <<<<2>>, <<4, 5>>>>},
        from_base : {2, 6, 10}, to_base : {3, 16}, op : {"add", "subtract", "multiply"}],
    [solver : {"roman"}, number : 0 .. 60 \cup {1994, 3999, 4000}],
    [solver : {"checksum"}, kind : {"isbn10"}, code : {<<0, 3, 0, 6, 4, 0, 6, 1, 5>>, <<1, 2, 3, 4, 5, 6, 7, 8, 9>>}],
    [solver : {"checksum"}, kind : {"isbn13"}, code : {<<9, 7, 8, 0, 3, 0, 6, 4, 0, 6, 1, 5>>}],
    [solver : {"checksum"}, kind : {"luhn"}, code : {<<7, 9, 9, 2>>, <<0, 1, 8>>}] >>

Entries == Ints({-1, 0, 2})
Square2 == [1 .. 2 -> [1 .. 2 -> Entries]]
Square3 == {<<a, b, <<I(2), I(1), I(1)>>>> : a, b \in [1 .. 3 -> Ints({0, 1})]}
Points == Ints({0, 1, 3}) \X Ints({0, 2})
Sides(S) == {<<[x |-> TRUE, c |-> I(a)], [x |-> FALSE, c |-> I(b)], [x |-> TRUE, c |-> <<1, 2>>]>> : a, b \in S}

AlgebraTasks == <<
    [solver : {"linear_system"}, rows : Square2, rhs : {<<I(1), I(3)>>}],
    [solver : {"linear_system"}, rows : Square3, rhs : {<<I(1), I(0), I(2)>>, <<I(1), I(1)>>}],
    [solver : {"matrix"}, kind : {"determinant", "inverse"}, matrix : Square2 \cup Square3],
    [solver : {"matrix"}, kind : {"multiply"}, matrix : {<<<<I(1), I(2)>>, <<I(3), I(4)>>>>}, b : Square2],
    [solver : {"matrix"}, kind : {"power"}, matrix : {<<<<I(1), I(1)>>, <<I(1), I(0)>>>>}, exponent : 0 .. 6 \cup {65}],
    [solver : {"quadratic"}, a : Ints(-2 .. 2), b : Ints(-3 .. 3), c : Ints({-3, -1, 0, 2, 3})],
    [solver : {"polynomial"}, coefficients : {<<>>, <<I(0), I(2)>>} \cup
        {<<I(a), I(b), I(c), I(d)>> : a \in {0, 1, 2}, b \in {-3, 1}, c \in {-2, 0}, d \in {-1, 0, 6}}],
    [solver : {"polynomial"}, coefficients : {<<I(2), I(-3), I(1)>>}, at : {I(5), <<1, 2>>}],
    [solver : {"equation"}, left : Sides({0, 2}), right : Sides({-1, 0})],
    [solver : {"geometry"}, kind : {"polygon_area", "circle_through"}, points : [1 .. 3 -> Points]],
    [solver : {"geometry"}, kind : {"line_intersection"}, line1 : {<<I(1), I(2), I(3)>>, <<I(0), I(1), I(1)>>},
        line2 : [1 .. 3 -> Ints({0, 1, 2})]],
    [solver : {"geometry"}, kind : {"triangle_sides"}, sides : [1 .. 3 -> Ints({1, 2, 3})]] >>

Words == {<<"a">>, <<"a", "b", "a">>, <<"a", "b", "b", "a">>, <<"a", "b", "c", "a">>, << >>}
Sizes(s) ==
    LET of(n) == s[IF n = "p" THEN 1 ELSE IF n = "q" THEN 2 ELSE 3]
    IN  [c \in SUBSET {"p", "q", "r"} \ {{}} |-> Cardinality({e \in UNION ToSet(s) : \A n \in c : e \in of(n)})]
ThreeSets == [1 .. 3 -> {{}, {1, 2}, {2, 3, 4}}]

SeriesTasks == <<
    [solver : {"series"}, kind : {"arithmetic"}, first : Ints({-1, 2}), step : Ints({-2, 0, 3}), terms : 0 .. 5],
    [solver : {"series"}, kind : {"geometric", "infinite"}, first : {I(3)}, ratio : {I(1), I(-2), <<1, 2>>, <<-2, 3>>}, terms : {0, 4}],
    [solver : {"combinatorics"}, kind : {"choose", "permute", "stars_and_bars"}, n : 0 .. 4, k : 0 .. 4],
    [solver : {"combinatorics"}, kind : {"factorial", "derangement"}, n : 0 .. 5],
    [solver : {"recurrence"}, coefficients : {<<I(1), I(1)>>, <<I(2), I(-1)>>, <<I(1), I(-6), I(8)>>},
        initial : {<<I(0), I(1)>>, <<I(2), <<1, 2>>>>}, n : 0 .. 5],
    [solver : {"rate_work"}, times : {<<I(2), I(3)>>, <<<<1, 2>>, I(4), I(4)>>, <<I(0), I(1)>>}],
    [solver : {"ratio_split"}, total : Ints({10, 7}), ratio : {<<I(1), I(2)>>, <<I(3), I(3), <<1, 2>>>>, <<I(1), I(-1)>>}],
    [solver : {"mixture"}, quantities : {<<I(1), I(3)>>, <<I(1), I(-1)>>}, concentrations : {<<<<1, 2>>, I(1)>>, <<I(1)>>}],
    [solver : {"interest"}, principal : {I(100)}, rate : {<<1, 10>>, I(0)}, periods : {I(0), I(2), I(3), <<1, 2>>}, kind : {"simple", "compound"}],
    [solver : {"finance"}, kind : {"annuity"}, principal : {I(100)}, rate : {<<1, 10>>, I(0), I(-1)}, periods : {I(0), I(1), I(3)}],
    [solver : {"finance"}, kind : {"percent_chain"}, start : {I(50)}, changes : {<<I(20), I(-20)>>}],
    [solver : {"finance"}, kind : {"vat"}, net : {I(50)}, rate : {<<1, 4>>, I(25)}],
    [solver : {"statistics"}, values : {<<I(4)>>, <<I(1), I(5), I(2)>>, <<I(3), I(1), I(3), I(-2)>>, << >>}],
    [solver : {"shape"}, shape : {"circle", "sphere", "cone"}, radius : {<<3, 2>>}, height : {I(4)}, report : {"area", "perimeter", "volume", "surface"}],
    [solver : {"shape"}, shape : {"cube", "box", "cylinder"}, side : {I(3)}, radius : {I(2)}, height : {I(4)}, length : {I(5)}, width : {I(1)}, report : {"volume", "surface"}],
    {[solver |-> "inclusion_exclusion", sets |-> s, sizes |-> Sizes(s), total |-> 6] : s \in ThreeSets},
    [solver : {"sequence"}, terms : {<<I(1), I(3), I(5), I(7)>>, <<I(2), I(6), I(18)>>, <<I(1), I(4), I(9), I(16)>>,
        <<I(0), I(1), I(1), I(2), I(3)>>, <<I(1), I(2), I(4), I(7), I(12)>>, <<I(5), I(7)>>}, n : 0 .. 6],
    [solver : {"partition"}, kind : {"unordered", "ordered", "distinct"}, parts : {<<1, 2>>, <<1, 2, 3>>, <<2, 3>>, <<2, 0>>}, total : 0 .. 6],
    [solver : {"logexp"}, kind : {"integer_log"}, base : {1, 2, 3}, value : {0, 1, 8, 9, 10}],
    [solver : {"logexp"}, kind : {"digits_of_power"}, base : {0, 2, 10}, exponent : {0, 5, 7}],
    [solver : {"logexp"}, kind : {"trailing_zeros_factorial"}, n : {0, 4, 5, 10, 12}],
    [solver : {"approx"}, kind : {"convergents", "continued_fraction"}, value : {<<7, 5>>, <<-7, 3>>, I(4), <<22, 9>>}, terms : {2, 6}],
    [solver : {"strcount"}, kind : {"arrangements", "distinct_letters", "is_palindrome"}, word : Words],
    [solver : {"strcount"}, kind : {"letter_count"}, word : Words, letter : {"a"}],
    [solver : {"datetime"}, from_year : {1600, 1875}, to_year : {1999, 2000, 2274}] >>

Speeds == Ints({-1, 0, 3})
MotionTasks == <<
    [solver : {"kinematics"}, find : {"v", "s"}, u : Speeds, a : Ints({-2, 0, 2}), t : Ints({0, 1, 2})],
    [solver : {"kinematics"}, find : {"v", "t"}, u : Speeds, a : Ints({-2, 0, 2}), s : Ints({0, 2, 4})],
    [solver : {"kinematics"}, find : {"a", "t"}, u : Speeds, v : Speeds, s : Ints({0, 2, 4})],
    [solver : {"kinematics"}, find : {"u", "a"}, s : Ints({0, 2, 4}), v : Speeds, t : Ints({0, 1, 2})],
    [solver : {"kinematics"}, find : {"u"}, v : Speeds, t : Ints({0, 1})] >>

Variable(n, lo, hi) == [name |-> n, from |-> lo, to |-> hi]
A == Name("a")  B == Name("b")  N == Name("n")
C(n) == Const(n)
Eq(l, r) == Compare("==", l, r)
Pair(lo, hi) == <<Variable("a", lo, hi), Variable("b", lo, hi)>>
Conditions == <<
    Eq(Bin("+", A, B), C(4)), Eq(Bin("*", A, B), C(6)), Eq(Bin("-", Bin("*", C(2), B), A), C(1)),
    Eq(Bin("%", Bin("+", A, B), C(3)), C(0)), Compare("<", Bin("//", C(6), A), B), Eq(Call("gcd", <<A, B>>), C(1)),
    Eq(Bin("/", B, A), Bin("/", B, C(2))), Compare(">", A, C(1)), Eq(Call("digit_sum", <<B>>), C(2)),
    Eq(C(1), C(0)), Eq(Raised(A, 2), B), Joined("or", Eq(A, C(0)), Eq(Bin("%", B, A), C(0))),
    Eq(Bin("/", A, B), Bin("/", C(1), C(3))), Eq(Bin("+", Bin("/", A, B), Bin("/", C(1), C(3))), C(1)) >>
Chosen == {<< >>} \cup {<<Conditions[i]>> : i \in DOMAIN Conditions}
             \cup {<<Conditions[i], Conditions[j]>> : i, j \in {1, 3, 4, 7, 8}}
Orderings == {"none", "increasing", "strict_increasing"}
Objectives == {Bin("*", A, B), Bin("/", Bin("+", A, C(1)), B), Bin("/", A, B)}
Digital == <<Variable("n", 0, 14)>>

SearchTasks == <<
    [solver : {"multisearch"}, variables : {Pair(0, 3), Pair(1, 4), <<Variable("a", 1, 2), Variable("b", 2, 1)>>},
        conditions : Chosen, ordering : Orderings, aggregate : {"count"}],
    [solver : {"multisearch"}, variables : {Pair(0, 2)}, conditions : {<< >>, <<Conditions[1]>>, <<Conditions[7]>>},
        ordering : {"none"}, objective : Objectives, aggregate : {"sum", "product", "min", "max", "only"}],
    [solver : {"multisearch"}, variables : {Pair(1, 3)}, conditions : {<<Conditions[4]>>},
        ordering : {"none"}, objective : {Bin("*", A, B)}, aggregate : {"sum", "product"},
        post : [op : {"mod", "digit_sum", "exponent_sum", "add"}, arg : {5}]],
    [solver : {"multisearch"}, variables : {Digital}, ordering : {"none"}, aggregate : {"count"},
        conditions : {<<Eq(Call("digit_sum", <<N>>), C(3))>>, <<Eq(Bin("*", N, N), C(9))>>, <<Call("is_prime", <<N>>)>>,
                      <<Eq(Call("num_divisors", <<N>>), C(4)), Call("is_square", <<Bin("+", N, C(1))>>)>>}],
    [solver : {"multisearch"}, variables : {<<Variable("a", 0, 2), Variable("b", 0, 2), Variable("n", 0, 4)>>, Pair(0, 9)},
        conditions : {<<Eq(Bin("+", Bin("*", A, B), N), C(4))>>, <<Eq(Bin("-", B, A), C(1))>>, <<Eq(Bin("*", A, B), C(4))>>},
        ordering : {"none", "increasing"}],
    [solver : {"probability"}, variables : {Pair(1, 3)}, ordering : {"none", "strict_increasing"},
        conditions : {<< >>, <<Conditions[4]>>, <<Compare(">", A, C(5))>>}, event : {<<Conditions[i]>> : i \in DOMAIN Conditions}],
    [solver : {"search"}, domain : [kind : {"range"}, from : {0, 1, 5}, to : {4, 16}], aggregate : {"count", "sum", "max"},
        conditions : {<<[op |-> "divisible_by", arg |-> <<3>>]>>, <<[op |-> "divisible_by", arg |-> <<0>>]>>,
                      <<[op |-> "mod_eq", arg |-> <<4, 1>>], [op |-> "is_prime", arg |-> <<0>>]>>,
                      <<[op |-> "divides", arg |-> <<12>>], [op |-> "ge", arg |-> <<2>>]>>,
                      <<[op |-> "is_square", arg |-> <<0>>], [op |-> "coprime_to", arg |-> <<6>>]>>,
                      <<[op |-> "digit_sum_eq", arg |-> <<5>>]>>, <<[op |-> "eq", arg |-> <<9>>]>>}],
    [solver : {"search"}, domain : [kind : {"divisors_of"}, n : {0, 12, 36, 60}], aggregate : {"list", "product"},
        conditions : {<< >>, <<[op |-> "quotient_is_square", arg |-> <<36>>]>>, <<[op |-> "square_free", arg |-> <<0>>]>>}],
    [solver : {"search"}, domain : [kind : {"divisors_of_factorial"}, k : {3, 4}], aggregate : {"min"},
        conditions : {<<[op |-> "quotient_is_cube", arg |-> <<24>>]>>, <<[op |-> "is_cube", arg |-> <<0>>]>>}],
    [solver : {"search"}, domain : [kind : {"set"}, values : {<<11, 3, 121>>}], aggregate : {"list"},
        conditions : {<<[op |-> "palindrome", arg |-> <<0>>]>>, <<[op |-> "digits_distinct", arg |-> <<0>>]>>,
                      <<[op |-> "digit_count_eq", arg |-> <<2>>]>>, <<[op |-> "not_divisible_by", arg |-> <<2>>]>>,
                      <<[op |-> "gt", arg |-> <<3>>], [op |-> "lt", arg |-> <<100>>]>>,
                      <<[op |-> "le", arg |-> <<11>>], [op |-> "ne", arg |-> <<3>>], [op |-> "in_set", arg |-> <<3, 11>>]>>}],
    [solver : {"arith"}, let : {<<[name |-> "a", e |-> Bin("-", C(7), C(3))], [name |-> "b", e |-> Bin("/", A, C(3))]>>,
                                 <<[name |-> "a", e |-> Raised(C(2), -1)], [name |-> "b", e |-> Bin("*", A, A)]>>,
                                 <<[name |-> "b", e |-> A], [name |-> "a", e |-> C(2)]>>},
        answer : {Bin("/", A, B), Bin("+", B, Signed("neg", A)), Bin("/", A, Bin("-", B, B)), Name("z")}],
    [solver : {"iterate"}, init : {C(5), Bin("/", C(3), C(7))}, multiply : {C(1), Bin("/", C(2), C(3)), C(-1)},
        add : {C(0), Bin("/", C(1), C(4))}, from : {1, 3}, to : {0, 4, 40}],
    [solver : {"iterate"}, init : {C(1)}, step : {Bin("*", Name("acc"), Name("k")), Bin("/", C(1), Bin("-", Name("k"), C(2)))}, from : {1}, to : {3}] >>

MCTasks == NumberTasks \o AlgebraTasks \o SeriesTasks \o MotionTasks \o SearchTasks

MCMisnamed == <<
    [solver : {"crt"}, residues : {<<1, 2>>}, moduli : {<<3, 4>>, <<2, 4>>}],
    [solver : {"recurrence"}, coefficients : {<<I(1), I(1)>>}, initial : {<<I(0), I(1)>>}, n : {5}],
    [solver : {"polynomial"}, coefficients : {<<I(1), I(-3), I(2)>>}],
    [solver : {"linear_system"}, rows : {<<<<I(1), I(2)>>, <<I(3), I(4)>>>>}, rhs : {<<I(1), I(1)>>}],
    [solver : {"quadratic"}, a : Ints({1}), b : Ints({-3}), c : Ints({2})],
    [solver : {"rate_work"}, times : {<<I(2), I(3)>>}],
    [solver : {"ratio_split"}, total : Ints({10}), ratio : {<<I(1), I(2)>>}],
    [solver : {"mixture"}, quantities : {<<I(1), I(3)>>}, concentrations : {<<<<1, 2>>, I(1)>>}],
    [solver : {"interest"}, principal : {I(100)}, rate : {<<1, 10>>}, periods : {I(2)}],
    [solver : {"base_convert"}, n : {35}, base : {7}],
    [solver : {"geometry"}, kind : {"polygon_area"}, points : {<<<<I(0), I(0)>>, <<I(1), I(0)>>, <<I(0), I(1)>>>>}],
    [solver : {"gcd_lcm"}, values : {<<4, 6>>}],
    [solver : {"modular"}, kind : {"inverse"}, a : {3}, modulus : {7}],
    [solver : {"multisearch"}, variables : {Pair(1, 3)}, conditions : {<<Conditions[1]>>}, ordering : {"none"}],
    [solver : {"arith"}, let : {<<[name |-> "a", e |-> C(2)]>>}, answer : {Bin("+", A, A)}],
    [solver : {"factor"}, n : {28}, report : {"divisor_sum"}],
    [solver : {"gcd_lcm"}, values : {<<4, 6>>}, report : {"lcm"}] >>

X == Var
Trees1 == {X, C(0), C(3)}
Trees2 == Trees1 \cup {Bin(op, u, v) : op \in {"+", "-", "*", "/"}, u \in Trees1, v \in Trees1}
                 \cup {Raised(u, n) : u \in Trees1, n \in {-1, 0, 1, 3}} \cup {Signed("neg", u) : u \in Trees1}
Trees3 == Trees2 \cup {Bin(op, u, Bin("+", X, C(1))) : op \in {"+", "-", "*", "/"}, u \in Trees2}
                 \cup {Raised(Bin("-", Bin("*", X, X), C(1)), n) : n \in {-2, 0, 2, 3, 5}}
                 \cup {Raised(u, 2) : u \in Trees2} \cup {Signed("pos", u) : u \in Trees2}

S(n) == Name(n)
Count3 == <<Assign("y", C(1)), Assign("i", C(0))>>
Loop(body) == Count3 \o <<While(Compare("<", S("i"), C(3)), body), ReturnOf(S("y"))>>
Next1 == AugAssign("i", "+", C(1))
Spells(place) == {
    [body |-> <<ReturnOf(Bin("/", Raised(S("x"), 2), C(2)))>>, computes |-> Bin("/", Raised(X, 2), C(2))],
    [body |-> Loop(<<Assign("y", Bin("*", S("y"), S("x"))), Next1>>), computes |-> Raised(X, 3)],
    [body |-> Loop(<<Next1, If(Compare("==", S("i"), C(2)), <<Word("continue")>>, << >>), AugAssign("y", "*", S("x"))>>),
     computes |-> Raised(X, 2)],
    [body |-> Loop(<<If(Not(Compare("<", S("i"), C(1))), <<Word("break")>>, <<Word("pass")>>), AugAssign("y", "+", S("x")), Next1>>),
     computes |-> Bin("+", C(1), X)],
    [body |-> Loop(<<AugAssign("y", "*", S("x")), Next1, If(Joined("and", Compare(">", S("i"), C(1)), Compare("!=", S("x"), C(0))),
                     <<ReturnOf(Bin("-", S("y"), C(5)))>>, << >>)>>),
     computes |-> IF place = Zero THEN Raised(X, 3) ELSE Raised(X, 2)],
    [body |-> <<If(Joined("or", Compare("<", S("x"), C(0)), Compare(">=", S("x"), C(9))), <<ReturnOf(Signed("neg", S("x")))>>,
                   <<ReturnOf(Bin("-", S("x"), C(1)))>>)>>,
     computes |-> IF Less(place, Zero) THEN Signed("neg", X) ELSE X],
    [body |-> <<While(Compare("<=", C(0), C(1)), <<Word("pass")>>), ReturnOf(S("x"))>>, computes |-> X],
    [body |-> <<AugAssign("z", "+", S("x")), ReturnOf(S("z"))>>, computes |-> X] }
At == {I(0), I(2), <<-1, 2>>}

MCCalculations == <<
    [solver : {"derivative_at", "grad", "differentiate", "integrate"}, tree : Trees3, at : At],
    {[solver |-> "grad_pyspell", at |-> p[1], body |-> p[2].body, computes |-> p[2].computes] :
        p \in UNION {{place} \X Spells(place) : place \in At}},
    [solver : {"solve_quadratic"}, a : Ints(-1 .. 2), b : Ints({-3, 0, 1}), c : Ints({-2, 0, 1})],
    [solver : {"solve_linear"}, a : Ints({0, 2}), b : Ints({3})] >>

-----------------------------------------------------------------------------
\* Tables of conversions: a tree with an island, one whose entries disagree, cycles with two
\* entries for one pair, a chain, a pair written twice, two ways of different length.
Entry(a, b, n) == [a |-> a, b |-> b, f |-> I(n)]
MCTables ==
    { <<Entry("day", "hour", 24), Entry("day", "minute", 1440), Entry("hour", "minute", 60), Entry("kg", "gram", 1000)>>,
      <<Entry("day", "hour", 24), Entry("day", "minute", 1400), Entry("hour", "minute", 60)>>,
      <<Entry("day", "hour", 2), Entry("hour", "minute", 3), Entry("minute", "second", 5), Entry("day", "second", 30),
        Entry("second", "day", 2)>>,
      <<Entry("day", "hour", 24), Entry("hour", "minute", 60), Entry("minute", "second", 60)>>,
      <<Entry("day", "hour", 24), Entry("day", "hour", 23), Entry("hour", "minute", 60)>>,
      <<Entry("day", "hour", 24), Entry("hour", "minute", 60), Entry("shift", "minute", 480), Entry("week", "shift", 21),
        Entry("week", "day", 7)>> }
MCRequests ==
    {[op |-> "factor", from |-> <<"x", "minute">>, to |-> <<"day">>],
     [op |-> "path", from |-> <<"day">>, to |-> <<"second">>],
     [op |-> "factor", from |-> <<"gram">>, to |-> <<"day">>],
     [op |-> "compare", from |-> <<"minute">>, to |-> <<"day">>, value |-> <<3, 2>>, other |-> I(2160)]}

\* Sources: two functions under one name and one under another, a text that does not compile
\* and one that holds two functions.  Jobs: calls of those of "f" and of two functions, pairs with "g".
MCSources ==
    {[defs |-> 1, name |-> "f", body |-> "double", compiles |-> TRUE],
     [defs |-> 1, name |-> "f", body |-> "square", compiles |-> TRUE],
     [defs |-> 1, name |-> "f", body |-> "import", compiles |-> FALSE],
     [defs |-> 1, name |-> "g", body |-> "halve", compiles |-> TRUE],
     [defs |-> 2, name |-> "g", body |-> "two", compiles |-> TRUE]}
MCInverses == {<<"double", "halve">>}
MCJobs ==
    {[op |-> "call", sources |-> <<s>>] : s \in {x \in MCSources : x.body # "halve"}}
    \cup {[op |-> "check_bijective", sources |-> <<s, t>>] :
            s \in {x \in MCSources : x.name = "f" /\ x.compiles}, t \in {x \in MCSources : x.body = "halve"}}

-----------------------------------------------------------------------------
\* Experiments.  A record over exact fractions, one of them zero.
MCGivens == <<I(2), Zero>>

MCApply(a, op, b) == IF op = "+" THEN Plus(a, b) ELSE Over(a, b)
MCDefined(a, op, b) == op # "/" \/ b # Zero

\* Equations of the kinds the experiment draws: whole, without an x-term on the right, without a
\* constant on the left, with mixed denominators, with halves and lead difference one; and two that
\* no bit tells apart, of which the second does not land by the best road of the first.
Halves(n) == Frac(n, 2)
MCEquations ==
    { <<I(2), I(3), I(1), I(5)>>,
      <<Frac(7, 2), Halves(5), Zero, Frac(4, 3)>>,
      <<One, Halves(1), Zero, Halves(3)>>,
      <<I(2), Zero, Halves(1), Halves(3)>>,
      <<Frac(5, 4), Frac(7, 5), Frac(1, 4), Frac(3, 4)>>,
      <<Halves(3), Halves(1), Halves(1), Halves(3)>>,
      <<Frac(5, 6), Halves(1), Frac(1, 3), Halves(5)>>,
      <<Frac(5, 6), Halves(1), Halves(1), Halves(5)>> }

\* Two two-sided quotes, a toll with a free way back, and a plain rate; every connected path of
\* up to three bricks.
MCRate == [n \in {<<"usd", "nok">>, <<"nok", "usd">>, <<"eur", "usd">>, <<"usd", "eur">>,
                  <<"eur", "nok">>, <<"nok", "eur">>, <<"west", "east">>, <<"east", "west">>} |->
    CASE n = <<"usd", "nok">> -> <<I(4), Zero>>
      [] n = <<"nok", "usd">> -> <<Frac(1, 5), Zero>>
      [] n = <<"eur", "usd">> -> <<I(2), Zero>>
      [] n = <<"usd", "eur">> -> <<Frac(2, 3), Zero>>
      [] n = <<"eur", "nok">> -> <<I(7), Zero>>
      [] n = <<"nok", "eur">> -> <<Frac(1, 7), Zero>>
      [] n = <<"west", "east">> -> <<One, I(-25)>>
      [] n = <<"east", "west">> -> <<One, Zero>>]
MCTwoSided == DOMAIN MCRate \ {<<"eur", "nok">>, <<"nok", "eur">>}
Connected(p) == \A i \in 1 .. Len(p) - 1 : p[i][2] = p[i + 1][1]
MCPaths == {p \in UNION {[1 .. k -> DOMAIN MCRate] : k \in 1 .. 3} : Connected(p)}
MCInput == I(100)

\* Volumes, times and temperatures; the types that two exponents can make.
MCUnits == {"gallon", "litre", "ml", "hour", "minute", "celsius", "fahrenheit", "kelvin"}
Both(a, b, s, o) ==
    {[src |-> a, dst |-> b, t |-> <<s, o>>],
     [src |-> b, dst |-> a, t |-> <<Inv(s), Neg(Over(o, s))>>]}
MCBricks ==
    Both("gallon", "litre", I(4), Zero) \cup Both("litre", "ml", I(1000), Zero)
    \cup Both("hour", "minute", I(60), Zero)
    \cup Both("celsius", "fahrenheit", Frac(9, 5), I(32))
    \cup Both("celsius", "kelvin", One, I(273))
Exponents(a, m, b, n) ==
    [u \in MCUnits |-> (IF u = a THEN m ELSE 0) + (IF u = b THEN n ELSE 0)]
MCTypes ==
    {Exponents(u, 1, u, 0) : u \in MCUnits}
    \cup {Exponents(a, 1, b, -1) : a \in {"gallon", "ml", "celsius", "kelvin"}, b \in {"hour", "minute"}}
    \cup {Exponents("gallon", 1, b, -2) : b \in {"hour", "minute"}}
    \cup {Exponents("ml", 1, b, -2) : b \in {"hour", "minute"}}
    \cup {Exponents("celsius", -1, "gallon", 1), Exponents("fahrenheit", 1, "hour", -1)}

\* A volume over a volume, for CoversCompounds: on the way the two can become the same unit.
MCRatios == {Exponents("ml", 1, "litre", -1), Exponents("gallon", 1, "litre", -1)}

MCDim == [u \in MCUnits |->
    IF u \in {"gallon", "litre", "ml"} THEN "volume" ELSE IF u \in {"hour", "minute"} THEN "time" ELSE "warmth"]
MCBase == [u \in MCUnits |->
    CASE u = "gallon" -> <<I(4), Zero>> [] u = "litre" -> Identity [] u = "ml" -> <<Frac(1, 1000), Zero>>
      [] u = "hour" -> <<I(60), Zero>> [] u = "minute" -> Identity
      [] u = "celsius" -> <<One, I(273)>> [] u = "kelvin" -> Identity
      [] u = "fahrenheit" -> <<Frac(5, 9), Minus(I(273), Frac(160, 9))>>]

\* Every system of up to three definitions, "z" never among them, where machines answer in numbers or, but
\* for those that use two names, in words; for CycleIsCycle, bodies with a slot called like an island.
MCNames == {"a", "b", "c"}
IslandBody(machine, refs, slots) == [machine |-> machine, refs |-> refs, slots |-> slots]
MCBodies ==
    {IslandBody(FALSE, R, {}) : R \in SUBSET (MCNames \cup {"z"})} \cup {IslandBody(TRUE, R, {}) : R \in SUBSET MCNames}
    \cup {IslandBody(TRUE, R, {"verbose"}) : R \in {{}} \cup {{n} : n \in MCNames}}
MCNameLength == [n \in MCNames |-> IF n = "b" THEN 2 ELSE 1]

\* A sum, that of a machine doubled.
MCMakes(body, v) ==
    LET sum == MapThenSumSet(LAMBDA m : v[m].value, DOMAIN v)
    IN  [text |-> "verbose" \in body.slots, value |-> IF body.machine THEN 1 + 2 * sum ELSE 1 + sum]
MCSlotBodies == MCBodies \cup {IslandBody(TRUE, R, {"a"}) : R \in SUBSET MCNames}

\* Every list of up to three types.
MCHaves == UNION {[1 .. k -> IslandTypes] : k \in 1 .. 3}

-----------------------------------------------------------------------------
\* The process.

AnyOf(Among) == CHOOSE x \in Among : TRUE

\* A part that is not exercised stays in one initial state.
MpeqsInit ==
    /\ which \in {"units", "spell", "library", "record", "memory", "ledger", "bricks", "islands", "roads"}
    /\ which = "units" \/ edges = AnyOf(Tables)
    /\ UnitsInit /\ SpellInit /\ LibraryInit
    /\ PadInit /\ MemInit
    /\ which = "ledger" \/ path = [j \in Computations |-> AnyOf(Paths)]
    /\ LedgerInit
    /\ which = "bricks" \/ (held = AnyOf(BrickTypes) /\ wanted = held)
    /\ BrickInit
    /\ which = "islands" \/ defs = << >>
    /\ GraphInit
    /\ which = "roads" \/ (have = AnyOf(Haves) /\ sought = AnyOf(IslandTypes))
    /\ RouteInit

Kept(part, vs) == IF which = part THEN TRUE ELSE UNCHANGED vs

\* What a step of a part leaves alone.
Others ==
    /\ UNCHANGED which
    /\ Kept("units", unitsVars) /\ Kept("spell", spellVars) /\ Kept("library", libraryVars)
    /\ Kept("record", padVars) /\ Kept("memory", memVars)
    /\ Kept("ledger", ledgerVars) /\ Kept("bricks", brickVars)
    /\ Kept("islands", graphVars) /\ Kept("roads", routeVars)

MpeqsNext ==
    \/ which = "units" /\ UnitsNext /\ Others
    \/ which = "spell" /\ SpellNext /\ Others
    \/ which = "library" /\ LibraryNext /\ Others
    \/ which = "record" /\ PadNext /\ Others
    \/ which = "memory" /\ MemNext /\ Others
    \/ which = "ledger" /\ LedgerNext /\ Others
    \/ which = "bricks" /\ Expand /\ Others
    \/ which = "islands" /\ GraphNext /\ Others
    \/ which = "roads" /\ RouteNext /\ Others

mpeqsVars ==
    <<which, unitsVars, spellVars, libraryVars, padVars, memVars, ledgerVars, brickVars, graphVars, routeVars>>

\* As in Units and PySpell: a thread inside a call is scheduled.  An experiment runs on.
MpeqsFairness ==
    /\ \A t \in Threads : WF_unitsVars(which = "units" /\ UnitsStep(t) /\ Others)
    /\ \A u \in Users : WF_spellVars(which = "spell" /\ SpellStep(u) /\ Others)
    /\ WF_graphVars(which = "islands" /\ GraphNext /\ Others)

MpeqsSpec == MpeqsInit /\ [][MpeqsNext]_mpeqsVars /\ MpeqsFairness

-----------------------------------------------------------------------------
\* The parts keep their types.
MpeqsTypeOK == UnitsTypeOK /\ SpellTypeOK /\ LibraryTypeOK /\ PadTypeOK

\* What is found by a search from type to type is right, over bricks (bricks2.py) and over machines
\* (islands.py), and what is not found is not there.
WaysFound == RoutesSound /\ RoadsRight

\* Every call comes back: conversions beside audits, spells whose locks are given back also when
\* a source is refused, and the resolving of definitions that refer to each other.
EveryCallReturns == CallsReturn /\ SpellReturns /\ (which = "islands" => Ends)
=============================================================================
