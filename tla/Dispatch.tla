------------------------------ MODULE Dispatch ------------------------------
(***************************************************************************)
(* mpeqs.solve and run2: a spec names a machine and fills slots; when the  *)
(* named machine cannot answer, the shape of the spec picks another, and   *)
(* the repair is counted.  The functions of mpeqs.calculus are called      *)
(* directly.  A caller asks one thing at a time; meant is the machine it   *)
(* had in mind, which the name in the spec may not be.                     *)
(***************************************************************************)
EXTENDS AlgebraSolvers, SeriesSolvers, SearchSolvers

CONSTANTS Tasks,        \* a sequence of sets of specs, each naming the machine it is meant for
          Misnamed,     \* the same, for specs that will be sent under a wrong name
          WrongName,
          Calculations, \* a sequence of sets of calls of mpeqs.calculus
          MaxRepairs    \* bound on the requests after which repairs have been counted

VARIABLES asked,   \* [meant, spec], or NoRequest between two
          reply,    \* [by, outcome]
          repairs    \* REPAIRS["count"]

libraryVars == <<asked, reply, repairs>>

NoRequest == [meant |-> "nothing"]
NoAnswer == [by |-> "nobody", outcome |-> Refusal]
Named(spec, name) == [spec EXCEPT !.solver = name]

\* A slot that is not there is a KeyError, which like a Refusal is no answer.
Needs(name, spec) ==
    CASE name = "arith"         -> {"let"}
      [] name = "multisearch"   -> {"variables"}
      [] name = "crt"           -> {"residues", "moduli"}
      [] name = "linear_system" -> {"rows", "rhs"}
      [] name = "recurrence"    -> {"coefficients", "initial", "n"}
      [] name = "polynomial"    -> {"coefficients"}
      [] name = "rate_work"     -> {"times"}
      [] name = "ratio_split"   -> {"total", "ratio"}
      [] name = "mixture"       -> {"quantities", "concentrations"}
      [] name = "interest"      -> {"principal", "rate", "periods"}
      [] name = "base_convert"  -> {"n", "base"}
      [] name = "search"        -> {"domain"}
      [] name = "gcd_lcm"       -> {"values"}
      [] name = "quadratic"     -> {"a", "b", "c"}
      [] name = "digit_ops"     -> {"n"}
      [] name = "factor"        -> IF Has(spec, "k") THEN {} ELSE {"n"}
      [] name \in {"modular", "geometry"} ->
            IF ~Has(spec, "kind") THEN {"kind"}
            ELSE CASE spec.kind = "power" -> {"base", "exponent", "modulus"}
                   [] spec.kind \in {"inverse", "order"} -> {"a", "modulus"}
                   [] spec.kind = "totient" -> {"n"}
                   [] spec.kind = "line_intersection" -> {"line1", "line2"}
                   [] spec.kind = "triangle_sides" -> {"sides"}
                   [] OTHER -> {"points"}
      [] OTHER -> {}

\* gcd_lcm reads its values with int(): a numeral of basearith is decimal to it.
Decimals(spec) ==
    IF Has(spec, "from_base") THEN [spec EXCEPT !.values = [i \in DOMAIN @ |-> Horner(@[i], 10)]] ELSE spec

Machine(name, spec) ==
    CASE name = "factor" -> SolveFactor(spec)             [] name = "crt" -> SolveCrt(spec)
      [] name = "gcd_lcm" -> SolveGcdLcm(Decimals(spec))  [] name = "digit_ops" -> SolveDigitOps(spec)
      [] name = "base_convert" -> SolveBaseConvert(spec)  [] name = "modular" -> SolveModular(spec)
      [] name = "primes" -> SolvePrimes(spec)             [] name = "basearith" -> SolveBasearith(spec)
      [] name = "roman" -> SolveRoman(spec)               [] name = "checksum" -> SolveChecksum(spec)
      [] name = "linear_system" -> SolveLinearSystem(spec) [] name = "quadratic" -> SolveQuadratic(spec)
      [] name = "polynomial" -> SolvePolynomial(spec)     [] name = "equation" -> SolveEquation(spec)
      [] name = "matrix" -> SolveMatrix(spec)             [] name = "geometry" -> SolveGeometry(spec)
      [] name = "series" -> SolveSeries(spec)             [] name = "combinatorics" -> SolveCombinatorics(spec)
      [] name = "recurrence" -> SolveRecurrence(spec)     [] name = "rate_work" -> SolveRateWork(spec)
      [] name = "ratio_split" -> SolveRatioSplit(spec)    [] name = "mixture" -> SolveMixture(spec)
      [] name = "interest" -> SolveInterest(spec)         [] name = "statistics" -> SolveStatistics(spec)
      [] name = "finance" -> SolveFinance(spec)           [] name = "shape" -> SolveShape(spec)
      [] name = "inclusion_exclusion" -> SolveInclusion(spec) [] name = "sequence" -> SolveSequence(spec)
      [] name = "partition" -> SolvePartition(spec)       [] name = "logexp" -> SolveLogexp(spec)
      [] name = "approx" -> SolveApprox(spec)             [] name = "strcount" -> SolveStrcount(spec)
      [] name = "datetime" -> SolveDatetime(spec)         [] name = "kinematics" -> SolveKinematics(spec)
      [] name = "multisearch" -> SolveMultisearch(spec)   [] name = "probability" -> SolveProbability(spec)
      [] name = "arith" -> SolveArith(spec)               [] name = "iterate" -> SolveIterate(spec)
      [] name = "search" -> SolveSearch(spec)
      [] OTHER -> Refusal

\* _call
CallMachine(name, spec) ==
    IF Needs(name, spec) \subseteq DOMAIN spec THEN Machine(name, spec) ELSE Refusal

\* Mutant: a list of coefficients is a polynomial, initial terms or not.
ShapeKeysSwapped ==
    <<<<{"coefficients"}, "polynomial">>, <<{"coefficients", "initial"}, "recurrence">>, <<{"let"}, "arith">>,
      <<{"residues"}, "crt">>, <<{"variables"}, "multisearch">>>>

ShapeKeys ==
    <<<<{"let"}, "arith">>, <<{"answer"}, "arith">>, <<{"variables"}, "multisearch">>,
      <<{"residues"}, "crt">>, <<{"moduli"}, "crt">>, <<{"rows"}, "linear_system">>, <<{"rhs"}, "linear_system">>,
      <<{"coefficients", "initial"}, "recurrence">>, <<{"coefficients"}, "polynomial">>,
      <<{"times"}, "rate_work">>, <<{"total", "ratio"}, "ratio_split">>,
      <<{"quantities", "concentrations"}, "mixture">>, <<{"principal"}, "interest">>, <<{"base"}, "base_convert">>,
      <<{"points"}, "geometry">>, <<{"line1"}, "geometry">>, <<{"domain"}, "search">>, <<{"values"}, "gcd_lcm">>,
      <<{"modulus"}, "modular">>, <<{"a", "b", "c"}, "quadratic">>>>

ReportHome(want) ==
    CASE want \in {"gcd", "lcm"} -> "gcd_lcm"
      [] want \in {"divisor_count", "divisor_sum", "exponent_sum", "factorisation"} -> "factor"
      [] want \in {"digit_sum", "digit_count", "reversed", "is_palindrome"} -> "digit_ops"
      [] OTHER -> "none"

\* spec.get("report") or spec.get("op")
Wanted(spec) == IF Has(spec, "report") THEN spec.report ELSE IF Has(spec, "op") THEN spec.op ELSE "none"

\* dispatch_by_shape
ByShape(spec) ==
    LET fitting == {i \in DOMAIN ShapeKeys :
                      ShapeKeys[i][1] \subseteq DOMAIN spec \ {"solver"} /\ ShapeKeys[i][2] # spec.solver}
    IN  IF ReportHome(Wanted(spec)) \notin {"none", spec.solver} THEN ReportHome(Wanted(spec))
        ELSE IF fitting = {} THEN "none" ELSE ShapeKeys[Min(fitting)][2]

\* The machines whose value is a dictionary, and the reports in it.
Reports(name, o) == IF name \in {"gcd_lcm", "digit_ops", "factor", "statistics"} THEN DOMAIN o.value ELSE {}
LacksReport(name, spec, o) ==
    o.ok /\ Wanted(spec) # "none" /\ Reports(name, o) # {} /\ Wanted(spec) \notin Reports(name, o)

AnsweredBy(by, o) == [by |-> by, outcome |-> o]
\* Mutant: the other machine's answer is taken whether or not the report is in it.
SettledUnread(spec, named, alt, other) ==
    IF LacksReport(spec.solver, spec, named) THEN AnsweredBy(alt, other)
    ELSE IF named.ok \/ ~other.ok THEN AnsweredBy(spec.solver, named) ELSE AnsweredBy(alt, other)

\* Of the answer of the machine named and that of the one the slots fit, one is given.
Settled(spec, named, alt, other) ==
    LET taken == IF LacksReport(spec.solver, spec, named)
                 THEN other.ok /\ Wanted(spec) \in Reports(alt, other)
                 ELSE ~named.ok /\ other.ok
    IN  IF taken THEN AnsweredBy(alt, other) ELSE AnsweredBy(spec.solver, named)

\* run2 with repair.
Dispatched(spec) ==
    LET settle(outcome) == Settled(spec, outcome[spec.solver], ByShape(spec), outcome[ByShape(spec)])
    IN  settle([name \in {spec.solver, ByShape(spec)} |-> CallMachine(name, spec)])

-----------------------------------------------------------------------------
\* mpeqs.calculus.

Calculation(spec) ==
    CASE spec.solver = "derivative_at" -> DerivativeAt(spec.tree, spec.at)
      [] spec.solver = "grad" -> Grad(spec.tree, spec.at)
      [] spec.solver = "differentiate" -> Simplify(Diff(spec.tree))
      [] spec.solver = "integrate" -> Integrate(spec.tree)
      [] spec.solver = "grad_pyspell" -> GradSpell(spec.body, spec.at)
      [] spec.solver = "solve_linear" -> CalculusLinear(spec)
      [] spec.solver = "solve_quadratic" -> CalculusQuadratic(spec)

-----------------------------------------------------------------------------
LibraryInit == asked = NoRequest /\ reply = NoAnswer /\ repairs = 0

Idle == asked.meant = "nothing"
Repaired(a, spec) == a.by # spec.solver

Reply(meant, spec, answer) ==
    /\ asked' = [meant |-> meant, spec |-> spec]
    /\ reply' = answer
    /\ repairs' = IF Repaired(answer, spec) THEN repairs + 1 ELSE repairs

\* A spec is asked under the name it is meant for, or under another.
Sent(misnamed, spec) == IF misnamed THEN Named(spec, WrongName) ELSE spec
Solve ==
    /\ Idle
    /\ \E misnamed \in BOOLEAN : LET all == IF misnamed THEN Misnamed ELSE Tasks
                                IN  \E k \in DOMAIN all : \E spec \in all[k] :
          Reply(spec.solver, Sent(misnamed, spec), Dispatched(Sent(misnamed, spec)))

Calculate ==
    /\ Idle
    /\ \E k \in DOMAIN Calculations : \E spec \in Calculations[k] :
          /\ asked' = [meant |-> spec.solver, spec |-> spec]
          /\ reply' = AnsweredBy(spec.solver, Calculation(spec))
    /\ UNCHANGED repairs

\* The caller has its answer and comes back.
Again ==
    /\ ~Idle /\ repairs <= MaxRepairs
    /\ asked' = NoRequest /\ reply' = NoAnswer /\ UNCHANGED repairs

LibraryNext == Solve \/ Calculate \/ Again

-----------------------------------------------------------------------------
\* What the library promises.

Meant(name) == asked.meant = name
ByName == ~Idle /\ asked.spec.solver = asked.meant
\* What the machine that was meant made of the request.
Own == IF reply.by = asked.meant THEN reply.outcome ELSE Refusal

Promised(name, holds(_, _)) == Meant(name) /\ ByName => holds(asked.spec, Own)
Answers(name, holds(_, _)) == Meant(name) /\ ByName /\ Own.ok => holds(asked.spec, Own.value)

SameAnswer(a, b) == a.by = b.by /\ a.outcome = b.outcome

\* The counter moves with the repairs, and what answers under another name than it was called
\* by answers the same when called by its own.
LibraryTypeOK ==
    /\ repairs \in 0 .. MaxRepairs + 1
    /\ Idle => reply = NoAnswer
    /\ reply.by # "nobody" /\ Repaired(reply, asked.spec) =>
          SameAnswer(Dispatched(Named(asked.spec, reply.by)), reply)

\* Whatever name a spec is sent under, the answer it gets, if its slots are those of one machine
\* only, is the answer of that machine; and it gets one if that machine has one.
AsMeant ==
    LET asOwn(own) == own.ok => SameAnswer(reply, AnsweredBy(asked.meant, own))
    IN  ~Idle /\ ~ByName => asOwn(CallMachine(asked.meant, asked.spec))

\* Factorisations, congruences, divisors, powers and primes are those of the definitions.
NumberTheory ==
    /\ Answers("factor", FactorRight) /\ Promised("crt", CrtRight)
    /\ Answers("gcd_lcm", GcdLcmRight) /\ Promised("modular", ModularRight)
    /\ Answers("primes", PrimesRight)

\* Numerals say the numbers they were made from, in every base and in Roman; a check digit
\* gives every slip of one digit away.
Numerals ==
    /\ Answers("base_convert", BaseRight) /\ Answers("basearith", BasearithRight)
    /\ Answers("roman", RomanRight) /\ Answers("checksum", ChecksumRight)

\* Systems, determinants and inverses fit one another.
LinearAlgebra == Promised("linear_system", SystemRight) /\ Promised("matrix", MatrixRight)

\* Roots are roots, none is missed, and the two solvers of a quadratic equation agree.
RootsFound ==
    /\ Promised("quadratic", QuadraticRight) /\ Promised("polynomial", PolynomialRight)
    /\ Promised("equation", EquationRight) /\ Promised("solve_quadratic", TwoQuadraticsAgree)

\* Areas, circles and crossings are those of the points.
PlaneGeometry == Promised("geometry", GeometryRight)

\* Counts are the numbers of the things counted.
Counting ==
    /\ Promised("combinatorics", CombinatoricsRight) /\ Promised("partition", PartitionRight)
    /\ Promised("strcount", StrcountRight) /\ Promised("inclusion_exclusion", InclusionRight)
    /\ Promised("datetime", LeapYearsRight)

\* Closed forms come to what the steps they stand for come to.
ClosedForms ==
    /\ Promised("series", SeriesRight) /\ Promised("sequence", SequenceRight)
    /\ \A name \in {"recurrence", "interest", "finance"} : Promised(name, RepeatedRight)
    /\ Promised("iterate", IterateRight)

\* Shares add up to the whole, moments fit the data, convergents are the nearest fractions.
Measured ==
    /\ \A name \in {"rate_work", "ratio_split", "mixture"} : Promised(name, SharesRight)
    /\ Promised("statistics", StatisticsRight) /\ Promised("approx", ApproxRight)
    /\ Promised("logexp", LogexpRight) /\ Promised("shape", ShapeRight)

\* What kinematics finds obeys every law of constant acceleration.
MotionObeysLaws == Promised("kinematics", MotionRight)

\* Where a machine computes what a definition by quantifiers says, it says the same.
ExactArithmetic == NumberTheory /\ Numerals /\ LinearAlgebra /\ RootsFound /\ PlaneGeometry

\* Where it uses a formula in place of steps, counts or laws, the formula agrees with them.
FormulasExact == Counting /\ ClosedForms /\ Measured /\ MotionObeysLaws

\* A search finds exactly the tuples it was asked for, however it went about it.
SearchComplete ==
    /\ Meant("multisearch") /\ ByName /\ ~InFloats(asked.spec) => FindsAll(asked.spec, Own)
    /\ Meant("probability") /\ ByName /\ ~InFloats(asked.spec) => ProbabilityExact(asked.spec, Own)
    /\ Promised("search", SearchesAgree) /\ Promised("search", DivisorsFound)
    /\ Promised("arith", ArithRight)

\* What the solvers answer is what the definitions say: by steps, by a formula, or by a search.
SolversExact == ExactArithmetic /\ FormulasExact /\ SearchComplete

\* The textbook derivative and the dual numbers give the same derivative.
DerivativesAgree ==
    \A name \in {"derivative_at", "grad"} : Meant(name) => Agree(asked.spec.tree, asked.spec.at)

\* Simplified, a derivative keeps its value.
SimplifyKeepsValue == Meant("differentiate") => SameValue(asked.spec.tree, asked.spec.at)

\* Integration undoes differentiation.
IntegralUndone == Meant("integrate") => Undone(asked.spec.tree, asked.spec.at)

\* A procedure has the derivative of the expression it computes.
RunsLikePython ==
    Meant("grad_pyspell") /\ reply.outcome.ok =>
        reply.outcome.eps = Grad(asked.spec.computes, asked.spec.at).eps

\* The four ways calculus.py differentiates and integrates agree with one another.
CalculusAgrees == DerivativesAgree /\ SimplifyKeepsValue /\ IntegralUndone /\ RunsLikePython

\* "It never guesses, and it never returns a number it could not derive -- a refusal is the
\* useful signal" (__init__.py): a spec its own machine refuses is refused.
NeverGuesses == ByName /\ ~CallMachine(asked.meant, asked.spec).ok => ~reply.outcome.ok

\* "Wrap integer literals as Fractions so `/` is exact" (solvers2.py): a search that divides
\* counts what exact division would.
DivisionExact ==
    /\ Promised("multisearch", FindsAll)
    /\ Promised("probability", ProbabilityExact)

\* "Exact coordinate geometry" (solvers2.py): the area of a triangle that is reported is its area.
AreasExact == Promised("geometry", AreaExact)
=============================================================================
