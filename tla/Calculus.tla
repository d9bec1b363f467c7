------------------------------ MODULE Calculus ------------------------------
(***************************************************************************)
(* mpeqs/calculus.py: derivatives by the textbook rules, the same by dual  *)
(* numbers, integrals of polynomials.  An expression is the tree _parse    *)
(* returns: a number, the variable, a sign, a sum, difference, product or  *)
(* quotient, or a power with a literal exponent.                           *)
(***************************************************************************)
EXTENDS Fractions, FiniteSets, TLC

Const(n) == [op |-> "const", value |-> n]
Var == [op |-> "x"]
Signed(op, u) == [op |-> op, left |-> u]
Bin(op, u, v) == [op |-> op, left |-> u, right |-> v]
Raised(u, n) == [op |-> "**", left |-> u, power |-> n]
IsConst(u, n) == u.op = "const" /\ u.value = n

-----------------------------------------------------------------------------
\* Dual numbers a + b*eps; ok says that no Refusal was raised on the way.

Dual(real, eps) == [ok |-> TRUE, real |-> real, eps |-> eps]
RefusedDual == [ok |-> FALSE, real |-> Zero, eps |-> Zero]
DualOf(a, b, real, eps) == [ok |-> a.ok /\ b.ok, real |-> real, eps |-> eps]

DAdd(a, b) == DualOf(a, b, Plus(a.real, b.real), Plus(a.eps, b.eps))
DNeg(a) == [a EXCEPT !.real = Neg(@), !.eps = Neg(@)]
DSub(a, b) == DAdd(a, DNeg(b))
DMul(a, b) == DualOf(a, b, Times(a.real, b.real), Plus(Times(a.real, b.eps), Times(a.eps, b.real)))
DDiv(a, b) ==
    IF b.real = Zero THEN RefusedDual
    ELSE DualOf(a, b, Over(a.real, b.real),
                Over(Minus(Times(a.eps, b.real), Times(a.real, b.eps)), Times(b.real, b.real)))

\* The loop of __pow__: the bits of k from the lowest, the base squared for each.
RECURSIVE SquareAndMultiply(_, _, _)
SquareAndMultiply(out, base, k) ==
    IF k = 0 THEN out
    ELSE SquareAndMultiply(IF k % 2 = 1 THEN DMul(out, base) ELSE out, DMul(base, base), k \div 2)

DPow(a, n) ==
    IF ~a.ok THEN RefusedDual
    ELSE IF n >= 0 THEN SquareAndMultiply(Dual(One, Zero), a, n)
    ELSE DDiv(Dual(One, Zero), SquareAndMultiply(Dual(One, Zero), a, -n))

DBinop(op, a, b) ==
    CASE op = "+" -> DAdd(a, b) [] op = "-" -> DSub(a, b) [] op = "*" -> DMul(a, b) [] op = "/" -> DDiv(a, b)

RECURSIVE EvalDual(_, _)
EvalDual(u, seeded) ==
    CASE u.op = "const" -> Dual(Int2F(u.value), Zero)
      [] u.op = "x"     -> seeded
      [] u.op = "neg"   -> DNeg(EvalDual(u.left, seeded))
      [] u.op = "pos"   -> EvalDual(u.left, seeded)
      [] u.op = "**"    -> DPow(EvalDual(u.left, seeded), u.power)
      [] OTHER          -> DBinop(u.op, EvalDual(u.left, seeded), EvalDual(u.right, seeded))

Eval(u, at) == EvalDual(u, Dual(at, Zero))
Grad(u, at) == EvalDual(u, Dual(at, One))

-----------------------------------------------------------------------------
\* The textbook rules.

RECURSIVE Diff(_)
Diff(u) ==
    CASE u.op = "const" -> Const(0)
      [] u.op = "x" -> Const(1)
      [] u.op \in {"neg", "pos"} -> Signed(u.op, Diff(u.left))
      [] u.op \in {"+", "-"} -> Bin(u.op, Diff(u.left), Diff(u.right))
      [] u.op = "*" -> Bin("+", Bin("*", Diff(u.left), u.right), Bin("*", u.left, Diff(u.right)))
      [] u.op = "/" -> Bin("/", Bin("-", Bin("*", Diff(u.left), u.right), Bin("*", u.left, Diff(u.right))),
                           Raised(u.right, 2))
      [] u.op = "**" -> Bin("*", Bin("*", Const(u.power), Raised(u.left, u.power - 1)), Diff(u.left))

\* The folds of one node whose parts are folded already.
\* Mutant: zero minus something is taken for that thing.
FoldBoth(u) ==
    IF u.op = "-" /\ IsConst(u.left, 0) THEN u.right ELSE u

Fold(u) ==
    LET l == u.left  r == u.right
        both == u.op # "**" /\ l.op = "const" /\ r.op = "const"
    IN  CASE u.op = "+" /\ IsConst(l, 0) -> r
          [] u.op \in {"+", "-"} /\ IsConst(r, 0) -> l
          [] u.op = "+" /\ both -> Const(l.value + r.value)
          [] u.op = "*" /\ (IsConst(l, 0) \/ IsConst(r, 0)) -> Const(0)
          [] u.op = "*" /\ IsConst(l, 1) -> r
          [] u.op = "*" /\ IsConst(r, 1) -> l
          [] u.op = "*" /\ both -> Const(l.value * r.value)
          [] u.op = "**" /\ u.power = 1 -> l
          [] u.op = "**" /\ u.power = 0 -> Const(1)
          [] OTHER -> u

RECURSIVE Simplify(_)
Simplify(u) ==
    CASE u.op \in {"const", "x"} -> u
      [] u.op \in {"neg", "pos"} -> Signed(u.op, Simplify(u.left))
      [] u.op = "**" -> Fold(Raised(Simplify(u.left), u.power))
      [] OTHER -> Fold(Bin(u.op, Simplify(u.left), Simplify(u.right)))

DerivativeAt(u, at) == Eval(Diff(u), at)

-----------------------------------------------------------------------------
\* Integration of polynomials.  A polynomial is [power -> coefficient]; NotPoly a Refusal.

NotPoly == [ok |-> FALSE, terms |-> [p \in {} |-> Zero]]
Poly(f) == [ok |-> TRUE, terms |-> f]
Coef(f, p) == IF p \in DOMAIN f THEN f[p] ELSE Zero
Scale(f, c) == [p \in DOMAIN f |-> Times(c, f[p])]
PolyAdd(f, g) == [p \in DOMAIN f \cup DOMAIN g |-> Plus(Coef(f, p), Coef(g, p))]

PolyMul(f, g) ==
    LET powers == {p + q : p \in DOMAIN f, q \in DOMAIN g}
        part(n) == {p \in DOMAIN f : n - p \in DOMAIN g}
        RECURSIVE sum(_, _)
        sum(n, ps) == IF ps = {} THEN Zero
                      ELSE LET p == CHOOSE x \in ps : TRUE
                           IN  Plus(Times(f[p], g[n - p]), sum(n, ps \ {p}))
    IN  [n \in powers |-> sum(n, part(n))]

RECURSIVE PolyPow(_, _)
PolyPow(f, n) == IF n = 0 THEN 0 :> One ELSE PolyMul(PolyPow(f, n - 1), f)

RECURSIVE PolyTerms(_)
PolyTerms(u) ==
    LET l == PolyTerms(u.left)
        r == PolyTerms(u.right)
        both(f) == IF l.ok /\ r.ok THEN Poly(f) ELSE NotPoly
    IN  CASE u.op = "const" -> Poly(0 :> Int2F(u.value))
          [] u.op = "x" -> Poly(1 :> One)
          [] u.op = "pos" -> l
          [] u.op = "neg" -> [l EXCEPT !.terms = Scale(@, Int2F(-1))]
          [] u.op = "+" -> both(PolyAdd(l.terms, r.terms))
          [] u.op = "-" -> both(PolyAdd(l.terms, Scale(r.terms, Int2F(-1))))
          [] u.op = "*" -> both(PolyMul(l.terms, r.terms))
          [] u.op = "/" -> IF DOMAIN r.terms \ {0} # {} \/ Coef(r.terms, 0) = Zero THEN NotPoly
                           ELSE both(Scale(l.terms, Inv(Coef(r.terms, 0))))
          [] u.op = "**" -> IF u.power < 0 \/ ~l.ok THEN NotPoly ELSE Poly(PolyPow(l.terms, u.power))

PolyAt(f, at) ==
    LET RECURSIVE sum(_)
        sum(ps) == IF ps = {} THEN Zero
                   ELSE LET p == CHOOSE x \in ps : TRUE IN Plus(Times(f[p], Pow(at, p)), sum(ps \ {p}))
    IN  sum(DOMAIN f)

PowerRule(f) == [p \in {q + 1 : q \in DOMAIN f} |-> Over(f[p - 1], Int2F(p))]

\* integrate: the antiderivative, and the value between two bounds.
Integrate(u) ==
    LET t == PolyTerms(u) IN IF t.ok THEN Poly(PowerRule(t.terms)) ELSE NotPoly
Definite(u, lower, upper) == Minus(PolyAt(Integrate(u).terms, upper), PolyAt(Integrate(u).terms, lower))

-----------------------------------------------------------------------------
\* What these promise of an expression u at a point.

\* The two derivatives agree wherever both are defined, the textbook one is defined nowhere
\* else, and it is missing only where a vanishing base was raised to the power 0 (the rule
\* divides by it).
RECURSIVE ZerothOfZero(_, _)
ZerothOfZero(u, at) ==
    \/ u.op = "**" /\ u.power = 0 /\ Eval(u.left, at).real = Zero
    \/ u.op \notin {"const", "x"} /\ ZerothOfZero(u.left, at)
    \/ u.op \in {"+", "-", "*", "/"} /\ ZerothOfZero(u.right, at)

Agree(u, at) ==
    LET symbolic == DerivativeAt(u, at)
        dual == Grad(u, at)
    IN  /\ symbolic.ok => dual.ok /\ symbolic.real = dual.eps
        /\ dual.ok /\ ~symbolic.ok => ZerothOfZero(u, at)

\* What differentiate prints means what it differentiated: simplified or not, the derivative
\* has the same value wherever it had one.
SameValue(u, at) ==
    Eval(Diff(u), at).ok => Eval(Simplify(Diff(u)), at) = Eval(Diff(u), at)

\* The integral undoes the derivative: the derivative of the antiderivative is the integrand,
\* and over an interval it is what Simpson's rule gives, exact up to the third degree.
Degree(f) == IF f = << >> THEN 0 ELSE CHOOSE p \in DOMAIN f : \A q \in DOMAIN f : q <= p
Simpson(u, a, b) ==
    LET mid == Over(Plus(a, b), Int2F(2))
    IN  Times(Over(Minus(b, a), Int2F(6)),
              SumF(<<Eval(u, a).real, Times(Int2F(4), Eval(u, mid).real), Eval(u, b).real>>))

Undone(u, at) ==
    LET anti == Integrate(u)
    IN  anti.ok =>
          /\ Eval(u, at).ok
          /\ LET slope == [p \in {q - 1 : q \in DOMAIN anti.terms} |-> Times(Int2F(p + 1), anti.terms[p + 1])]
             IN  PolyAt(slope, at) = Eval(u, at).real
          /\ Degree(PolyTerms(u).terms) <= 3 => Definite(u, Neg(One), at) = Simpson(u, Neg(One), at)
=============================================================================
