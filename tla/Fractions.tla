------------------------------ MODULE Fractions ------------------------------
(***************************************************************************)
(* Python's fractions.Fraction, as the exact values mpeqs computes with: a *)
(* fraction is <<numerator, denominator>> in lowest terms, the denominator *)
(* positive.                                                               *)
(***************************************************************************)
EXTENDS Integers, Sequences

Abs(a) == IF a < 0 THEN -a ELSE a

GcdOf[p \in Nat \X Nat] == IF p[2] = 0 THEN p[1] ELSE GcdOf[<<p[2], p[1] % p[2]>>]
Gcd(m, n) == GcdOf[<<Abs(m), Abs(n)>>]

\* Division of Python: the quotient rounds down, the remainder has the divisor's sign.
FloorDiv(a, b) == IF b > 0 THEN a \div b ELSE (-a) \div (-b)
PyMod(a, b) == a - b * FloorDiv(a, b)

Frac(n, d) ==
    LET g == Gcd(n, d)
        s == IF d < 0 THEN -1 ELSE 1
    IN  <<s * (n \div g), Abs(d) \div g>>

Num(x) == x[1]
Den(x) == x[2]
InLowestTerms(x) == x \in Int \X (Nat \ {0}) /\ Gcd(Num(x), Den(x)) = 1
Int2F(n) == <<n, 1>>
Zero == <<0, 1>>
One == <<1, 1>>
IsWhole(x) == Den(x) = 1

Plus(x, y) == Frac(Num(x) * Den(y) + Num(y) * Den(x), Den(x) * Den(y))
Neg(x) == <<-Num(x), Den(x)>>
Minus(x, y) == Plus(x, Neg(y))
Times(x, y) == Frac(Num(x) * Num(y), Den(x) * Den(y))
Inv(x) == Frac(Den(x), Num(x))
Over(x, y) == Times(x, Inv(y))
Less(x, y) == Num(x) * Den(y) < Num(y) * Den(x)
Sign(x) == IF Num(x) > 0 THEN 1 ELSE IF Num(x) < 0 THEN -1 ELSE 0
FloorOf(x) == Num(x) \div Den(x)

\* x to the n-th, n any integer (x not zero for n < 0).
PowNat(x, n) == LET p[k \in 0 .. n] == IF k = 0 THEN One ELSE Times(p[k - 1], x) IN p[n]
Pow(x, n) == IF n >= 0 THEN PowNat(x, n) ELSE Inv(PowNat(x, -n))

SumF(s) == LET a[i \in 0 .. Len(s)] == IF i = 0 THEN Zero ELSE Plus(a[i - 1], s[i]) IN a[Len(s)]
ProductF(s) == LET a[i \in 0 .. Len(s)] == IF i = 0 THEN One ELSE Times(a[i - 1], s[i]) IN a[Len(s)]
=============================================================================
