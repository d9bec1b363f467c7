---------------------------- MODULE NumberSolvers ----------------------------
(***************************************************************************)
(* The number theory of mpeqs: the helpers of solvers.py and the machines  *)
(* factor, crt, gcd_lcm, digit_ops, base_convert (solvers.py), modular     *)
(* (solvers2.py), primes, basearith, roman and checksum (solvers3.py).  A  *)
(* machine takes a spec, a record of its slots, and answers or refuses.    *)
(* A numeral is the sequence of its digits' values.                        *)
(***************************************************************************)
EXTENDS Fractions, SequencesExt

CONSTANTS MaxFactorN,   \* MAX_FACTOR_N, 10^13 in the code
          MaxDivisors   \* the cap of divisors_from_factorisation

\* What a machine comes to; of a Refusal and of an error only that there is no answer.
Ok(v) == [ok |-> TRUE, value |-> v]
Refusal == [ok |-> FALSE]
Has(spec, slot) == slot \in DOMAIN spec

RECURSIVE PowMod(_, _, _)
PowMod(a, k, m) ==
    IF k = 0 THEN 1 % m
    ELSE LET half == PowMod(a, k \div 2, m) IN (((half * half) % m) * (IF k % 2 = 1 THEN a ELSE 1)) % m
Coprime(a, b) == Gcd(a, b) = 1
InvMod(a, m) == CHOOSE x \in 0 .. m - 1 : (a * x) % m = 1 % m   \* pow(a, -1, m)
ISqrt(n) == CHOOSE r \in 0 .. n : r * r <= n /\ (r + 1) * (r + 1) > n

ProductInt(s) == FoldLeft(LAMBDA a, b : a * b, 1, s)
SumInt(s) == FoldLeft(LAMBDA a, b : a + b, 0, s)
SumOver(S, f(_)) == MapThenSumSet(f, S)
ProductOver(S, f(_)) == MapThenFoldSet(LAMBDA a, b : a * b, 1, f, LAMBDA T : CHOOSE x \in T : TRUE, S)
SumFOver(S, f(_)) == MapThenFoldSet(Plus, Zero, f, LAMBDA T : CHOOSE x \in T : TRUE, S)

-----------------------------------------------------------------------------
\* is_prime: trial by twelve primes, then those twelve as witnesses.

Trials == {2, 3, 5, 7, 11, 13, 17, 19, 23, 29, 31, 37}

RECURSIVE Twos(_)
Twos(n) == IF n % 2 = 0 THEN 1 + Twos(n \div 2) ELSE 0

Passes(a, n) ==
    LET s == Twos(n - 1)
        x == PowMod(a, (n - 1) \div 2 ^ s, n)
    IN  x = 1 \/ \E i \in 0 .. s - 1 : PowMod(x, 2 ^ i, n) = n - 1

IsPrime(n) ==
    /\ n >= 2
    /\ IF \E p \in Trials : n % p = 0 THEN n \in Trials ELSE \A a \in Trials : Passes(a, n)

\* factorise: the exponents by prime.
RECURSIVE Strip(_, _, _)
Strip(n, d, f) ==
    IF d * d > n THEN (IF n > 1 THEN (n :> (IF n \in DOMAIN f THEN f[n] + 1 ELSE 1)) @@ f ELSE f)
    ELSE IF n % d = 0 THEN Strip(n \div d, d, (d :> (IF d \in DOMAIN f THEN f[d] + 1 ELSE 1)) @@ f)
    ELSE Strip(n, d + (IF d = 2 THEN 1 ELSE 2), f)

NoFactors == [p \in {} |-> 0]
Factorisable(n) == n > 0 /\ n <= MaxFactorN
Factorise(n) == Strip(n, 2, NoFactors)

\* Legendre: the exponent of p in k! is the sum of k div p^i.
RECURSIVE Legendre(_, _, _)
Legendre(k, p, q) == IF q > k THEN 0 ELSE k \div q + Legendre(k, p, q * p)
FactorialFactorisation(k) == [p \in {x \in 2 .. k : IsPrime(x)} |-> Legendre(k, p, p)]

DivisorCount(f) == ProductOver(DOMAIN f, LAMBDA p : f[p] + 1)

\* divisors_from_factorisation: the list grows prime by prime, up to a cap.
RECURSIVE DivisorsFrom(_, _)
DivisorsFrom(f, primes) ==
    IF primes = {} THEN {1}
    ELSE LET p == CHOOSE x \in primes : TRUE
         IN  {d * p ^ i : d \in DivisorsFrom(f, primes \ {p}), i \in 0 .. f[p]}
Divisors(f) == IF DivisorCount(f) > MaxDivisors THEN Refusal ELSE Ok(DivisorsFrom(f, DOMAIN f))

IsSquare(n) == n >= 0 /\ ISqrt(n) * ISqrt(n) = n
IsCube(n) == \E r \in 0 .. Abs(n) : r * r * r = Abs(n)

\* The digits of n in a base, the highest first.
RECURSIVE DigitsIn(_, _)
DigitsIn(n, base) == IF n < base THEN <<n>> ELSE Append(DigitsIn(n \div base, base), n % base)
Digits(n) == DigitsIn(Abs(n), 10)
Horner(digs, base) == FoldLeft(LAMBDA v, d : v * base + d, 0, digs)

-----------------------------------------------------------------------------
\* The machines of solvers.py and solvers2.py.

SolveFactor(spec) ==
    LET f == IF Has(spec, "k") THEN FactorialFactorisation(spec.k) ELSE Factorise(spec.n)
    IN  IF ~Has(spec, "k") /\ ~Factorisable(spec.n) THEN Refusal
        ELSE Ok([factorisation |-> f,
                 divisor_count |-> DivisorCount(f),
                 exponent_sum |-> SumOver(DOMAIN f, LAMBDA p : f[p]),
                 divisor_sum |-> ProductOver(DOMAIN f, LAMBDA p : (p ^ (f[p] + 1) - 1) \div (p - 1))])

\* One congruence after the other; a pair <<x, modulus>>, the modulus 0 for a contradiction.
CrtStep(known, r, m) ==
    LET x == known[1]  mod == known[2]
        g == Gcd(mod, m)
        step == (((r - x) \div g) * InvMod(mod \div g, m \div g)) % (m \div g)
        lcm == (mod \div g) * m
    IN  IF mod = 0 \/ (r - x) % g # 0 THEN <<0, 0>> ELSE <<(x + mod * step) % lcm, lcm>>

SolveCrt(spec) ==
    LET n == IF Len(spec.residues) < Len(spec.moduli) THEN Len(spec.residues) ELSE Len(spec.moduli)
        all == FoldLeft(LAMBDA known, i : CrtStep(known, spec.residues[i], spec.moduli[i]),
                        <<0, 1>>, [i \in 1 .. n |-> i])
    IN  IF (\E i \in 1 .. n : spec.moduli[i] <= 0) \/ all[2] = 0 THEN Refusal
        ELSE Ok([value |-> all[1], modulus |-> all[2]])

SolveGcdLcm(spec) ==
    LET vs == spec.values
    IN  IF vs = << >> \/ 0 \in ToSet(vs) THEN Refusal
        ELSE Ok([gcd |-> FoldLeft(Gcd, 0, vs),
                 lcm |-> FoldLeft(LAMBDA l, n : (l \div Gcd(l, n)) * Abs(n), 1, vs)])

SolveDigitOps(spec) ==
    LET d == Digits(spec.n)
    IN  Ok([digit_sum |-> SumInt(d), digit_count |-> Len(d), reversed |-> Horner(Reverse(d), 10),
            is_palindrome |-> d = Reverse(d), digits |-> d])

\* A numeral with its sign.
SolveBaseConvert(spec) ==
    IF spec.base \notin 2 .. 36 THEN Refusal
    ELSE Ok([negative |-> spec.n < 0, numeral |-> DigitsIn(Abs(spec.n), spec.base)])

\* The search for the order stops at the first power that is 1; modulo 1 there is none.
SolveModular(spec) ==
    CASE spec.kind = "power" -> Ok(PowMod(spec.base, spec.exponent, spec.modulus))
      [] spec.kind = "inverse" ->
            IF ~Coprime(spec.a, spec.modulus) THEN Refusal ELSE Ok(InvMod(spec.a, spec.modulus))
      [] spec.kind = "order" ->
            LET ks == {k \in 1 .. spec.modulus : PowMod(spec.a, k, spec.modulus) = 1}
            IN  IF ~Coprime(spec.a, spec.modulus) \/ ks = {} THEN Refusal ELSE Ok(Min(ks))
      [] spec.kind = "totient" ->
            IF ~Factorisable(spec.n) THEN Refusal
            ELSE Ok(FoldSet(LAMBDA p, t : (t \div p) * (p - 1), spec.n, DOMAIN Factorise(spec.n)))

-----------------------------------------------------------------------------
\* The machines of solvers3.py.

RECURSIVE NthPrime(_, _), Sieve(_, _, _)
NthPrime(n, cand) ==
    IF n = 0 THEN cand ELSE NthPrime(IF IsPrime(cand + 1) THEN n - 1 ELSE n, cand + 1)

Sieve(left, i, hi) ==
    IF i * i > hi THEN left
    ELSE Sieve(IF i \in left THEN left \ {m \in i * i .. hi : m % i = 0} ELSE left, i + 1, hi)

SolvePrimes(spec) ==
    CASE spec.kind = "nth" -> IF spec.n < 1 THEN Refusal ELSE Ok(NthPrime(spec.n, 1))
      [] spec.kind \in {"count", "sum"} ->
            LET vals == {i \in Sieve(2 .. spec.to, 2, spec.to) : i >= spec.from}
            IN  Ok(IF spec.kind = "count" THEN Cardinality(vals) ELSE SumSet(vals))
      [] spec.kind = "next" -> Ok(NthPrime(1, spec.value))

\* basearith: numerals read in one base, added, subtracted or multiplied, written in another.
SolveBasearith(spec) ==
    LET vals == [i \in DOMAIN spec.values |-> Horner(spec.values[i], spec.from_base)]
        result == CASE spec.op = "convert"  -> vals[1]
                    [] spec.op = "add"      -> SumInt(vals)
                    [] spec.op = "subtract" -> vals[1] - SumInt(Tail(vals))
                    [] spec.op = "multiply" -> ProductInt(vals)
    IN  IF \/ {spec.from_base, spec.to_base} \ (2 .. 36) # {}
           \/ \E v \in ToSet(spec.values) : v = << >> \/ \E d \in ToSet(v) : d >= spec.from_base
           \/ spec.op = "convert" /\ Len(vals) # 1
        THEN Refusal
        ELSE Ok([negative |-> result < 0, numeral |-> DigitsIn(Abs(result), spec.to_base)])

RomanValues == <<1000, 900, 500, 400, 100, 90, 50, 40, 10, 9, 5, 4, 1>>
RomanSymbols == <<"M", "CM", "D", "CD", "C", "XC", "L", "XL", "X", "IX", "V", "IV", "I">>
RomanLetters == [M |-> 1000, D |-> 500, C |-> 100, L |-> 50, X |-> 10, V |-> 5, I |-> 1]
Letters(symbol) ==
    IF symbol \in DOMAIN RomanLetters THEN <<symbol>>
    ELSE CASE symbol = "CM" -> <<"C", "M">> [] symbol = "CD" -> <<"C", "D">> [] symbol = "XC" -> <<"X", "C">>
           [] symbol = "XL" -> <<"X", "L">> [] symbol = "IX" -> <<"I", "X">> [] symbol = "IV" -> <<"I", "V">>

RECURSIVE ToRoman(_, _)
ToRoman(n, i) ==
    IF n = 0 THEN << >>
    ELSE IF n >= RomanValues[i] THEN Letters(RomanSymbols[i]) \o ToRoman(n - RomanValues[i], i)
    ELSE ToRoman(n, i + 1)

RECURSIVE FromRoman(_, _)
FromRoman(letters, largest) ==
    IF letters = << >> THEN 0
    ELSE LET v == RomanLetters[Last(letters)]
         IN  (IF v < largest THEN -v ELSE v)
                + FromRoman(Front(letters), IF v > largest THEN v ELSE largest)

SolveRoman(spec) ==
    IF Has(spec, "number")
    THEN IF spec.number \notin 1 .. 3999 THEN Refusal ELSE Ok(ToRoman(spec.number, 1))
    ELSE IF spec.roman = << >> THEN Refusal ELSE Ok(FromRoman(spec.roman, 0))

\* Luhn: from the left, the digits whose place has the parity of the length are doubled.
Doubled(d) == IF 2 * d > 9 THEN 2 * d - 9 ELSE 2 * d
LuhnSum(code) ==
    SumInt([i \in DOMAIN code |-> IF (i - 1) % 2 = Len(code) % 2 THEN Doubled(code[i]) ELSE code[i]])

\* What is missing from a sum to the next multiple of m.
UpTo(m, sum) == (m - (sum % m)) % m

Isbn10(code) == UpTo(11, SumInt([i \in 1 .. 9 |-> (11 - i) * code[i]]))
Isbn13(code) == UpTo(10, SumInt([i \in 1 .. 12 |-> code[i] * (IF i % 2 = 0 THEN 3 ELSE 1)]))

SolveChecksum(spec) ==
    CASE spec.kind = "luhn" /\ spec.code # << >> ->
            Ok([value |-> LuhnSum(spec.code) % 10 = 0,
                check_digit |-> UpTo(10, LuhnSum(spec.code) * 10)])
      [] spec.kind = "isbn10" /\ Len(spec.code) >= 9 -> Ok(Isbn10(spec.code))
      [] spec.kind = "isbn13" /\ Len(spec.code) >= 12 -> Ok(Isbn13(spec.code))
      [] OTHER -> Refusal

-----------------------------------------------------------------------------
\* What the machines promise, from the definitions of school arithmetic.

Divides(d, n) == n % d = 0
DivisorsOf(n) == {d \in 1 .. n : Divides(d, n)}
Prime(n) == n >= 2 /\ DivisorsOf(n) = {1, n}
FactorialOf(k) == ProductInt([i \in 1 .. k |-> i])

FactorRight(spec, v) ==
    LET n == IF Has(spec, "k") THEN FactorialOf(spec.k) ELSE spec.n
        f == v.factorisation
    IN  /\ \A p \in DOMAIN f : Prime(p) /\ f[p] > 0
        /\ ProductOver(DOMAIN f, LAMBDA p : p ^ f[p]) = n
        /\ n <= 3000 => v.divisor_count = Cardinality(DivisorsOf(n)) /\ v.divisor_sum = SumSet(DivisorsOf(n))
        /\ n <= 3000 /\ Divisors(f).ok => Divisors(f).value = DivisorsOf(n)

\* The answer fits every congruence and is the only one below the modulus; a refusal means
\* that nothing fits.
CrtRight(spec, o) ==
    LET fits(x) == \A i \in DOMAIN spec.moduli : Divides(spec.moduli[i], x - spec.residues[i])
        all == ProductInt(spec.moduli)
    IN  IF o.ok THEN {x \in 0 .. o.value.modulus - 1 : fits(x)} = {o.value.value}
        ELSE \A x \in 0 .. all - 1 : ~fits(x)

GcdLcmRight(spec, v) ==
    LET common == {d \in 1 .. v.lcm : \A x \in ToSet(spec.values) : Divides(d, x)}
    IN  /\ v.gcd = Max(common)
        /\ \A x \in ToSet(spec.values) : Divides(Abs(x), v.lcm)
        /\ \A m \in 1 .. v.lcm - 1 : \E x \in ToSet(spec.values) : ~Divides(Abs(x), m)

ModularRight(spec, o) ==
    CASE spec.kind = "power" -> o.value = ProductInt([i \in 1 .. spec.exponent |-> spec.base]) % spec.modulus
      [] spec.kind = "inverse" ->
            IF o.ok THEN (spec.a * o.value) % spec.modulus = 1 % spec.modulus
            ELSE \A x \in 0 .. spec.modulus - 1 : (spec.a * x) % spec.modulus # 1 % spec.modulus
      [] spec.kind = "order" ->
            o.ok => Cardinality({PowMod(spec.a, k, spec.modulus) : k \in 0 .. spec.modulus}) = o.value
      [] spec.kind = "totient" -> o.ok => o.value = Cardinality({k \in 1 .. spec.n : Coprime(k, spec.n)})

PrimesRight(spec, v) ==
    CASE spec.kind = "nth" -> Prime(v) /\ Cardinality({p \in 1 .. v : Prime(p)}) = spec.n
      [] spec.kind = "count" -> v = Cardinality({p \in spec.from .. spec.to : Prime(p)})
      [] spec.kind = "sum" -> v = SumSet({p \in spec.from .. spec.to : Prime(p)})
      [] spec.kind = "next" -> Prime(v) /\ v > spec.value /\ \A p \in spec.value + 1 .. v - 1 : ~Prime(p)

\* Numerals read back to the numbers they were written for.
BaseRight(spec, v) == Horner(v.numeral, spec.base) * (IF v.negative THEN -1 ELSE 1) = spec.n

BasearithRight(spec, v) ==
    LET back == Horner(v.numeral, spec.to_base) * (IF v.negative THEN -1 ELSE 1)
        val(i) == Horner(spec.values[i], spec.from_base)
    IN  CASE spec.op = "convert"  -> back = val(1)
          [] spec.op = "add"      -> back = val(1) + val(2)
          [] spec.op = "subtract" -> back = val(1) - val(2)
          [] spec.op = "multiply" -> back = val(1) * val(2)

RomanRight(spec, v) == Has(spec, "number") => FromRoman(v, 0) = spec.number

\* An ISBN with its check digit changes it with any one digit, and the older one with any
\* two neighbours exchanged.
Exchanged(c, i) == [c EXCEPT ![i] = c[i + 1], ![i + 1] = c[i]]
ChecksumRight(spec, v) ==
    CASE spec.kind = "isbn10" ->
            /\ \A i \in 1 .. 9, d \in (0 .. 9) \ {0} : Isbn10([spec.code EXCEPT ![i] = (@ + d) % 10]) # v
            /\ \A i \in 1 .. 8 : spec.code[i] # spec.code[i + 1] => Isbn10(Exchanged(spec.code, i)) # v
      [] spec.kind = "isbn13" ->
            \A i \in 1 .. 12, d \in 1 .. 9 : Isbn13([spec.code EXCEPT ![i] = (@ + d) % 10]) # v
      [] OTHER -> TRUE
=============================================================================
