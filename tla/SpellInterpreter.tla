-------------------------- MODULE SpellInterpreter --------------------------
(***************************************************************************)
(* calculus.py's grad_pyspell: a procedure of one argument, run over dual  *)
(* numbers under an instruction budget.  Expressions are those of Calculus *)
(* with names for the variable; a condition compares two of them, or joins *)
(* conditions.                                                             *)
(***************************************************************************)
EXTENDS Calculus

CONSTANT SpellBudget  \* _BUDGET, 250000 in the code

Name(n) == [op |-> "name", name |-> n]
Assign(n, e) == [do |-> "assign", to |-> n, e |-> e]
AugAssign(n, op, e) == [do |-> "augment", to |-> n, by |-> op, e |-> e]
If(test, then, else) == [do |-> "if", test |-> test, then |-> then, else |-> else]
While(test, body) == [do |-> "while", test |-> test, body |-> body]
ReturnOf(e) == [do |-> "return", e |-> e]
Word(w) == [do |-> w]          \* "break", "continue", "pass", "return None"
Compare(op, a, b) == [op |-> op, left |-> a, right |-> b]
Joined(op, a, b) == [op |-> op, parts |-> <<a, b>>]
Not(t) == [op |-> "not", part |-> t]

\* The nodes _spell_eval visits, one instruction each: an exponent is not visited.
RECURSIVE Size(_)
Size(e) ==
    CASE e.op \in {"const", "name"} -> 1
      [] e.op \in {"neg", "pos", "**"} -> 1 + Size(e.left)
      [] OTHER -> 1 + Size(e.left) + Size(e.right)

RECURSIVE SpellValue(_, _)
SpellValue(e, env) ==
    CASE e.op = "const" -> Dual(Int2F(e.value), Zero)
      [] e.op = "name"  -> IF e.name \in DOMAIN env THEN env[e.name] ELSE RefusedDual
      [] e.op = "neg"   -> DNeg(SpellValue(e.left, env))
      [] e.op = "pos"   -> SpellValue(e.left, env)
      [] e.op = "**"    -> DPow(SpellValue(e.left, env), e.power)
      [] OTHER          -> DBinop(e.op, SpellValue(e.left, env), SpellValue(e.right, env))

\* _spell_eval with so much of the budget left.
SpellEval(e, env, left) == IF left - Size(e) <= 0 THEN RefusedDual ELSE SpellValue(e, env)

Holds(op, a, b) ==
    CASE op = "<" -> Less(a, b) [] op = "<=" -> ~Less(b, a) [] op = ">" -> Less(b, a)
      [] op = ">=" -> ~Less(a, b) [] op = "==" -> a = b [] op = "!=" -> a # b

\* _truthy: whether the condition holds and what it cost; `and' and `or' stop early.
Compared(t, a, b) ==
    [ok |-> a.ok /\ b.ok, cost |-> Size(t.left) + Size(t.right), holds |-> a.ok /\ b.ok /\ Holds(t.op, a.real, b.real)]
RECURSIVE Truthy(_, _, _)
Joint(t, first, env, left) ==
    IF ~first.ok \/ first.holds = (t.op = "or") THEN first
    ELSE [Truthy(t.parts[2], env, left - first.cost) EXCEPT !.cost = @ + first.cost]
Truthy(t, env, left) ==
    CASE t.op = "not" -> [Truthy(t.part, env, left) EXCEPT !.holds = ~@]
      [] t.op \in {"and", "or"} -> Joint(t, Truthy(t.parts[1], env, left), env, left)
      [] OTHER -> Compared(t, SpellEval(t.left, env, left), SpellEval(t.right, env, left - Size(t.left)))

Outcome(how, value, env, left) == [how |-> how, value |-> value, env |-> env, left |-> left]
RefusedRun == Outcome("refused", RefusedDual, << >>, 0)
Bind(n, d, env) == (n :> d) @@ env

\* What a loop does after its body came to how.
AfterBody(how) == IF how = "break" THEN "end" ELSE IF how \in {"continue", "end"} THEN "again" ELSE how

\* _run_block: how a block ends -- "end" when it runs out of statements or into a bare
\* return, which like the end is None to the caller -- with the environment and the budget.
Returned(value, env, left) == IF value.ok THEN Outcome("return", value, env, left) ELSE RefusedRun

RECURSIVE RunBlock(_, _, _), RunWhile(_, _, _)
\* The rest of a block, after an assignment and after a statement with a block inside.
Stored(block, value, env, left) ==
    IF value.ok THEN RunBlock(Tail(block), Bind(Head(block).to, value, env), left) ELSE RefusedRun
AfterInner(block, inner) == IF inner.how = "end" THEN RunBlock(Tail(block), inner.env, inner.left) ELSE inner
Branch(s, test, env, left) ==
    IF ~test.ok THEN RefusedRun ELSE RunBlock(IF test.holds THEN s.then ELSE s.else, env, left - test.cost)

Execute(block, s, env, b) ==
    CASE b <= 0 -> RefusedRun
      [] b > 0 /\ s.do = "return None" -> Outcome("end", RefusedDual, env, b)
      [] b > 0 /\ s.do = "return" -> Returned(SpellEval(s.e, env, b), env, b - Size(s.e))
      [] b > 0 /\ s.do = "assign" -> Stored(block, SpellEval(s.e, env, b), env, b - Size(s.e))
      [] b > 0 /\ s.do = "augment" ->
            IF s.to \notin DOMAIN env THEN RefusedRun
            ELSE Stored(block, DBinop(s.by, env[s.to], SpellEval(s.e, env, b)), env, b - Size(s.e))
      [] b > 0 /\ s.do \in {"break", "continue"} -> Outcome(s.do, RefusedDual, env, b)
      [] b > 0 /\ s.do = "pass" -> RunBlock(Tail(block), env, b)
      [] b > 0 /\ s.do = "if" -> AfterInner(block, Branch(s, Truthy(s.test, env, b), env, b))
      [] b > 0 /\ s.do = "while" -> AfterInner(block, RunWhile(s, env, b))

RunBlock(block, env, left) ==
    IF block = << >> THEN Outcome("end", RefusedDual, env, left) ELSE Execute(block, Head(block), env, left - 1)

\* A loop after its body came to r, and one whose test came to test.
Looped(s, r) ==
    IF AfterBody(r.how) = "again" THEN RunWhile(s, r.env, r.left) ELSE [r EXCEPT !.how = AfterBody(@)]
Tested(s, test, env, left) ==
    IF ~test.ok THEN RefusedRun
    ELSE IF ~test.holds THEN Outcome("end", RefusedDual, env, left - test.cost)
    ELSE IF left - test.cost - 1 <= 0 THEN RefusedRun
    ELSE Looped(s, RunBlock(s.body, env, left - test.cost - 1))
RunWhile(s, env, left) == Tested(s, Truthy(s.test, env, left), env, left)

\* grad_pyspell: the derivative at a point, or a Refusal ("the function returned nothing").
GradSpell(body, at) ==
    LET valueOf(r) == IF r.how = "return" THEN r.value ELSE RefusedDual
    IN  valueOf(RunBlock(body, "x" :> Dual(at, One), SpellBudget))
=============================================================================
