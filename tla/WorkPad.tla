------------------------------- MODULE WorkPad -------------------------------
(***************************************************************************)
(* experiments/loopmem/workpad.py: a record of derived rows.  A row is     *)
(* derived from two earlier ones, which it consumes; correcting a row marks*)
(* what descends from it stale; the newest row can be undone; and every    *)
(* attempt is remembered under the versions of its operands.               *)
(***************************************************************************)
EXTENDS Naturals, Sequences, FiniteSets

CONSTANTS Givens,         \* the values a record begins with
          Ops,            \* the operators it knows
          Commuting,      \* those whose operands are sorted in a key
          Apply(_, _, _), \* what an operator makes of two values
          Defined(_, _, _),
          MaxPadCalls,    \* calls of a run
          MaxRefused      \* of them calls that are refused and remembered

VARIABLES rows,           \* row n of the code is rows[n + 1]
          explored,       \* what was tried -> what came of it
          premise,        \* history: what was tried -> the operand values it was tried on
          undone,         \* history: places of rows that were undone
          revived,        \* history: a stale row was patched
          padCalls, refused  \* calls made, and those refused among them

padVars == <<rows, explored, premise, undone, revived, padCalls, refused>>

NoOp == "none"
UnknownOp == "?"

ASSUME GivensAssumption == Givens \in Seq({Givens[i] : i \in DOMAIN Givens})
ASSUME OpsAssumption == Commuting \subseteq Ops /\ NoOp \notin Ops /\ UnknownOp \notin Ops

Ids == DOMAIN rows
Deps(r) == {rows[r].deps[i] : i \in DOMAIN rows[r].deps}
Derived == {r \in Ids : rows[r].deps # << >>}
Live == {r \in Ids : ~rows[r].stale /\ ~rows[r].used}

NewRow(value, op, deps) ==
    [value |-> value, op |-> op, deps |-> deps, stale |-> FALSE, used |-> FALSE, version |-> 0]

PadInit ==
    /\ rows = [i \in 1 .. Len(Givens) |-> NewRow(Givens[i], NoOp, << >>)]
    /\ explored = << >> /\ premise = << >>
    /\ undone = {} /\ revived = FALSE
    /\ padCalls = 0 /\ refused = 0

-----------------------------------------------------------------------------
\* The key of an attempt: operator, operands, and the version of each.

Version(r) == IF r \in Ids THEN rows[r].version ELSE 0

Before(p, q) == p[1] < q[1] \/ (p[1] = q[1] /\ p[2] <= q[2])

Key(a, op, b) ==
    LET p == <<a, Version(a)>>
        q == <<b, Version(b)>>
    IN  IF op \in Commuting /\ ~Before(p, q) THEN <<op, q, p>> ELSE <<op, p, q>>

Fault(r) ==
    IF r \notin Ids THEN "no such row"
    ELSE IF rows[r].stale THEN "operand stale"
    ELSE IF rows[r].used THEN "operand already consumed"
    ELSE "none"

Verdict(a, op, b) ==
    IF op \notin Ops THEN "bad operator"
    ELSE IF Fault(a) # "none" THEN Fault(a)
    ELSE IF Fault(b) # "none" THEN Fault(b)
    ELSE IF ~Defined(rows[a].value, op, rows[b].value) THEN "division by zero"
    ELSE "ok"

Noted(f, key, value) == [k \in DOMAIN f \cup {key} |-> IF k = key THEN value ELSE f[k]]

\* The values an attempt was made on, in the order its key names them.
Premise(k) == <<rows[k[2][1]].value, rows[k[3][1]].value>>

Consumed(rs) == [r \in Ids |-> [rows[r] EXCEPT !.used = @ \/ r \in rs]]

\* What append does when it accepts: both operands are consumed, the row follows.
Extend(a, op, b) ==
    rows' = Append(Consumed({a, b}), NewRow(Apply(rows[a].value, op, rows[b].value), op, <<a, b>>))

\* append(a, op, b): an attempt with a known key is refused without a trace; any other is
\* remembered with its verdict, and extends the record if that is "ok".
PadAppend(a, op, b) ==
    LET k == Key(a, op, b)
        v == Verdict(a, op, b)
    IN  /\ k \notin DOMAIN explored
        /\ explored' = Noted(explored, k, v)
        /\ premise' = IF {a, b} \subseteq Ids THEN Noted(premise, k, Premise(k)) ELSE premise
        /\ \/ v = "ok" /\ Extend(a, op, b) /\ UNCHANGED refused
           \/ v # "ok" /\ refused < MaxRefused /\ refused' = refused + 1 /\ UNCHANGED rows
        /\ UNCHANGED <<undone, revived>>

\* undo(): the newest derived row goes, its operands are free again.
CanUndo == rows # << >> /\ rows[Len(rows)].deps # << >>

Dropped ==
    LET n == Len(rows)
    IN  [r \in 1 .. n - 1 |-> [rows[r] EXCEPT !.used = @ /\ r \notin Deps(n)]]

PadUndo ==
    /\ CanUndo
    /\ rows' = Dropped
    /\ undone' = undone \cup {Len(rows)}
    /\ UNCHANGED <<explored, premise, revived, refused>>

\* Mutant: only the rows derived from rid directly.
MarksChildren(rid, marked) ==
    \A r \in Ids : r \in marked <=> ~rows[r].stale /\ rid \in Deps(r)

\* _mark_stale_below: the rows that become stale when rid is corrected.  A row that is stale
\* already is passed over, and so does not pass the mark on.  Operands have smaller ids, so
\* there is exactly one such set.
Marks(rid, marked) ==
    \A r \in Ids : r \in marked <=> /\ ~rows[r].stale /\ rows[r].deps # << >>
                                   /\ Deps(r) \cap (marked \cup {rid}) # {}

\* Operands of the rows marked that are not stale themselves are free again, and so is rid.
Freed(rid, marked) ==
    {d \in UNION {Deps(r) : r \in marked} : d # rid /\ ~rows[d].stale /\ d \notin marked} \cup {rid}

Corrected(rid, op) ==
    [rows[rid] EXCEPT !.value = Apply(rows[rows[rid].deps[1]].value, op, rows[rows[rid].deps[2]].value),
                      !.op = op, !.stale = FALSE, !.version = @ + 1]

\* patch(rid, op): the row is computed again with another operator, where it stands.
PadPatch(rid, op) ==
    /\ rid \in Derived
    /\ Defined(rows[rows[rid].deps[1]].value, op, rows[rows[rid].deps[2]].value)
    /\ \E marked \in SUBSET (Ids \ {rid}) :
        /\ Marks(rid, marked)
        /\ LET marking(r) == IF r = rid THEN Corrected(rid, op)
                             ELSE IF r \in marked
                                  THEN [rows[r] EXCEPT !.stale = TRUE, !.version = @ + 1]
                                  ELSE rows[r]
           IN  rows' = [r \in Ids |-> [marking(r) EXCEPT !.used = @ /\ r \notin Freed(rid, marked)]]
    /\ revived' = (revived \/ rows[rid].stale)
    /\ UNCHANGED <<explored, premise, undone, refused>>

\* Besides rows and operators that are there, one of each that is not is tried.
PadNext ==
    /\ padCalls < MaxPadCalls /\ padCalls' = padCalls + 1
    /\ \/ \E a, b \in Ids, op \in Ops : PadAppend(a, op, b)
       \/ \E op \in Ops : PadAppend(1, op, Len(rows) + 1)
       \/ PadAppend(1, UnknownOp, 1)
       \/ PadUndo
       \/ \E rid \in Ids, op \in Ops : PadPatch(rid, op)

PadSpec == PadInit /\ [][PadNext]_padVars

-----------------------------------------------------------------------------
\* Correctness.

\* A derived row stands on two earlier rows and every row has its flags.
PadTypeOK ==
    /\ rows \in Seq({rows[r] : r \in Ids})
    /\ \A r \in Ids :
        /\ rows[r].stale \in BOOLEAN /\ rows[r].used \in BOOLEAN /\ rows[r].version \in Nat
        /\ rows[r].deps \in Seq(1 .. r - 1) /\ Len(rows[r].deps) \in {0, 2}
        /\ rows[r].deps # << >> => rows[r].op \in Ops

\* A row that is not stale holds what its operator makes of the values its operands hold now,
\* however many of them were corrected since (workpad.py:13-14, 22-24, 161-164).
ValueFollows ==
    \A r \in Derived : ~rows[r].stale =>
        rows[r].value = Apply(rows[rows[r].deps[1]].value, rows[r].op, rows[rows[r].deps[2]].value)

Standing(r) == ~rows[r].stale /\ \E d \in Deps(r) : rows[d].stale

\* As long as no stale row is corrected itself, nothing derived from a stale row is left
\* standing (workpad.py:13-14, 163-164).
NothingLeftStanding == ~revived => \A r \in Ids : ~Standing(r)

\* The same said of every record, whatever was corrected.
NothingEverStanding == \A r \in Ids : ~Standing(r)

Consumers(d) == {r \in Ids : ~rows[r].stale /\ d \in Deps(r)}

\* And a row that is not stale is consumed exactly if one row that is not stale is derived from
\* it, and by one such row at most (workpad.py:62, 127-129, 190-192).
ConsumedOnce ==
    ~revived => \A d \in Ids : ~rows[d].stale =>
        /\ rows[d].used <=> Consumers(d) # {}
        /\ \A r, s \in Consumers(d) : r = s

\* What seen() answers on the current premise was tried on the values the operands hold now,
\* if neither took the place of a row undone: a patch reopens what it invalidates
\* (workpad.py:84-87, 100).
PremiseKept ==
    \A a, b \in Ids \ undone, op \in Ops :
        Key(a, op, b) \in DOMAIN premise => premise[Key(a, op, b)] = Premise(Key(a, op, b))

\* The same of every operand, also of one that took the number of a row undone (workpad.py:100).
TriedOnThese ==
    \A a, b \in Ids, op \in Ops :
        Key(a, op, b) \in DOMAIN premise => premise[Key(a, op, b)] = Premise(Key(a, op, b))

\* The record is what workpad.py says of it after any appends, undos and corrections.
RecordSound == ValueFollows /\ NothingLeftStanding /\ ConsumedOnce /\ PremiseKept
=============================================================================
