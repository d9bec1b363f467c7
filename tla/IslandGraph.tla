----------------------------- MODULE IslandGraph -----------------------------
(***************************************************************************)
(* experiments/loopmem/islands.py, solve_graph: a system of named          *)
(* definitions is resolved from the one asked for.  A definition is an     *)
(* expression over other names, or a machine whose slots may name others.  *)
(* The recursion of resolve is a stack of frames.                          *)
(***************************************************************************)
EXTENDS Integers, Sequences, FiniteSets

CONSTANTS IslandNames,
          NameLength,  \* of each name, in characters
          Bodies,      \* [machine, refs, slots]: the names in the text of an expression or in the values of a
                       \* machine's slots, and the names that are not values: of slots, machine, report
          Makes(_, _), \* what a body makes of the values put in: [text, value], text for an answer in words
          AnswerWords,       \* the words of such answers
          Asked

VARIABLES defs,      \* name -> body, for the names that are defined
          stack,     \* the calls of resolve: [name, todo]
          visiting,
          values,    \* name -> what it made
          resolution

graphVars == <<defs, stack, visiting, values, resolution>>

Unresolved == [kind |-> "open"]
RefusedFor(kind, n) == [kind |-> kind, of |-> n]

\* What NAME finds in the text of a body: slot names too.
NamesIn(n) == defs[n].refs \cup defs[n].slots

\* The names that resolve is called for.
WantedOf(n) == (NamesIn(n) \cap DOMAIN defs) \ {n}

Frame(n) == [name |-> n, todo |-> WantedOf(n)]

\* Mutant: a definition's own name is not noticed in its text.
LeftButOwn(n) == defs[n].refs \ DOMAIN defs

\* The names substitution leaves in the text, and the values it puts in.
Left(n) == defs[n].refs \ (DOMAIN defs \ {n})
PutIn(n) == (defs[n].refs \cap DOMAIN defs) \ {n}
Wordy(n) == \E m \in PutIn(n) : values[m].text

Worth(n, v) == Makes(defs[n], [m \in PutIn(n) |-> v[m]])

GraphInit ==
    /\ defs \in UNION {[D -> Bodies] : D \in SUBSET IslandNames}
    /\ values = [n \in {} |-> 0]
    /\ IF Asked \in DOMAIN defs
       THEN visiting = {Asked} /\ stack = <<Frame(Asked)>> /\ resolution = Unresolved
       ELSE stack = <<>> /\ visiting = {} /\ resolution = RefusedFor("never defined", Asked)

Top == stack[Len(stack)]
Caller == SubSeq(stack, 1, Len(stack) - 1)
Running == resolution = Unresolved /\ stack # <<>>

\* values is asked first: only a name without a value can be found on its own way.
HasValue(n) == n \in DOMAIN values
Circular(n) == ~HasValue(n) /\ n \in visiting

Rest(n) == [Top EXCEPT !.todo = @ \ {n}]

\* The next reference of the body: longer names first, in any order among names of one length.
Refer(n) ==
    /\ Running /\ n \in Top.todo
    /\ \A m \in Top.todo : NameLength[m] <= NameLength[n]
    /\ \/ /\ HasValue(n)
          /\ stack' = Append(Caller, Rest(n))
          /\ UNCHANGED <<visiting, resolution>>
       \/ /\ Circular(n)
          /\ resolution' = RefusedFor("defines itself", n)
          /\ UNCHANGED <<stack, visiting>>
       \/ /\ ~HasValue(n) /\ ~Circular(n)
          /\ stack' = Append(Append(Caller, Rest(n)), Frame(n))
          /\ visiting' = visiting \cup {n}
          /\ UNCHANGED resolution
    /\ UNCHANGED <<defs, values>>

\* The value is kept and the call returns.
Resolved(n) ==
    /\ values' = [m \in DOMAIN values \cup {n} |-> IF m = n THEN Worth(n, values) ELSE values[m]]
    /\ visiting' = visiting \ {n}
    /\ stack' = Caller
    /\ resolution' = IF Caller = <<>> THEN [kind |-> "answer", of |-> n] ELSE Unresolved

Refuses(kind, n) == resolution' = RefusedFor(kind, n) /\ UNCHANGED <<stack, visiting, values>>

\* A word left in the text is a name without a definition. Without one it is arithmetic or is not, and
\* what looks like arithmetic may yet divide by zero or be no expression: that solve_graph does not catch.
Evaluate ==
    /\ Running /\ Top.todo = {} /\ ~defs[Top.name].machine
    /\ \/ \E m \in Left(Top.name) \cup (IF Wordy(Top.name) THEN AnswerWords ELSE {}) : Refuses("never defined", m)
       \/ /\ Left(Top.name) = {} /\ ~Wordy(Top.name)
          /\ Resolved(Top.name) \/ Refuses("not arithmetic", Top.name) \/ Refuses("raises", Top.name)
    /\ UNCHANGED defs

\* run2 answers or refuses, whatever is in the slots; names and words left there are text to it.
RunMachine ==
    /\ Running /\ Top.todo = {} /\ defs[Top.name].machine
    /\ Resolved(Top.name) \/ Refuses("machine", Top.name)
    /\ UNCHANGED defs

GraphNext == (\E n \in IslandNames : Refer(n)) \/ Evaluate \/ RunMachine

GraphSpec == GraphInit /\ [][GraphNext]_graphVars /\ WF_graphVars(GraphNext)

-----------------------------------------------------------------------------
\* What a name rests on, itself included: what is in every set of definitions that has the name in it
\* and with each definition those it refers to.
RestsOn(n) ==
    LET Closed(S) == \A m \in S : defs[m].refs \cap DOMAIN defs \subseteq S
    IN  {m \in DOMAIN defs : \A S \in SUBSET DOMAIN defs : n \in S /\ Closed(S) => m \in S}

OnItself(n) == \E m \in defs[n].refs \cap DOMAIN defs : n \in RestsOn(m)

\* An answer solves the system: everything it rests on has a value, each value is what its own
\* definition makes of the others, and no expression among them names what is not there, or itself.
AnswerSolves ==
    resolution.kind = "answer" =>
        \A n \in RestsOn(Asked) :
            /\ n \in DOMAIN values /\ values[n] = Worth(n, values)
            /\ ~defs[n].machine => defs[n].refs \subseteq DOMAIN values \ {n}

\* What the system asked for refers to, directly or by way of others; and the words it makes.
Referenced == {Asked} \cup AnswerWords \cup UNION {defs[n].refs : n \in RestsOn(Asked)}

\* A refusal names the culprit (islands.py:17-18): what is said to define itself does, by way of
\* others, and is needed for the answer; what is said to be missing is needed and is missing (or it is
\* its own reference).
RefusalNamesCulprit ==
    /\ resolution.kind = "defines itself" => OnItself(resolution.of) /\ resolution.of \in RestsOn(Asked)
    /\ resolution.kind = "never defined" =>
          /\ resolution.of \in Referenced
          /\ resolution.of \notin DOMAIN defs \/ resolution.of \in defs[resolution.of].refs

\* What solve_graph answers and what it refuses are both true of the system, where slots, machines and
\* words are not called like definitions.
ResolvedRight == AnswerSolves /\ RefusalNamesCulprit

\* However the definitions refer to each other, resolving them comes to an end.
Ends == <>(resolution # Unresolved)

\* "'x' is referenced but never defined" is said of names that are not defined (islands.py:206).
MissingIsMissing == resolution.kind = "never defined" => resolution.of \notin DOMAIN defs

\* Only values are references, never the name of a slot (islands.py:167).
CycleIsCycle == resolution.kind = "defines itself" => OnItself(resolution.of)
=============================================================================
