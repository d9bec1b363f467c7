------------------------------- MODULE PySpell -------------------------------
(***************************************************************************)
(* mpeqs/pyspell.py: threads define functions in one shared store and call *)
(* them.  A source is known by the name in its `def'; the store remembers  *)
(* the names it has compiled, the database behind it (mpedb, external) the *)
(* functions.  What a source computes is opaque: its body.                 *)
(***************************************************************************)
EXTENDS Naturals, Sequences, FiniteSets

CONSTANTS Users,     \* threads
          Jobs,      \* [op, sources]: "call" of one source or "check_bijective" of two; a
                     \* source is [defs, name, body, compiles], defs its number of `def's
          Inverses,  \* <<forward, inverse>>: bodies that undo each other on every probe
          MaxJobs,   \* calls of each thread
          MaxStores  \* stores that can be opened (one, if the lock does its work)

VARIABLES default, default_lock,      \* module globals; 0 is None
          defined, lock,              \* Spell instances: _defined, _lock
          functions,                  \* the database of each: name -> body
          spc, job, mine, names,      \* each thread: place, request, store, names so far
          result,                     \* what its last call came to
          jobs,                       \* calls begun
          ran, compiled               \* history: <<source, body run>>, successful compilations

spellVars == <<default, default_lock, defined, lock, functions, spc, job, mine, names, result, jobs,
               ran, compiled>>

Stores == 1 .. MaxStores
Free == "free"
Sources == [defs : Nat, name : STRING, body : STRING, compiles : BOOLEAN]

ASSUME UsersAssumption == Free \notin Users
ASSUME JobsAssumption == \A j \in Jobs : j \in [op : {"call", "check_bijective"}, sources : Seq(Sources)]

None == 0
Opened == {s \in Stores : s \in DOMAIN functions}

\* A dictionary with one entry more.
With(f, key, value) == [k \in DOMAIN f \cup {key} |-> IF k = key THEN value ELSE f[k]]

NoJob == [op |-> "none", sources |-> << >>]
SpellTypeOK ==
    /\ default \in Opened \cup {None}
    /\ default_lock \in Users \cup {Free}
    /\ \A s \in Opened : lock[s] \in Users \cup {Free} /\ defined[s] \subseteq DOMAIN functions[s]
    /\ \A u \in Users : mine[u] \in Opened \cup {None}

SpellInit ==
    /\ default = None /\ default_lock = Free
    /\ defined = << >> /\ lock = << >> /\ functions = << >>
    /\ spc = [u \in Users |-> "idle"]
    /\ job = [u \in Users |-> NoJob]
    /\ mine = [u \in Users |-> None]
    /\ names = [u \in Users |-> << >>]
    /\ result = [u \in Users |-> "none"]
    /\ jobs = [u \in Users |-> 0]
    /\ ran = {} /\ compiled = << >>

-----------------------------------------------------------------------------
\* The module's functions: _shared().call, _shared().check_bijective.

StartJob(u, j) ==
    /\ spc[u] = "idle" /\ jobs[u] < MaxJobs
    /\ jobs' = [jobs EXCEPT ![u] = @ + 1]
    /\ job' = [job EXCEPT ![u] = j]
    /\ names' = [names EXCEPT ![u] = << >>]
    /\ spc' = [spc EXCEPT ![u] = "shared"]
    /\ UNCHANGED <<default, default_lock, defined, lock, functions, mine, result, ran, compiled>>

\* Mutant: the test for None is made without the lock.
EnterShared(u) == UNCHANGED default_lock
TakeDefaultLock(u) == default_lock = Free /\ default_lock' = u

\* _shared: under _default_lock, look whether there is a store ...
SharedTest(u) ==
    /\ spc[u] = "shared"
    /\ TakeDefaultLock(u)
    /\ spc' = [spc EXCEPT ![u] = IF default = None THEN "open" ELSE "opened"]
    /\ UNCHANGED <<default, defined, lock, functions, job, mine, names, result, jobs, ran, compiled>>

\* ... open one if not: Spell() begins with a database of its own and nothing defined ...
SharedOpen(u) ==
    LET s == Cardinality(Opened) + 1
    IN  /\ spc[u] = "open" /\ s \in Stores
        /\ defined' = With(defined, s, {})
        /\ lock' = With(lock, s, Free)
        /\ functions' = With(functions, s, << >>)
        /\ default' = s
        /\ spc' = [spc EXCEPT ![u] = "opened"]
        /\ UNCHANGED <<default_lock, job, mine, names, result, jobs, ran, compiled>>

\* ... and return it.
SharedReturn(u) ==
    /\ spc[u] = "opened"
    /\ mine' = [mine EXCEPT ![u] = default]
    /\ default_lock' = Free
    /\ spc' = [spc EXCEPT ![u] = "define"]
    /\ UNCHANGED <<default, defined, lock, functions, job, names, result, jobs, ran, compiled>>

Source(u) == job[u].sources[Len(names[u]) + 1]

End(u, outcome) ==
    /\ result' = [result EXCEPT ![u] = outcome]
    /\ spc' = [spc EXCEPT ![u] = "idle"]

\* Spell.define, for each source of the job in turn: function_name refuses a text that does
\* not hold exactly one def; otherwise the store's lock is taken.
DefineEnter(u) ==
    /\ spc[u] = "define" /\ Len(names[u]) < Len(job[u].sources)
    /\ \/ /\ Source(u).defs # 1
          /\ End(u, "refused")
          /\ UNCHANGED lock
       \/ /\ Source(u).defs = 1
          /\ lock[mine[u]] = Free
          /\ lock' = [lock EXCEPT ![mine[u]] = u]
          /\ spc' = [spc EXCEPT ![u] = "compile"]
          /\ UNCHANGED result
    /\ UNCHANGED <<default, default_lock, defined, functions, job, mine, names, jobs, ran, compiled>>

Remember(u) ==
    defined' = [defined EXCEPT ![mine[u]] = IF Source(u).compiles THEN @ \cup {Source(u).name} ELSE @]

\* Mutant: the lock is kept when a source does not compile.
KeepLock(u) == lock' = [lock EXCEPT ![mine[u]] = IF Source(u).compiles THEN Free ELSE u]
Release(u) == lock' = [lock EXCEPT ![mine[u]] = Free]

IsDefined(u) == Source(u).name \in defined[mine[u]]

\* Under the lock: a name already defined is done with, whatever its source; otherwise the
\* source is compiled, stored and the name remembered, or refused.
DefineLocked(u) ==
    LET s == mine[u]
        src == Source(u)
    IN  /\ spc[u] = "compile"
        /\ Release(u)
        /\ \/ /\ IsDefined(u)
              /\ names' = [names EXCEPT ![u] = Append(@, src.name)]
              /\ spc' = [spc EXCEPT ![u] = "define"]
              /\ UNCHANGED <<defined, functions, compiled, result>>
           \/ /\ ~IsDefined(u)
              /\ Remember(u)
              /\ IF src.compiles
                 THEN /\ functions' = [functions EXCEPT ![s] = With(@, src.name, src.body)]
                      /\ compiled' = Append(compiled, <<s, src.name>>)
                      /\ names' = [names EXCEPT ![u] = Append(@, src.name)]
                      /\ spc' = [spc EXCEPT ![u] = "define"]
                      /\ UNCHANGED result
                 ELSE /\ End(u, "refused")
                      /\ UNCHANGED <<functions, compiled, names>>
        /\ UNCHANGED <<default, default_lock, job, mine, jobs, ran>>

Body(u, i) == functions[mine[u]][names[u][i]]

\* The query that calls the function of that name.
Query(u) ==
    /\ spc[u] = "define" /\ job[u].op = "call" /\ Len(names[u]) = 1
    /\ IF names[u][1] \in DOMAIN functions[mine[u]]
       THEN /\ ran' = ran \cup {<<job[u].sources[1], Body(u, 1)>>}
            /\ End(u, "ran")
       ELSE /\ End(u, "refused")
            /\ UNCHANGED ran
    /\ UNCHANGED <<default, default_lock, defined, lock, functions, job, mine, names, jobs, compiled>>

\* create_lens probes the two functions of these names.
CreateLens(u) ==
    /\ spc[u] = "define" /\ job[u].op = "check_bijective" /\ Len(names[u]) = 2
    /\ End(u, IF <<Body(u, 1), Body(u, 2)>> \in Inverses THEN "bijective" ELSE "refused")
    /\ UNCHANGED <<default, default_lock, defined, lock, functions, job, mine, names, jobs, ran, compiled>>

SpellStep(u) ==
    \/ SharedTest(u) \/ SharedOpen(u) \/ SharedReturn(u)
    \/ DefineEnter(u) \/ DefineLocked(u) \/ Query(u) \/ CreateLens(u)

SpellNext == \E u \in Users : (\E j \in Jobs : StartJob(u, j)) \/ SpellStep(u)

SpellFairness == \A u \in Users : WF_spellVars(SpellStep(u))
SpellSpec == SpellInit /\ [][SpellNext]_spellVars /\ SpellFairness

-----------------------------------------------------------------------------
\* Every thread works on the one shared store (_shared's test and assignment under the lock).
OneStore == \A u, v \in Users : mine[u] # None /\ mine[v] # None => mine[u] = mine[v]

\* No name is compiled twice in a store, whichever threads meet (define's test and add under
\* the lock), and while the lock is free the store and the database know the same names.
CompiledOnce ==
    /\ \A i, j \in 1 .. Len(compiled) : compiled[i] = compiled[j] => i = j
    /\ \A s \in Opened : lock[s] = Free => defined[s] = DOMAIN functions[s]

\* A name keeps its function for good: calls of one source that run at all run the same body,
\* however calls of other sources of that name come between them.
SameSourceSameBody == \A x, y \in ran : x[1] = y[1] => x[2] = y[2]

\* A pair found bijective stays it: the names that were probed still stand for functions that
\* undo each other, whatever has been defined since.
BijectiveForGood ==
    \A u \in Users : spc[u] = "idle" /\ result[u] = "bijective" => <<Body(u, 1), Body(u, 2)>> \in Inverses

\* Names are for good: one store, each name compiled in it once, and what was found out about
\* a name stays true of it.
NamesForGood == OneStore /\ CompiledOnce /\ SameSourceSameBody /\ BijectiveForGood

\* "Define the function if needed, then call it": a call runs the source it was given.
CallRunsItsSource == \A x \in ran : x[2] = x[1].body

\* Every call returns (both locks are always given back).
SpellReturns == \A u \in Users : spc[u] # "idle" ~> spc[u] = "idle"
=============================================================================
